------------------------------ MODULE QuizSets ------------------------------
(* The daily quiz and the activity tracker (backend/quiz/services.py,          *)
(* activity.py, views.py), as the gunicorn workers interleave their requests.  *)
(*                                                                             *)
(* Only build_set, rebuild_todays_set and activity.refresh run in transactions *)
(* of their own: everything else commits statement by statement, so a request  *)
(* is split wherever another worker, or a kill, can get in between.            *)
(*                                                                             *)
(* Questions are numbered in the order build_set takes them (created_at, id);  *)
(* scope is what questions_in_scope selects of them.  Both daily goals are one *)
(* number.                                                                     *)
EXTENDS Integers, FiniteSets

CONSTANTS
    Questions,      \* bound: generated questions
    Workers,        \* bound: requests served at once
    SetSize,        \* questions_per_set
    Goals,          \* the daily goals a learner may choose
    Days,           \* bound: days
    MaxRequests,    \* bound: requests served
    MaxKills,       \* bound: requests killed
    Scopes,         \* bound: what the learner may select
    Hard,           \* bound: the questions the learner gets wrong
    PassPct,        \* pass_pct
    Uses            \* bound: the requests the instance makes

ASSUME QuizAssumption ==
    /\ Questions \subseteq Nat /\ IsFiniteSet(Questions)
    /\ SetSize \in Nat \ {0} /\ Goals \subseteq Nat /\ Goals # {}
    /\ Scopes \subseteq SUBSET Questions /\ PassPct \in 10..100
    /\ Days \in Nat \ {0} /\ {MaxRequests, MaxKills} \subseteq Nat

VARIABLES
    today,          \* timezone.localdate()
    scope,          \* the questions in the learner's scope
    sets,           \* quiz_sets with their questions
    made,           \* the last id given to a set
    attempts,       \* quiz_attempts
    prefs,          \* settings: the goals and question_cycle
    watches,        \* reel_views per day
    rows,           \* daily_activity
    req,            \* the request each worker serves
    missed,         \* history: days whose row was not recounted after a change, and may be wrong
    recorded,       \* history: every attempt there ever was
    settled,        \* history: those that were recorded while nobody was about to release their set
    rewound,        \* history: cycles that a save of settings took back
    served, kills   \* how much of the bounds is used

quizVars == <<sets, made, attempts>>
dayVars  == <<watches, rows, missed>>
history  == <<recorded, settled, rewound>>
vars     == <<today, scope, quizVars, prefs, dayVars, history, req, served, kills>>

Idle  == [pc |-> "idle"]
NoRow == [there |-> FALSE, answered |-> 0, watched |-> 0, goal |-> 0]

Init ==
    /\ today = 1 /\ scope \in Scopes
    /\ sets = {} /\ made = 0 /\ attempts = {}
    /\ prefs \in [cycle : {1}, goal : Goals]
    /\ watches = [d \in 1..Days |-> 0]
    /\ rows = [d \in 1..Days |-> NoRow]
    /\ req = [w \in Workers |-> Idle]
    /\ missed = {} /\ recorded = {} /\ settled = {} /\ rewound = {}
    /\ served = 0 /\ kills = 0

At(w, pc)  == req[w].pc = pc
Go(w, r)   == req' = [req EXCEPT ![w] = r]
Done(w)    == Go(w, Idle)

On(d)        == {s \in sets : s.on = d}
Attempted(s) == \E a \in attempts : a.set = s.id
Passed(s)    == \E a \in attempts : a.set = s.id /\ a.passed

-----------------------------------------------------------------------------
(* Building sets.                                                              *)

Without(gone) == {s \in sets : s.id \notin gone}

\* _release: the attempts, if there are any by now, go with the set, and nobody
\* recounts the days they were made on.
Released(gone) ==
    /\ attempts' = {a \in attempts : a.set \notin gone}
    /\ missed' = missed \union {a.at : a \in attempts \ attempts'}

Used(remaining, cycle) == UNION {s.asks : s \in {x \in remaining : x.cycle = cycle}}

Oldest(pool) == {q \in pool : Cardinality({p \in pool : p < q}) < SetSize}

\* Mutant: the set keeps the number of the cycle that has just ended.
NextSet_OldCycle(remaining, inScope, d) ==
    LET fresh == inScope \ Used(remaining, prefs.cycle)
    IN  [id |-> made + 1, on |-> d, cycle |-> prefs.cycle,
         asks |-> Oldest(IF fresh = {} THEN inScope ELSE fresh)]

NextSet(remaining, inScope, d) ==
    LET fresh == inScope \ Used(remaining, prefs.cycle)
    IN  [id |-> made + 1, on |-> d,
         cycle |-> IF fresh = {} THEN prefs.cycle + 1 ELSE prefs.cycle,
         asks |-> Oldest(IF fresh = {} THEN inScope ELSE fresh)]

\* Mutant: the new cycle is not saved.
BuildSet_CycleUnsaved(remaining, inScope, d) ==
    IF inScope = {}
    THEN sets' = remaining /\ UNCHANGED <<made, prefs>>
    ELSE LET new == NextSet(remaining, inScope, d)
         IN  sets' = remaining \union {new} /\ made' = new.id /\ UNCHANGED prefs

\* build_set, under the lock on the settings row.
BuildSet(remaining, inScope, d) ==
    IF inScope = {}
    THEN sets' = remaining /\ UNCHANGED <<made, prefs>>
    ELSE LET new == NextSet(remaining, inScope, d)
         IN  /\ sets' = remaining \union {new}
             /\ made' = new.id
             /\ prefs' = [prefs EXCEPT !.cycle = new.cycle]

\* available_on is unique: a second set of a day rolls the transaction back.
Conflict(remaining, inScope, d) == inScope # {} /\ \E s \in remaining : s.on = d

-----------------------------------------------------------------------------
(* GET /quiz/today.                                                            *)

LoadStale(w) ==
    /\ At(w, "idle")
    /\ Go(w, [pc |-> "release", day |-> today,
              stale |-> {s.id : s \in {x \in sets : x.on < today /\ ~Attempted(x)}}])
    /\ UNCHANGED <<today, scope, quizVars, prefs, dayVars, history, kills>>

ReleaseStale(w) ==
    /\ At(w, "release")
    /\ \E id \in req[w].stale :
          /\ sets' = Without({id}) /\ Released({id})
          /\ Go(w, [req[w] EXCEPT !.stale = @ \ {id}])
    /\ UNCHANGED <<today, scope, made, prefs, watches, rows, history, kills>>

ReadCurrent(w) ==
    /\ At(w, "release") /\ req[w].stale = {}
    /\ IF On(req[w].day) # {} THEN Done(w) ELSE Go(w, [pc |-> "build", day |-> req[w].day])
    /\ UNCHANGED <<today, scope, quizVars, prefs, dayVars, history, kills>>

BuildToday(w) ==
    /\ At(w, "build")
    /\ IF Conflict(sets, scope, req[w].day)
       THEN UNCHANGED <<sets, made, prefs>>
       ELSE BuildSet(sets, scope, req[w].day)
    /\ Done(w)
    /\ UNCHANGED <<today, scope, attempts, dayVars, history, kills>>

\* What today() answers when there is nothing to build from.
Unfinished(d) ==
    LET old == {s \in sets : s.on < d /\ ~Passed(s)}
    IN  {s \in old : \A other \in old : other.on <= s.on}

-----------------------------------------------------------------------------
(* PATCH /notes/<id>: the scope and today's set change in one transaction.     *)

\* Mutant: a set is rebuilt although it has been attempted.
CheckCurrent_Any(w, new) ==
    /\ At(w, "idle")
    /\ Go(w, [pc |-> "rebuild", day |-> today, scope |-> new, current |-> {s.id : s \in On(today)}])
    /\ UNCHANGED <<today, scope, quizVars, prefs, dayVars, history, kills>>

CheckCurrent(w, new) ==
    /\ At(w, "idle")
    /\ IF \E s \in On(today) : Attempted(s)
       THEN scope' = new /\ UNCHANGED req
       ELSE /\ Go(w, [pc |-> "rebuild", day |-> today, scope |-> new,
                      current |-> {s.id : s \in On(today)}])
            /\ UNCHANGED scope
    /\ UNCHANGED <<today, quizVars, prefs, dayVars, history, kills>>

Rebuild(w) ==
    LET r == req[w]
    IN  /\ At(w, "rebuild")
        /\ IF Conflict(Without(r.current), r.scope, r.day)
           THEN UNCHANGED <<scope, quizVars, prefs, missed>>
           ELSE /\ BuildSet(Without(r.current), r.scope, r.day)
                /\ Released(r.current)
                /\ scope' = r.scope
        /\ Done(w)
        /\ UNCHANGED <<today, watches, rows, history, kills>>

-----------------------------------------------------------------------------
(* Activity: counts of a day's events, and the row that keeps them.            *)

Answered(d) == UNION {a.asked : a \in {x \in attempts : x.at = d}}

\* Mutant: only attempts that passed count.
Counts_Passed(d) ==
    [answered |-> Cardinality(UNION {a.asked : a \in {x \in attempts : x.at = d /\ x.passed}}),
     watched |-> watches[d]]

\* activity._counts: questions are counted once however often they are asked.
Counts(d) == [answered |-> Cardinality(Answered(d)), watched |-> watches[d]]

Met(d) == rows[d].there /\ rows[d].answered >= rows[d].goal

\* Mutant: every recount takes the goals of now.
GoalFor_Now(d) == prefs.goal

\* A past day keeps the goals it was recorded with.
GoalFor(d) == IF rows[d].there /\ d # today THEN rows[d].goal ELSE prefs.goal

RowFor(d, counts) ==
    [there |-> TRUE, answered |-> counts.answered, watched |-> counts.watched, goal |-> GoalFor(d)]

\* Mutant: the day of now is recounted instead of the event's.
Refresh_Today(w) ==
    /\ At(w, "refresh") /\ rows[today].there
    /\ rows' = [rows EXCEPT ![today] = RowFor(today, Counts(today))]
    /\ missed' = missed \ {today}
    /\ Done(w)
    /\ UNCHANGED <<today, scope, quizVars, prefs, watches, history, kills>>

\* refresh of a row that exists: locked, then counted.
Refresh(w) ==
    LET d == req[w].day
    IN  /\ At(w, "refresh") /\ rows[d].there
        /\ rows' = [rows EXCEPT ![d] = RowFor(d, Counts(d))]
        /\ missed' = missed \ {d}
        /\ Done(w)
        /\ UNCHANGED <<today, scope, quizVars, prefs, watches, history, kills>>

\* There is no row to lock: the counts and goals are read, the insert comes later.
ReadNoRow(w) ==
    LET d == req[w].day
    IN  /\ At(w, "refresh") /\ ~rows[d].there
        /\ Go(w, [pc |-> "insert row", day |-> d, row |-> RowFor(d, Counts(d)), watch |-> 0])
        /\ UNCHANGED <<today, scope, quizVars, prefs, dayVars, history, kills>>

\* No recount of the day comes any more, which leaves its row wrong if it isn't right.
Miss(d) ==
    missed' = IF rows[d].there /\ rows[d].answered = Counts(d).answered THEN missed ELSE missed \union {d}

\* day is unique.  A refused insert takes a watch with it, whose view is part of
\* the same transaction, but not an attempt, which is already committed.
InsertRow(w) ==
    LET d == req[w].day
    IN  /\ At(w, "insert row")
        /\ IF rows[d].there
           THEN /\ IF req[w].watch = 0 THEN Miss(d) ELSE UNCHANGED missed
                /\ UNCHANGED <<rows, watches>>
           ELSE /\ rows' = [rows EXCEPT ![d] = req[w].row]
                /\ watches' = [watches EXCEPT ![d] = @ + req[w].watch]
                /\ missed' = IF req[w].row.answered = Counts(d).answered THEN missed \ {d} ELSE missed
        /\ Done(w)
        /\ UNCHANGED <<today, scope, quizVars, prefs, history, kills>>

\* POST /reels/<id>/views: the view and the row in one transaction.
Watch(w) ==
    LET counts == [Counts(today) EXCEPT !.watched = @ + 1]
    IN  /\ At(w, "idle")
        /\ IF rows[today].there
           THEN /\ watches' = [watches EXCEPT ![today] = @ + 1]
                /\ rows' = [rows EXCEPT ![today] = RowFor(today, counts)]
                /\ missed' = missed \ {today}
                /\ UNCHANGED req
           ELSE /\ Go(w, [pc |-> "insert row", day |-> today, row |-> RowFor(today, counts), watch |-> 1])
                /\ UNCHANGED <<watches, rows, missed>>
        /\ UNCHANGED <<today, scope, quizVars, prefs, history, kills>>

\* manage.py rebuild_activity, for one day that has events.
RebuildDay(w, d) ==
    /\ At(w, "idle")
    /\ Answered(d) # {} \/ watches[d] > 0
    /\ Go(w, [pc |-> "refresh", day |-> d])
    /\ UNCHANGED <<today, scope, quizVars, prefs, dayVars, history, kills>>

-----------------------------------------------------------------------------
(* POST /quiz/sets/<id>/attempts.  Only complete answers to a set's questions  *)
(* get past score_answers.                                                     *)

\* Compared exactly, not by the rounded percentage.
Passes(correct, total) == correct * 100 >= PassPct * total

LoadSet(w, s) ==
    /\ At(w, "idle")
    /\ Go(w, [pc |-> "insert attempt", set |-> s.id, asked |-> s.asks,
              passed |-> Passes(Cardinality(s.asks \ Hard), Cardinality(s.asks))])
    /\ UNCHANGED <<today, scope, quizVars, prefs, dayVars, history, kills>>

\* The sets that requests found unattempted and are about to release.
Doomed == UNION {CASE At(w, "release") -> req[w].stale
                   [] At(w, "rebuild") -> req[w].current
                   [] OTHER -> {} : w \in Workers}

\* The insert only asks that the set is still there.
InsertAttempt(w) ==
    LET r   == req[w]
        new == [set |-> r.set, at |-> today, asked |-> r.asked, passed |-> r.passed]
    IN  /\ At(w, "insert attempt")
        /\ IF \E s \in sets : s.id = r.set
           THEN /\ attempts' = attempts \union {new}
                /\ recorded' = recorded \union {new}
                /\ settled' = IF r.set \in Doomed THEN settled ELSE settled \union {new}
                /\ Go(w, [pc |-> "refresh", day |-> today])
           ELSE Done(w) /\ UNCHANGED <<attempts, recorded, settled>>
        /\ UNCHANGED <<today, scope, sets, made, prefs, dayVars, rewound, kills>>

-----------------------------------------------------------------------------
(* PUT /settings: load the row, save every column of it, refresh if a goal is  *)
(* in the request.  The fields of the form that no property is about stand     *)
(* behind an update that changes no goal.                                      *)

LoadSettings(w) ==
    /\ At(w, "idle")
    /\ \E goal \in Goals, refreshes \in BOOLEAN :
          /\ refreshes \/ goal = prefs.goal
          /\ Go(w, [pc |-> "save settings", old |-> prefs, goal |-> goal, refreshes |-> refreshes])
    /\ UNCHANGED <<today, scope, quizVars, prefs, dayVars, history, kills>>

\* question_cycle goes back with the rest to what it was when the row was loaded.
SaveSettings(w) ==
    LET r == req[w]
    IN  /\ At(w, "save settings")
        /\ prefs' = [r.old EXCEPT !.goal = r.goal]
        /\ rewound' = rewound \union ((r.old.cycle + 1)..prefs.cycle)
        /\ IF r.refreshes THEN Go(w, [pc |-> "refresh", day |-> today]) ELSE Done(w)
        /\ UNCHANGED <<today, scope, quizVars, dayVars, recorded, settled, kills>>

-----------------------------------------------------------------------------

Midnight ==
    /\ today < Days /\ today' = today + 1
    /\ UNCHANGED <<scope, quizVars, prefs, dayVars, history, req, kills>>

\* A worker is killed (a timeout, a deploy): the transaction it is in is undone.
Kill(w) ==
    /\ ~At(w, "idle") /\ kills < MaxKills /\ kills' = kills + 1
    /\ IF At(w, "refresh") \/ (At(w, "insert row") /\ req[w].watch = 0)
       THEN Miss(req[w].day) ELSE UNCHANGED missed
    /\ Done(w)
    /\ UNCHANGED <<today, scope, quizVars, prefs, watches, rows, history>>

Serve(w) ==
    \/ ReleaseStale(w) \/ ReadCurrent(w) \/ BuildToday(w) \/ Rebuild(w)
    \/ InsertAttempt(w) \/ SaveSettings(w)
    \/ Refresh(w) \/ ReadNoRow(w) \/ InsertRow(w)

Ask(w) ==
    \/ "today" \in Uses /\ LoadStale(w)
    \/ "scope" \in Uses /\ \E new \in Scopes : CheckCurrent(w, new)
    \/ "attempt" \in Uses /\ \E s \in sets : LoadSet(w, s)
    \/ "watch" \in Uses /\ Watch(w)
    \/ "settings" \in Uses /\ LoadSettings(w)
    \/ "rebuild" \in Uses /\ \E d \in 1..Days : RebuildDay(w, d)

Next ==
    \/ UNCHANGED served /\ (Midnight \/ \E w \in Workers : Serve(w) \/ Kill(w))
    \/ served < MaxRequests /\ served' = served + 1 /\ \E w \in Workers : Ask(w)

Spec == Init /\ [][Next]_vars

-----------------------------------------------------------------------------
(* Properties.                                                                 *)

Prefs == [cycle : Nat \ {0}, goal : Goals]
Row   == [there : BOOLEAN, answered : Nat, watched : Nat, goal : Goals \union {0}]
Requests ==
    {Idle}
        \union [pc : {"release"}, day : 1..Days, stale : SUBSET Nat]
        \union [pc : {"rebuild"}, day : 1..Days, scope : Scopes, current : SUBSET Nat]
        \union [pc : {"build", "refresh"}, day : 1..Days]
        \union [pc : {"insert row"}, day : 1..Days, row : Row, watch : {0, 1}]
        \union [pc : {"insert attempt"}, set : Nat, asked : SUBSET Questions, passed : BOOLEAN]
        \union [pc : {"save settings"}, old : Prefs, goal : Goals, refreshes : BOOLEAN]

Typed ==
    /\ today \in 1..Days /\ scope \in Scopes
    /\ sets \subseteq [id : 1..made, on : 1..Days, cycle : Nat \ {0}, asks : SUBSET Questions]
    /\ made \in Nat
    /\ recorded \subseteq [set : 1..made, at : 1..Days, asked : SUBSET Questions, passed : BOOLEAN]
    /\ attempts \subseteq recorded /\ settled \subseteq recorded
    /\ prefs \in Prefs
    /\ watches \in [1..Days -> Nat]
    /\ rows \in [1..Days -> Row]
    /\ req \in [Workers -> Requests]
    /\ missed \subseteq 1..Days /\ rewound \subseteq Nat
    /\ served \in Nat /\ kills \in Nat

Reached == \A s \in sets : s.cycle <= prefs.cycle \/ s.cycle \in rewound

\* Rows, requests and counters have the values the models and handlers allow, and
\* question_cycle has reached the cycle of every set, unless it was taken back.
TypeOK == Typed /\ Reached

\* Within one pass through the pool no two sets ask the same question
\* (build_set; models.py: a question is used once per cycle), through rebuilds,
\* released sets, changes of scope, short sets and new cycles.  The one exception
\* is a cycle that a save of settings has taken back.
CycleOnce ==
    \A s, t \in sets :
        s.id # t.id /\ s.cycle = t.cycle /\ s.cycle \notin rewound => s.asks \cap t.asks = {}

\* A day's row counts exactly the watches of that day, always, as each is counted in
\* the transaction that records it (activity.py); and the questions answered, unless
\* a request that will recount them is under way, or the recount was killed or
\* refused after the attempt was committed, or the attempt went with its set.
ActivityAgrees ==
    \A d \in 1..Days :
        /\ rows[d].watched = watches[d]
        /\ \/ rows[d].answered = Cardinality(Answered(d))
           \/ d \in missed
           \/ \E w \in Workers : req[w].pc \in {"refresh", "insert row"} /\ req[w].day = d

\* activity.streak: days in a row with the goal met, ending today, or yesterday
\* while today isn't met yet.
Run[d \in 0..Days] == IF d = 0 \/ ~Met(d) THEN 0 ELSE 1 + Run[d - 1]
Streak == IF Met(today) THEN Run[today] ELSE Run[today - 1]

\* What went with a set that was released.
Lost == recorded \ attempts

\* Only the end of a day whose goal was missed, or a higher goal for today,
\* shortens the streak: no recount of a past day does, however late, except of a
\* day that has lost an attempt.
StreakHolds ==
    [][Streak' < Streak => \/ today' # today /\ ~Met(today)
                           \/ rows'[today].goal > rows[today].goal
                           \/ \E a \in Lost : Met(a.at) /\ ~Met(a.at)']_vars

\* Only an attempt that was recorded between a look for sets nobody had attempted and
\* their release is lost: any other stays, and so does the set it answers
\* (rebuild_todays_set: "unless it has already been attempted"; todays_set).
AttemptsStay == \A a \in settled : a \in attempts /\ \E s \in sets : s.id = a.set
=============================================================================
