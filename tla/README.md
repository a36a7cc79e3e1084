# A TLA+ model of knowledge-log

knowledge-log turns a learner's PDF notes into quiz questions and short
explainer reels.  A Django server keeps the work queue, the output and the
learner's answers; command-line *step engines* on the learner's Mac claim work
from it and drive a language model through reading, writing and review; a React
app shows the result.  This directory models the parts where order, failure
and concurrency decide whether that is right.

## The system

| Part | State it keeps | Operations | What is hard |
|---|---|---|---|
| Pipeline server (`backend/pipeline/services.py`, `views.py`) | `generation_tasks` (status, run, lease, attempts), `generation_runs` (finished_at, stop_reason, counters), `run_requests`, stored questions and reels | runner: claim, heartbeat, notes, media, complete, fail, finish; app: Run now, Retry, kill switch, status poll | three gunicorn workers over one Postgres in autocommit: rows loaded in one statement are saved in a later one; leases; lost answers; dead runners |
| Planner (`planner.py`) | `chunks`, new tasks | next_plan, uncovered_windows, claim | SKIP LOCKED, an advisory lock and a unique constraint decide who creates what; ranges that change under chunks |
| Notes, scopes, uploads (`backend/content`) | documents, stored files, scopes, their order | upload, remove, move, select, page range | storage is outside the transaction; scopes are read and saved without a lock |
| Quiz (`backend/quiz`) | daily sets, attempts, settings, days of activity | today, rebuild, attempt, watch, settings, backfill | sets built and released under attempts; midnight; rows recounted from events that are being committed |
| Reel feed and views (`backend/content/views.py`, `ui` ReelsPage, SwipeDeck) | views; pages loaded, cursor, screen in view | page, swipe, count | a cursor over an order that its own watches change |
| Social (`backend/social`, `kl/social`) | accounts, videos; a sweep's list | follow, pause, remove, discover, report | a sweep works from a list of accounts that change |
| Step engine (`pipeline/kl/steps.py`, `cli.py`) | `state.json` | start, status, submit, fail, stop | a process killed, or an answer lost, between an API call and the save of the file |
| Quiz engine (`kl/engine.py`) | draft, accepted and flagged questions, rounds | submit draft, submit critique | what a reviewer said over several rounds against what is published |
| Reel engine (`kl/reels/engine.py`) | script, fix and visual rounds | submit script, reviews, render | three nested budgets, minutes-long renders |
| Messages API driver (`kl/drivers/api.py`) | – | start, then the step the file is at | a refusal, an answer that never validates |
| Runner (`kl/runner.py`) | a pid file | poll every five minutes | two polls at once, a pid that is reused |
| Web app (`ui/src`) | a run through a set in sessionStorage, cached answers | start, choose, submit, leave | answers lost or late, midnight while a page is open |

Runners call the server over HTTP (no retries, 30 s timeout, 409 = `LeaseLost`);
the app polls `/api/pipeline/status` every five seconds, which also closes
abandoned runs; engines and their drivers share only `state.json`; quiz and reel
runs work side by side on the same chunks and share the notes of a chunk; the
planner reads the scopes that Manage notes writes; a change of scope rebuilds
the day's quiz, a watch of a reel counts towards the day's goal.

What makes each part correct:

* server: a live claim is never taken from its run; a completion lands once, for
  the run that holds the claim, and its output is stored exactly if the task is
  done; attempts, run caps and daily caps hold; a dead runner blocks nothing;
* planner: no page is in two chunks, none in scope is forgotten, a task is taken
  by one claim;
* notes: what is offered is in storage, a range is a range;
* quiz: a question is asked once per cycle, a recorded attempt stays, and the
  tracker tells what happened; a learner who plays gets a result;
* feed: nothing is skipped or repeated unwatched, a watch counts once;
* social: the feed shows what is followed, and catches up;
* engines: the file and the server's claim agree through crashes; only reviewed
  work lands; budgets end every run.

## Modules

| Module | Models | Role |
|---|---|---|
| `TaskLedger` | the promise of the server to its runners about a task: who holds it, when it may be taken, what ends it, who is credited | abstract specification |
| `Pipeline` | `services.py`, `views.py`, the claiming half of `planner.py` | detailed specification |
| `PipelineLedger` | `Ledger == INSTANCE TaskLedger WITH ...` | refinement mapping |
| `Notes` | `uploads.py`, `notes.py`, scopes and moves of `content/views.py` | documents and scopes |
| `Planner` | `planner.py` over `Notes` | extends `Notes` |
| `StepEngine` | `kl/steps.py` over `TaskLedger` as its server | shared half of the engines |
| `McqEngine`, `ReelEngine` | `kl/engine.py`, `kl/reels/engine.py` | extend `StepEngine` |
| `QuizSets` | `quiz/services.py`, `activity.py`, `views.py` | the server's quiz |
| `QuizSession` | the quiz pages of the app | extends `QuizSets` |
| `ViewCount` | `reel_view`, `video_view` | counting watches, abstract for the feed |
| `ReelFeed` | the reels endpoint, ReelsPage, SwipeDeck | extends `ViewCount` and implements it |
| `Following` | `backend/social`, `kl/social/discover.py` | accounts and sweeps |
| `MCPipeline`, `MCPlanner`, `MCMcqEngine`, `MCReelEngine`, `MCQuizSets` | constants of the small instances | model checking |
| `PipelineClaimProofs`, `PipelineLedgerProofs`, `PlannerProofs`, `QuizProofs`, `FeedProofs`, `FollowingProofs`, `EngineProofs`, `ReelProofs` | – | theorems |

`TaskLedger` is the joint between server and engines: `Pipeline` is proved to
implement it, and the engines are checked against it and not against the rows.
`Pipeline` and `Planner` split the planner: `Pipeline` has what a claim does to
runs, leases and rows when the chunks are given, `Planner` which chunks there
are and which one is next while the notes change; each takes the other's half as
simply as its own properties allow.

A request is served by a worker, and `req`, `job`, `post` or `claim` holds what
the handler carries in memory, with the statement or transaction that comes
next in `pc`.  A handler that does everything in one transaction over a locked
row is one step after the load; any other is split where another worker can get
in between.  Operators named `X_Something` are not part of a specification: they
are `X` with a mistake, kept beside it to show that a property would notice.

### Pipeline

* `LoadClaim`, `Admit`, then `ClaimWaiting`, or `PlanNew` and `CreateAndClaim`
  with the chunk and task inserted later under an advisory lock, or
  `ReplanOnConflict` when the other kind inserted the chunk first;
* `LoadFinish`/`LoadSweep`, then for every run loaded `HandBack` and
  `SaveClosedRun`: the save writes the counters as they were loaded;
* `CountRuns` and `CreateRun`; `LoadRequest` and `CreateRequest`;
  `LoadRetry` and `SaveRetry`; `CheckMedia` and `StoreMedia`;
* `Heartbeat`, `SaveNotes`, `Complete` and `Fail` in one step after the load.

`Calls` says when a runner can call: its run's row has no `finished_at`, it has
not died, and, when `Sequential`, no earlier call of it is still in the server.
Time is two facts: a lease is live or expired, a run is or is not silent for
longer than a lease.  `landed` and `handed` are history variables; `dead` is the
environment's record of the runner processes that are gone.

### Notes and Planner

`docs`, `files` and `scopes` are the rows and the bucket.  `Stage`, `Store`,
`Record` are an upload (the file is stored before the row is written);
`MarkRemoved`, `DeleteFile` a removal (the file goes after the commit);
`LoadScope`, `SaveScope` a change of scope, which writes back every column it
loaded; `LoadOrder`, `Renumber` a move.  `Kill` cuts a request off anywhere.
`crossed` is history: the PDFs that were removed while an upload of them was under
way, or uploaded while their file was being deleted, until an upload that finds
nothing else under way starts afresh.

A claim runs through `LoadDocs`, `PickWaiting` (step 1, which locks the rows it
looks at and skips those others have locked), `PickChunk`, `PickWindow` and
`GiveReason`; for new work it goes to `Serialize` (the advisory lock) and looks
again before `Create`, where the unique constraint may undo it.  `Windows` is
`uncovered_windows` as a function of the page reached.  Whoever holds a task may
read its pages, complete it, fail, or let the lease lapse.

### QuizSets and QuizSession

`LoadStale`, `ReleaseStale`, `ReadCurrent`, `BuildToday` are GET today;
`CheckCurrent` and `Rebuild` the rebuild that a change of scope carries along
(`update_scope` in `content/views.py`; the range itself is in `Notes`);
`LoadSet`, `InsertAttempt` an attempt, `Watch` a counted reel, `LoadSettings` and
`SaveSettings` the settings form.  All but the first two end in `Refresh` of the
day's row, or in `ReadNoRow` and `InsertRow` when there is none to lock.
Nothing but the database keeps two requests apart, in the code as here, so an
attempt may come between a look for unattempted sets and their release, and a save
of settings may write back the `question_cycle` it loaded over a later one.  Four
history variables name what goes wrong then, so that the properties can say that
nothing else does: `recorded`, every attempt there ever was; `settled`, those that
were recorded while nobody was about to release their set (`Doomed`); `missed`, the
days whose row may be wrong for good, because the recount after an attempt was killed
or refused or the attempt went with its set (a later recount takes the day out
again); and `rewound`, the cycles a save of settings took back.

In `QuizSession` a page is mounted with what it last fetched.  `fetch`, `sending` and
`left` name the workers that serve the fetch of today's set, the attempt the play
page waits for, and attempts whose page is gone; every step of such a worker is
joined with what the app makes of the answer.  `failed` is `today.isError`: once a
fetch and its retry have failed, today's page and the play page show the error
instead of the quiz (`Playing`), also when an earlier answer is still in the cache.
The play page is unmounted by that (`Unmount`), and the attempt it was waiting for
goes on among those in `left`: when it is answered today's set is fetched again,
but nobody opens the result.  `Retry` is the button under the error.  Left out is
what the browser does on its own: a fetch when it comes back online, and pausing
while it is offline.

### ViewCount, ReelFeed

A watch is sent, waits for the lock on its reel's row, is decided (`Look`) and
written (`Create`), or dropped at any of these.  `ReelFeed` adds the page that is
being loaded, the cursor (`after`, a position in the order and not a reel), the
deck and the screen in view.  `Rest` and `IsPage` are the query of the endpoint.
`Watch` stands for a play-through: which share of a video has to be seen is
left out.

### Following

`ListAccounts` takes the rows of the active accounts; each is then scraped and
reported by the row it had.  `row` numbers are never reused, as the database's
are not: an account that is followed again is another row.  Reporting a row that
is gone ends the sweep (`discover.py` catches errors of the scrape only).

### StepEngine, McqEngine, ReelEngine

`disk` is `state.json`, `st` the copy a command works on, `pc` the next API call
or piece of local work.  `Crash` stops a command before any of them: a kill, an
error nothing catches, or a call that was not answered.  The server takes calls
as `TaskLedger` actions (`Server!Give`, `Renew`, `Land`, `GiveUp`,
`HandBackAll`), refuses those of a run that no longer holds the task, and keeps
one run of the kind open.  Around the engine leases lapse, silent runs are
swept, another machine takes over, and the other kind reads the pages.
`McqEngine` keeps questions as model values and the last verdict the review log
holds for each; `ReelEngine` keeps the counters of its budgets.  A driver may
run any command its step accepts, with any content: the loop of the Messages API
driver is one of those behaviours.

## Runs

| Run | Shows |
|---|---|
| `lifecycle` | Two quiz runs, one after the other, over one chunk with two workers, retries, failures, requests, lease expiry and the poll that closes abandoned runs: `TypeOK`, `DoneIffOutput`, `AttemptsLeft`, `LeaseIffClaimed`, `RunCapHolds`, and the refinement `ImplementsLedger`. |
| `overlap` | Calls of one reel run that overlap each other, and a runner that dies at any point: `OpenRunCountsItsWork`, `ReelHasVideo`, and the liveness of `DeadRunIsClosed` and `GoneRunLosesItsClaims`. |
| `starts` | Two quiz runs and a reel run over two chunks, started, closed and swept under a daily cap of one, with the kill switch: `DailyCapHolds`. The two kinds meet on a chunk here. |
| `planner` | A quiz and a reel claim over one PDF whose scope is edited, removed and uploaded again: `ChunksDisjoint`, `WindowsTile`, and `ScopeGetsHandled` (liveness). |
| `queue` | Two claims of one kind and two requests of Manage notes over two PDFs: `TypeOK`, `TakesWaiting`, `AvailableIsStored`, `RangesStayValid`. A removal may overlap an upload; `crossed` names the PDFs it happened to. |
| `range_done` | Violates `RangeDoneMeansHandled`: see Findings. |
| `quiz` | Sets, attempts, watches, settings and the backfill by two workers over three days, with a kill and every overlap the code allows: `TypeOK`, `CycleOnce`, `ActivityAgrees`, `StreakHolds`, `AttemptsStay`. |
| `session` | The app's quiz pages over that server, with failing fetches: `ResultIsCredited`, `LearnerFinishes` (liveness). |
| `feed` | The reels page over an order its own watches change: `TypeOK`, `WatchesApart`, `NothingSkipped`, `RepeatsOnlyWatched`, `EveryReelComesUp` (liveness). |
| `following` | Two sweeps over accounts that are followed, paused and removed meanwhile, one profile broken: `TypeOK`, `OnlyFollowedHaveVideos`, `FeedCatchesUp` (liveness). |
| `mcq` | A quiz run over two tasks with a fault anywhere and another machine: `TypeOK`, `FileNamesTheClaim`, `OneClaimPerRun`, `StoresWhatReviewAllows`. |
| `reel` | A reel run with two faults anywhere: `TypeOK`, `RendersAreBudgeted`, `RunEnds` (liveness). |

Bounds and why they are enough:

* two workers (or claims, or sweeps) give every pair of requests every
  interleaving; no handler waits for a third.  In `planner` one worker serves
  Manage notes: two edits at once are the business of `queue`.
* two runs of a kind are needed for a claim to change hands, one of each kind for
  two kinds to meet on a chunk.  One chunk is enough for a race about it; the
  order among chunks is `First`, the same for any number.  `overlap` has one run:
  what matters there is the overlap of its own calls.
* `MaxAttempts` 2 has both a failure that leaves a try and a final one;
  `MaxTasksPerRun`, `MaxRunsPerDay` and the output caps are 1 or 2, so that each
  cap is reached and refused.  `Stems` has one question: what matters to a task
  is whether its output is empty, partly stored or stored.  In `starts` it is
  empty: a completion then ends the task as skipped, which the daily cap counts
  as it counts a done one.
* `Uses` names the operations an instance exercises; together the passing runs
  take every action.
* `Exclusive` keeps some operations of the pipeline from overlapping *themselves*, and
  `Racing` says whether a page range may change while two kinds plan.  It is empty
  in the runs: the overlaps these leave out are known to go wrong (Findings), and
  the properties say what holds beside them.  Notes and the quiz have no such
  restriction.
* `planner` and `queue`: PDFs of two pages, windows of up to two, so that a range
  can cut a chunk in half; two edits, so that a range is changed and changed
  back, or a PDF removed and uploaded again; one mishap.  `WindowsTile` also asks
  for ranges past the end, up to five pages, of whatever is covered.
* `quiz`: three questions with sets of two, scopes of none, two or all of them, two
  goals, three days, five requests and one kill; one question is answered wrongly.
  So a cycle is used up in part, a set of one question follows a set of two in the
  same cycle, the scope changes in part between them, and a new cycle begins while an
  older one holds two sets: each of these states was looked for and is reached.
  `session` has two questions in sets of one, two days, one request of another
  client (a change of scope) or detour of the learner, and two kills, so that a fetch
  can fail with its retry while an attempt is under way.
* `feed`: three reels in pages of two, so that there is a second page and a reel
  can cross the cursor either way; two watches, a clock as long as the debounce,
  one page that fails or reel that comes or goes.
* `following`: three accounts, one broken, two videos that two accounts may share,
  a limit of one so that a newer post hides an older one.
* engines: budgets are one or two instead of three, two tasks where tasks can be
  mixed up, one where only the steps of a task matter; one or two faults: a
  fault after a fault is met at every pair of places in `reel`.

Deadlock is checked in the engine runs only.  In the others an instance whose
bounded numbers of runs, requests, edits or watches have been used up, with no
request in flight, really stops.

### Fairness

* `overlap`: a worker finishes the request it serves (gunicorn kills one
  that does not, after which its transaction is rolled back), a lease that is
  not renewed again and again runs out, a run that is not heard from again
  and again falls silent, and the status poll gets a worker again and again
  (the app polls every five seconds and gunicorn queues requests).  Nothing is
  assumed of runners.
* `planner`: requests of Manage notes are served, each kind's claims go on and
  start again (a runner polls every five minutes), and whoever holds a task with
  a live lease gets on with it.  Nothing is assumed of a holder whose lease has run
  out: the task has to be claimed again.  Mishaps are bounded.
* `session`: workers finish; a page that has to fetch does; and a learner who plays
  goes on answering, submits, starts the quiz that is offered, leaves after a
  refusal and retries after an error (`Persist`).  All of it is weakly fair.
* `feed`: requests are served (or fail, `MaxMishaps` times), and a learner who
  comes to a screen again and again at last swipes on from it, and swipes back at
  the end of a feed that says there is more.  Without the last, nothing would load
  the next page after a failed fetch: the page only asks for it when the screen in
  view changes.
* `following`: one sweep is launchd's; it starts again and again and goes on unless
  it is killed.  The one started by hand may stop anywhere.
* `reel`: a command that runs goes on (API calls time out), and the driver keeps
  following the `NEXT:` line (`SF(FollowNext)`: it may run `status` or `start` any
  number of times in between).  What it hands in, what reviewers say and how
  renders come out is up to the adversary.

## Proofs

All theorems hold for every value of the constants, from the `ASSUME` of their
module alone; those of the pipeline and the planner that need a request not to
overlap another say so as a hypothesis about `Exclusive`, `Racing` or `Sequential`.
Those about notes and the quiz have no hypothesis: what an overlap spoils is an
exception in the property, named by a history variable, and TLC finds each of these
properties violated once its exception is taken out.

Server:

* `TypeCorrectness`: `Spec => []TypeOK`.  The invariant is `Shape`: `TypeOK`
  with what each program counter says about the request's fields (a task at the
  calls about one, a kind at a claim).  Without it a step could write a row for
  `NoTask`.
* `ClaimsAndLeases`, `AttemptsAreLimited`: `Spec => []LeaseIffClaimed` and
  `Spec => []AttemptsLeft`.  The inductive invariant `ClaimInv` adds that a task
  that does not exist yet has no output, lease or attempts (`Fresh`), that a
  task exists only for a chunk that does (`ChunkFirst`), and, of the requests in
  flight, that a claim being planned is by a started run of its kind and that
  the task it is about to insert is still absent and planned by nobody else
  (`ReqFits`, `Alone`): the advisory lock, in other words.
* `OpenRunsCount`: `tasks_done` of an open run equals the completions accepted.
  The invariant says that a row held by a request in flight that will be saved
  belongs to a run that is active only until that save.
* `ReelsHaveVideos`: a recorded reel's video is in storage, in which videos are
  never removed.
* `OutputsAreKept` and `Refinement` assume `"retry" \in Exclusive`: two Retry
  requests at once do break them.  Every step of `Pipeline` is a
  step of `TaskLedger` or a stutter under the mapping; the invariant gives the
  ledger's guards (attempts are left at a claim, a Retry in flight finds its task
  failed or skipped).
* `RunCapIsKept` assumes `Sequential`.  The check of the cap reads the run when the
  claim begins and the lease is granted steps later; in between nothing else counts
  on the run, since its one call in the server is this claim (`OneCall`).  So a claim
  that has yet to check carries the run's true count, and one that has checked
  still finds room when it takes its lease (`Admitted`).
* `DailyCapIsKept` assumes `"start" \in Exclusive` and `Sequential`.  The invariant
  `Daily` compares two sets of runs: those `CountRuns` counts, and those that have
  completed a task or still may (`Capped`: the second never outgrows the cap).  Such a
  run counts unless it closes idle, so the argument is about closings: one writes
  the counters it loaded, which with a runner that waits are the landed ones
  (`Closing`), and once a run is closed as idle it has no complete call left to land
  (`Credited`).  At most one start is past its count (`OneStart`), and what it
  counted stays below the cap until it inserts its run.

Notes and planner:

* `RangesAreKept`: a range is valid after any interleaving, although what is saved
  was loaded earlier.  A patch of one end writes the other end back as it was
  when both were checked together, so a saved row is one that some request
  checked: the invariant `Rows` says that of the requests in flight.
* `AvailableMeansStored` is about every interleaving of uploads and removals.  The
  invariant orders the steps: an upload that has yet to write its row has stored the
  file (`StoredFirst`), a removal that has yet to delete has hidden the PDF
  (`RemovedFirst`), each unless the PDF is in `crossed`, as it is whenever one of
  each is at it (`Apart`).
* `AnyRangeIsTiled`, `WindowsAreTiled`: what the scan of `uncovered_windows` returns
  tiles the free pages, the first for every range, the second as `WindowsTile` has it,
  for ranges within five pages.  The scan is a recursive function.  That one exists
  is shown by induction over the pages, as a set of numbers without a least one left
  out (`NatLessThanWellFounded`), and then `ScanOK` is its loop invariant: what has
  been closed tiles the free pages passed, and the open window ends at the last.
* `NoPageTwice` assumes `"range" \notin Racing`, as two claims that cut windows from two
  ranges can overlap (see Findings).  By `Cut` the ranges a claim has loaded are
  the saved ones, and the window it planned is still a window of what is
  uncovered now or is a chunk somebody has made since (`Uncut`): two tilings of the
  same pages are equal (`OneTiling`), and a tiling without one of its windows
  tiles the rest (`TilesWithout`).  So an insertion either meets the unique
  constraint or is of pages no chunk covers.
* `PlannerTypes`: `TypeOK`, from `Rows`, `Claims` and the shape of the requests in
  flight (`Typed`).
* `WaitingIsTaken`: a task taken was still waiting.  It is locked by the claim that
  chose it (`Chosen`) and by no other (`Locks`).

Quiz:

* `QuizTypes`, `OncePerCycle`: sets are disjoint within a cycle because a new set is
  built, under the lock on the settings row, from what the current cycle has not
  used, and a cycle that is begun is ahead of every set's (`Reached`).  A save of
  settings breaks `Reached` for the cycles it takes back, which are in `rewound` from
  then on; the invariant `CycleInv` is about all others.  `Reached` is a part of
  `TypeOK`, so types are proved first (`TypesInvariant`), then cycles, then both.
* `AttemptsAreKept`: an attempt that was settled when it was recorded is in no list of
  sets to release (`Untouched`), and a list made later finds its set attempted.
* `ActivityIsTracked`: for every day the row tells the answers, or a request that will
  recount it is under way, or the day is in `missed`; a row about to be inserted fits
  the day's events, or will be refused, or another request recounts the day
  (`Tracked`).  Watches need none of this (`Exact`): their view and their row are
  one transaction.
* `StreakIsKept`, of every step.  A recount saves what it counted earlier, but no row and
  no recount on its way counts more answers than were ever recorded (`Within`), so a
  recount of a day that has lost no attempt counts no less (`NothingLost`), and a
  past day keeps its goals: a past day that met its goal still does, or has lost an
  attempt (`MetStays`).  The streak is a recursion over the days, and grows with
  the days met (`RunsGrow`).
* `ResultsAreCredited`, of the pages and the server together.  While the play page waits
  for an answer, its worker is serving an attempt at the set it shows, or has
  recorded it and is on its way to the day's row, unless the attempt has gone with
  the set (`PageInv`, over `NoReturn`: a set that is gone does not come back); a page
  that shows an error, fetches or starts a set has no result to show.

Feed:

* `WatchesStayApart`: requests for one reel are served one at a time, so a decision
  to count still stands when it is written (`DecisionStands`).
* `FeedKeepsViewCount`: `ReelFeed` implements `ViewCount`; whatever the page does is
  a stutter or a step of it.  `FeedTypeCorrect` is the invariant behind it.
* `NothingIsSkipped`, `RepeatsAreWatched`: for each reel in scope since the visit
  began, `FeedInv` counts its places on the feed against its watches, with one more
  to come while it lies behind the cursor.  A watch moves a reel backwards in the
  order only, by one count, which is what makes the cursor safe.

Following: `FollowingTypes`, `NoOrphanVideos`: an account's row number is never
given out twice, so a report made for a row that is gone finds none.

Engines: `RunHoldsOneClaim`, `FileKnowsItsClaim` for the quiz engine.  `EngineInv`
relates the file, the copy in memory and the server at every step of a command:
the server's owners and phases agree (`Ledger`), only open runs own (`Open`), a
run owns at most one task (`OneEach`), the file names it or none (`FileOK`), and
a command about to claim holds nothing, one at work on a task owns no other
(`StepOK`).  Without the last two a crash between claim and save could be followed
by a second claim.

* `McqTypes`, `StoresReviewed` (quiz engine): by `QuizInv` what is accepted in the file
  and in memory is what a reviewer approved last, and with the draft no more than a
  chunk's worth (`Reviewed`); questions picked to be sent are the accepted ones and
  besides only ones found to need polish, and only a command about to complete
  has picked any (`Keeps`, `CopyFits`); invalid submissions stay within their budget,
  which only a fault exceeds (`Spent`).  `StoredInv` says that a task has questions only
  once it is done, so `complete` is the one step that stores any.
* `ReelTypes`, `RendersStayInBudget` (reel engine): the renders attempted are at most those the
  rounds in the file account for, `visual * (FixRounds + 1) + fix`, plus one while the
  step is `render` or `visual` or the task is given up, plus one for each fault, because
  a command cut short after it has counted its attempt makes it again.
  `_fixable` and the visual review go on only while their budget lasts, which bounds
  the sum; `TypeOK` follows from the same invariant, `ReelInv`.

Only model-checked: liveness (`DeadRunIsClosed`, `GoneRunLosesItsClaims`,
`ScopeGetsHandled`, `RunEnds`, `LearnerFinishes`, `EveryReelComesUp`, `FeedCatchesUp`),
which is beyond the prover, as `ENABLED` is.  Every invariant and action property that a
passing run checks is proved.

## Findings

`range_done`: a chunk is offered while it lies in the scope as a whole, and covers
its pages for good.  When a page range is narrowed across a chunk that was never
finished, the chunk's pages inside the range are neither offered nor cut anew,
and the claim is answered `range_done`, "every page in every selected range has
been handled" (`planner.py:38`).  `ScopeGetsHandled` names these pages
(`Straddling`) and shows that no others are forgotten.

Met while modelling, and left out of what the properties promise:

* server: `_close` hands claims back before it saves the run, and a claim already
  past `_live_run` gets a task in between, so a finished run can hold one
  (`GoneRunLosesItsClaims` shows the lease ends it); `_close` also saves the
  counters as loaded, so a completion in between is not in the finished run's
  numbers (`OpenRunCountsItsWork` is about open runs).  A sweep overwrites the stop
  reason of a run that has just finished idle, which then counts against the daily
  cap.  A second click on Retry saves the row it loaded over a task claimed since
  (`services.py:274`).  Two Run now clicks make two open requests
  (`services.py:319`).  `last_processed_page` is not recomputed when a skipped task
  is retried (`services.py:322`).  `save_media` does not renew the lease and stores
  after its check.  A chunk that kills its runner goes round without end, since
  abandonment is not an attempt.
* planner: a waiting task is handed out without the check that no other kind is
  reading its pages (`planner.py:109`).  Two kinds that plan while a page range changes
  can cut overlapping chunks, which the constraint on one exact range lets through:
  `"range" \in Racing`.
* notes: the file of a removed PDF is deleted after the commit, and an upload of the
  same PDF meanwhile loses it (`uploads.py:158`): the row then says available, which
  is "True while the PDF is stored" (`content/models.py:20-21`), and every claim on it
  fails at the download.  `AvailableIsStored` excepts the PDFs in `crossed`.
* tracker: `activity.py:3-5` and `docs/PLAN.md:208-209` say that a day's row is refreshed
  in the same transaction as each event.  For a watch it is (`content/views.py`); for a
  quiz attempt it is not: `record_attempt` (`quiz/services.py:127-136`) commits the
  attempt, then refreshes, and requests run in autocommit.  A kill in between, or a
  refused insert of the day's first row (two requests find none to lock, one answers
  500), leaves the row behind the attempts, and an attempt that is deleted with its set
  leaves it ahead of them.  Nothing recounts a past day then but
  `manage.py rebuild_activity`, so a goal that was met may never show.
  `ActivityAgrees` excepts these days by name (`missed`); without that exception TLC
  finds it violated by a single attempt and a kill, so the docs' claim does not hold.
* attempts: sets listed as stale are released one by one without another look, with
  the attempt one of them may have by then (`quiz/services.py:57-58`); and
  `rebuild_todays_set` releases a set attempted since it looked (`75-78`), although it
  rebuilds "unless it has already been attempted" (`72`), since it locks neither the set
  nor the settings before it looks.  The answer to the learner is still 201, so the
  result is shown of an attempt that is gone (`ResultIsCredited` names this), and
  a past day that is recounted later may lose its goal, and the streak with it
  (`StreakHolds`).  `AttemptsStay` is about every other attempt (`settled`); asked of
  all that were recorded, TLC finds it violated.
* cycles: PUT settings saves every column it loaded, `question_cycle` among them
  (`quiz/views.py:38-42`), and takes back a cycle begun meanwhile.  The next sets are
  built from the older cycle and then from the taken-back one again, which has sets
  already: a question can be used twice in a cycle, against "a question is used once
  per cycle" (`quiz/models.py:9-10`).  `CycleOnce` excepts the cycles in `rewound`;
  without that exception TLC finds it violated.
* play page: it shows the error in place of the quiz whenever the last fetch of
  today's set failed (`PlayPage.tsx:18-24`), which unmounts the quiz.  If its submit is
  under way, its result is never opened (`59-62`) and its run is not cleared; the
  learner who retries finds the last question answered and submits a second time.  So
  does one who leaves while a submit is under way, and comes back.  `LearnerFinishes`
  shows that both get a result in the end.
* feed: a reel watched after the last page was cut does not come round again on
  that visit, although `reels` says so of every watched reel
  (`content/views.py:213-215`).  In the app, a count is lost from the
  cache while a page is being fetched (`hooks.ts:143`), seeking back counts watched
  time again (`WatchCounter.tsx:39`), and of two watches that wait for an answer at
  once only the later one's is taken off the shown count (`WatchCounter.tsx:71`).
* social: an account removed under a sweep ends the sweep at its report
  (`discover.py:22`); the next one does the rest.
* engines: a heartbeat that fails before a render, or a kill during it, leaves
  `state.json` at a step no command accepts, although `NEXT:` says `render`; the
  same holds for `tts`, and `status` even keeps the lease alive.  A command killed
  between the claim and the save leaves a run whose `NEXT:` is `status` for ever,
  and a task saved without its pages makes later steps die of a `KeyError`
  (`LostItsTask`).  `start` archives a run it could have resumed when the server is
  unreachable.  The poster upload swallows `LeaseLost` with every other error
  (`reels/engine.py:282`).

## Plan

Done: `TaskLedger`, `Pipeline` with its refinement and its safety theorems;
`StepEngine`, `McqEngine`, `ReelEngine`, with the claims and the verdicts of the quiz engine and the budgets of the
reel engine proved;
`Notes` and `Planner`; `QuizSets` and `QuizSession`; `ViewCount`, `ReelFeed`,
`Following`; their theorems.

Left:

1. The claims of the reel engine, proved through the lemmas of `EngineProofs`.
2. `ReelMedia`: versions of a video, so that a late upload of a lost claim shows.
3. `Runner`: the pid file, two polls, reused pids.
4. The counts the app keeps in its cache, and practice runs.

## Not modelled

Speech, manim and ffmpeg, PDF rendering, prompts, report files, storage
backends, authentication, deployment, the manim prototype and the layout of the
web app: I/O and presentation.  The runner's poll is a process that starts a
runner, which `Pipeline` lets happen at any time; its pid file is left out.
Posters are left out of `ReelEngine` (their failure is swallowed).  The text of
questions is a model value: shuffling the options and formatting change nothing
the properties see.  The order of the Following feed and the play-through that
decides a watch are data of the page.  A PDF leaving the scope while a *run* is at
work on it is in `Planner` (the task goes on), not in `Pipeline`, whose chunks
are always in scope.
