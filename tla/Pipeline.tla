------------------------------ MODULE Pipeline ------------------------------
(* The run lifecycle behind /api/pipeline/* (backend/pipeline/services.py), as *)
(* the gunicorn workers interleave it over one Postgres database.              *)
(*                                                                             *)
(* The handlers run under autocommit (no ATOMIC_REQUESTS), so a request first  *)
(* loads rows, then acts on those in-memory rows in one or more transactions.  *)
(* A step of this module is one such load or transaction; req[w] is what       *)
(* worker w carries from one to the next.  A request that can only be refused  *)
(* (its run has already finished when it is loaded) changes nothing and is not *)
(* represented.                                                                *)
(*                                                                             *)
(* Time is abstracted to two facts: a claim's lease is live or expired, and a  *)
(* run has or has not been silent for longer than a lease.  Every page window  *)
(* is inside the learner's scope here; scopes and windows are in Planner.      *)
EXTENDS Integers, FiniteSets

CONSTANTS
    NumRuns,            \* bound: generation_runs rows, numbered by primary key
    KindOf,             \* KindOf[r]: the kind run r is started with
    NumChunks,          \* bound: page windows, in planner order
    Stems,              \* question stems a runner may submit for a chunk
    Workers,            \* gunicorn workers
    MaxAttempts,        \* KL_MAX_TASK_ATTEMPTS
    MaxTasksPerRun,     \* Settings.max_tasks_per_run
    MaxRunsPerDay,      \* Settings.max_runs_per_day
    OutputCap,          \* Settings.questions_per_run / reels_per_run, 0 = no cap
    MaxOpenRequests,    \* bound: open run_requests rows per kind
    Sequential,         \* TRUE: a runner waits for each answer before it calls again
    Exclusive,          \* operations of which at most one is in flight at a time
    Uses                \* bound: the operations and events an instance exercises

Kinds  == {"quiz", "reel"}
Runs   == 1..NumRuns
NoRun  == 0
Chunks == 1..NumChunks
Tasks  == Chunks \X Kinds          \* generation_tasks is unique on (chunk, kind)
NoTask == <<0, "none">>
Items(k) == IF k = "quiz" THEN Stems ELSE {"reel"}

ASSUME PipelineAssumption ==
    /\ NumRuns \in Nat /\ NumChunks \in Nat
    /\ KindOf \in [Runs -> Kinds]
    /\ MaxAttempts \in Nat \ {0}
    /\ MaxTasksPerRun \in Nat /\ MaxRunsPerDay \in Nat /\ MaxOpenRequests \in Nat
    /\ OutputCap \in [Kinds -> Nat]
    /\ Sequential \in BOOLEAN
    /\ "reel" \notin Stems /\ IsFiniteSet(Stems)

VARIABLES
    enabled,        \* Settings.pipeline_enabled
    status,         \* generation_tasks.status, "absent" before the row exists
    holder,         \* generation_tasks.run_id
    lease,          \* generation_tasks.lease_expires_at: none, live or expired
    attempts,       \* generation_tasks.attempts
    output,         \* the questions (by stem) or the reel stored for the task
    chunk,          \* chunks.status, "absent" before the row exists
    video,          \* reel tasks whose MP4 is in storage
    progress,       \* documents.last_processed_page, counted in windows
    state,          \* generation_runs: absent, active (finished_at null), finished
    reason,         \* generation_runs.stop_reason
    silent,         \* last_seen_at is older than a lease
    tasksDone,      \* generation_runs.tasks_done
    made,           \* generation_runs.questions_made / reels_made
    openRequests,   \* open run_requests per kind
    req,            \* what each worker is executing
    handed,         \* the tasks each run's runner was ever given
    dead,           \* runs whose runner process is gone for good
    landed          \* history: completions the server accepted from each run

taskVars  == <<status, holder, lease, attempts, output>>
chunkVars == <<chunk, video, progress>>
runVars   == <<state, reason, silent, tasksDone, made, landed>>
envVars   == <<enabled, openRequests, handed, dead>>
vars      == <<taskVars, chunkVars, runVars, envVars, req>>

RunnerOps == {"claim", "heartbeat", "notes", "media", "complete", "fail", "finish"}
TaskOps   == {"heartbeat", "notes", "media", "fail"}
AppOps    == {"retry", "start", "sweep", "wanted", "request"}
Finished  == {"done", "skipped"}
NoRow     == [run |-> NoRun, done |-> 0, made |-> 0]
RowOf(r)  == [run |-> r, done |-> tasksDone[r], made |-> made[r]]
Idle      == [op |-> "idle", pc |-> "idle", kind |-> "none", run |-> NoRun,
              task |-> NoTask, row |-> NoRow, todo |-> {}, why |-> "none"]

ClaimedBy(r) == {t \in Tasks : status[t] = "claimed" /\ holder[t] = r}
Active(k)    == {r \in Runs : state[r] = "active" /\ KindOf[r] = k}

\* Mutant: a run with claims is taken to be at work.
Abandoned_WithoutClaims == {r \in Runs : state[r] = "active" /\ silent[r] /\ ClaimedBy(r) = {}}

Abandoned    == {r \in Runs : state[r] = "active" /\ silent[r]}

\* Worker w can take a request for operation op: it is free, and an exclusive
\* operation is not already being served.
Takes(w, op) ==
    /\ op \in Uses /\ req[w] = Idle
    /\ op \in Exclusive => \A v \in Workers : req[v].op # op

\* The runner of r may call: its process lives and, when it is sequential,
\* none of its earlier calls is still being served.
Calls_AnyState(r) ==                \* Mutant: the run's finished_at is not checked.
    /\ state[r] # "absent" /\ r \notin dead
    /\ Sequential => \A v \in Workers : req[v].run # r

Calls(r) ==
    /\ state[r] = "active" /\ r \notin dead
    /\ Sequential => \A v \in Workers : req[v].run # r

At(w, op, pc) == req[w].op = op /\ req[w].pc = pc
Goto(w, pc)   == req' = [req EXCEPT ![w].pc = pc]
Answer(w)     == req' = [req EXCEPT ![w] = Idle]
Open(w, q)    == req' = [req EXCEPT ![w] = q]

Init ==
    /\ enabled = TRUE
    /\ status = [t \in Tasks |-> "absent"]
    /\ holder = [t \in Tasks |-> NoRun]
    /\ lease = [t \in Tasks |-> "none"]
    /\ attempts = [t \in Tasks |-> 0]
    /\ output = [t \in Tasks |-> {}]
    /\ chunk = [c \in Chunks |-> "absent"]
    /\ video = {}
    /\ progress = 0
    /\ state = [r \in Runs |-> "absent"]
    /\ reason = [r \in Runs |-> "none"]
    /\ silent = [r \in Runs |-> FALSE]
    /\ tasksDone = [r \in Runs |-> 0]
    /\ made = [r \in Runs |-> 0]
    /\ openRequests = [k \in Kinds |-> 0]
    /\ req = [w \in Workers |-> Idle]
    /\ handed = [r \in Runs |-> {}]
    /\ dead = {}
    /\ landed = [r \in Runs |-> 0]

-----------------------------------------------------------------------------
(* Loading a runner's call: _own_run reads the run's row, _live_run checks the *)
(* in-memory finished_at and touches last_seen_at.                             *)

Touch(r) == silent' = [silent EXCEPT ![r] = FALSE]

LoadTaskCall(w, op, r, t) ==
    /\ op \in TaskOps /\ Takes(w, op) /\ Calls(r) /\ t \in handed[r]
    /\ op = "media" => t[2] = "reel"
    /\ Open(w, [Idle EXCEPT !.op = op, !.pc = "locked", !.run = r, !.task = t])
    /\ Touch(r)
    /\ UNCHANGED <<taskVars, chunkVars, envVars, state, reason, tasksDone, made, landed>>

\* complete() defers _live_run into its transaction, so loading only reads.
LoadComplete(w, r, t) ==
    /\ Takes(w, "complete") /\ Calls(r) /\ t \in handed[r]
    /\ Open(w, [Idle EXCEPT !.op = "complete", !.pc = "locked", !.run = r, !.task = t])
    /\ UNCHANGED <<taskVars, chunkVars, runVars, envVars>>

LoadClaim(w, r) ==
    /\ Takes(w, "claim") /\ Calls(r)
    /\ Open(w, [Idle EXCEPT !.op = "claim", !.pc = "admit", !.kind = KindOf[r],
                            !.run = r, !.row = RowOf(r)])
    /\ Touch(r)
    /\ UNCHANGED <<taskVars, chunkVars, envVars, state, reason, tasksDone, made, landed>>

-----------------------------------------------------------------------------
(* Calls about a claimed task.  _held locks the task's row and requires that   *)
(* this run still holds the claim; it does not look at the lease.              *)

\* Mutants: the run, or the status, is not compared.
Held_AnyRun(t, r)    == status[t] = "claimed"
Held_AnyStatus(t, r) == holder[t] = r

Held(t, r) == status[t] = "claimed" /\ holder[t] = r

\* LeaseLost (409), or a completion that already landed: nothing is written.
RefuseCall(w) ==
    /\ req[w].op \in TaskOps \union {"complete"} /\ req[w].pc = "locked"
    /\ ~Held(req[w].task, req[w].run)
    /\ Answer(w)
    /\ UNCHANGED <<taskVars, chunkVars, runVars, envVars>>

Heartbeat(w) ==
    /\ At(w, "heartbeat", "locked") /\ Held(req[w].task, req[w].run)
    /\ lease' = [lease EXCEPT ![req[w].task] = "live"]
    /\ Answer(w)
    /\ UNCHANGED <<status, holder, attempts, output, chunkVars, runVars, envVars>>

SaveNotes(w, testable) ==
    /\ At(w, "notes", "locked") /\ Held(req[w].task, req[w].run)
    /\ chunk' = [chunk EXCEPT ![req[w].task[1]] = IF testable THEN "read" ELSE "unreadable"]
    /\ lease' = [lease EXCEPT ![req[w].task] = "live"]
    /\ Answer(w)
    /\ UNCHANGED <<status, holder, attempts, output, video, progress, runVars, envVars>>

\* save_media checks the claim in one transaction, then streams the file with
\* the row unlocked; the lease is not renewed.
CheckMedia(w) ==
    /\ At(w, "media", "locked") /\ Held(req[w].task, req[w].run)
    /\ Goto(w, "store")
    /\ UNCHANGED <<taskVars, chunkVars, runVars, envVars>>

\* The upload lands, or is cut short and leaves nothing.
StoreMedia(w, whole) ==
    /\ At(w, "media", "store")
    /\ video' = IF whole THEN video \union {req[w].task} ELSE video
    /\ Answer(w)
    /\ UNCHANGED <<taskVars, chunk, progress, runVars, envVars>>

\* A chunk counts as handled when its pages hold nothing or its quiz task ended.
Handled(c, st) == chunk[c] = "unreadable" \/ st[<<c, "quiz">>] \in Finished

\* Mutant: the first page not handled instead of the last one handled.
HandledPrefix_OffByOne(st) ==
    Cardinality({c \in Chunks : \A d \in 1..c : Handled(d, st)}) + 1

\* advance_document: the length of the contiguous handled prefix under statuses st.
HandledPrefix(st) == Cardinality({c \in Chunks : \A d \in 1..c : Handled(d, st)})

\* Completing with nothing ends the task as skipped, unless something was made.
Outcome(t, items, skip) ==
    LET created == items \ output[t]
        empty   == \/ items = {}
                   \/ t[2] = "quiz" /\ (skip \/ chunk[t[1]] = "unreadable")
    IN  IF empty /\ created = {} THEN "skipped" ELSE "done"

\* Mutant: the storage key is trusted.
Uploaded_Trusting(t, items) == TRUE

\* A reel completes only once its video is in storage.
Uploaded(t, items) == t[2] = "reel" /\ items # {} => t \in video

\* Mutant: a task that ends with nothing made is not counted.
CountWork_MadeOnly(r, created) ==
    /\ tasksDone' = [tasksDone EXCEPT ![r] = IF created > 0 THEN @ + 1 ELSE @]
    /\ made' = [made EXCEPT ![r] = @ + created]

\* The run's counters, added to in the database (F expressions).
CountWork(r, created) ==
    /\ tasksDone' = [tasksDone EXCEPT ![r] = @ + 1]
    /\ made' = [made EXCEPT ![r] = @ + created]

Complete(w, items, skip) ==
    LET t == req[w].task
        r == req[w].run
        ended == [status EXCEPT ![t] = Outcome(t, items, skip)]
    IN  /\ At(w, "complete", "locked") /\ Held(t, r)
        /\ items \subseteq Items(t[2]) /\ Uploaded(t, items)
        /\ status' = ended
        /\ lease' = [lease EXCEPT ![t] = "none"]
        /\ output' = [output EXCEPT ![t] = @ \union items]
        /\ Touch(r)
        /\ CountWork(r, Cardinality(items \ output[t]))
        /\ landed' = [landed EXCEPT ![r] = @ + 1]
        /\ progress' = IF t[2] = "quiz" THEN HandledPrefix(ended) ELSE progress
        /\ Answer(w)
        /\ UNCHANGED <<holder, attempts, chunk, video, state, reason, envVars>>

\* A reel without its video is refused and the transaction rolls back.
RefuseReel(w) ==
    /\ At(w, "complete", "locked") /\ Held(req[w].task, req[w].run)
    /\ req[w].task[2] = "reel" /\ req[w].task \notin video
    /\ Answer(w)
    /\ UNCHANGED <<taskVars, chunkVars, runVars, envVars>>

\* Mutant: the limit itself still counts as a try left.
TriesLeft_OffByOne(t) == attempts[t] + 1 <= MaxAttempts

\* After one more failure the task still has a try left.
TriesLeft(t) == attempts[t] + 1 < MaxAttempts

Fail(w, retryable) ==
    LET t     == req[w].task
        again == retryable /\ TriesLeft(t)
    IN  /\ At(w, "fail", "locked") /\ Held(t, req[w].run)
        /\ attempts' = [attempts EXCEPT ![t] = @ + 1]
        /\ status' = [status EXCEPT ![t] = IF again THEN "pending" ELSE "failed"]
        /\ lease' = [lease EXCEPT ![t] = "none"]
        /\ Answer(w)
        /\ UNCHANGED <<holder, output, chunkVars, runVars, envVars>>

-----------------------------------------------------------------------------
(* claim(): the caps against the loaded run row, then planner.claim.           *)

CapReached(k, row) == OutputCap[k] > 0 /\ row.made >= OutputCap[k]

\* Mutant: one task more than the cap.
MayClaim_OffByOne(q) ==
    /\ enabled
    /\ q.row.done + Cardinality(ClaimedBy(q.run)) <= MaxTasksPerRun
    /\ ~CapReached(q.kind, q.row)

MayClaim(q) ==
    /\ enabled
    /\ q.row.done + Cardinality(ClaimedBy(q.run)) < MaxTasksPerRun
    /\ ~CapReached(q.kind, q.row)

Admit(w) ==
    /\ At(w, "claim", "admit")
    /\ IF MayClaim(req[w]) THEN Goto(w, "plan") ELSE Answer(w)
    /\ UNCHANGED <<taskVars, chunkVars, runVars, envVars>>

\* 1. Tasks waiting for a (re)run: handed back, or claimed under a dead lease.
Waiting(k) == {c \in Chunks : \/ status[<<c, k>>] = "pending"
                              \/ status[<<c, k>>] = "claimed" /\ lease[<<c, k>>] = "expired"}

\* An unread chunk some kind is reading right now.
BeingRead(c) == /\ chunk[c] = "unread"
                /\ \E k \in Kinds : status[<<c, k>>] = "claimed" /\ lease[<<c, k>>] = "live"

\* 2. Chunks made for another kind; 3. the next window no chunk covers.
ForOtherKind(k) == {c \in Chunks : /\ chunk[c] \in {"unread", "read"}
                                   /\ status[<<c, k>>] = "absent"
                                   /\ ~BeingRead(c)}
Uncovered       == {c \in Chunks : chunk[c] = "absent"}
NewWork(k)      == IF ForOtherKind(k) # {} THEN ForOtherKind(k) ELSE Uncovered

First(S) == {c \in S : \A d \in S : c <= d}

\* The task's row as the planner leaves it: claimed by r under a fresh lease.
GiveTo(t, r) ==
    /\ status' = [status EXCEPT ![t] = "claimed"]
    /\ holder' = [holder EXCEPT ![t] = r]
    /\ lease' = [lease EXCEPT ![t] = "live"]
    /\ handed' = [handed EXCEPT ![r] = @ \union {t}]

\* The waiting row stays locked from next_plan to the update: one step.
ClaimWaiting(w) ==
    LET k == req[w].kind IN
    /\ At(w, "claim", "plan")
    /\ \E c \in First(Waiting(k)) : GiveTo(<<c, k>>, req[w].run)
    /\ Answer(w)
    /\ UNCHANGED <<attempts, output, chunkVars, runVars, enabled, openRequests, dead>>

\* The search for waiting tasks skips the rows another claim of the kind has locked.
SeesNoneWaiting(w, k) ==
    \/ Waiting(k) = {}
    \/ \E v \in Workers \ {w} : At(v, "claim", "plan") /\ req[v].kind = k

\* New work is planned under the kind's advisory lock and inserted later.
PlanNew(w) ==
    LET k == req[w].kind IN
    /\ At(w, "claim", "plan") /\ SeesNoneWaiting(w, k)
    /\ \A v \in Workers : ~(req[v].kind = k /\ req[v].pc \in {"insert task", "insert chunk"})
    /\ \E c \in First(NewWork(k)) :
         req' = [req EXCEPT ![w].task = <<c, k>>,
                            ![w].pc = IF c \in Uncovered THEN "insert chunk" ELSE "insert task"]
    /\ UNCHANGED <<taskVars, chunkVars, runVars, envVars>>

\* Nothing to do: the answer is a Reason.
NothingToDo(w) ==
    /\ At(w, "claim", "plan") /\ SeesNoneWaiting(w, req[w].kind) /\ NewWork(req[w].kind) = {}
    /\ Answer(w)
    /\ UNCHANGED <<taskVars, chunkVars, runVars, envVars>>

CreateAndClaim(w) ==
    LET t == req[w].task IN
    /\ req[w].op = "claim"
    /\ \/ req[w].pc = "insert task" /\ UNCHANGED chunk
       \/ /\ req[w].pc = "insert chunk" /\ chunk[t[1]] = "absent"
          /\ chunk' = [chunk EXCEPT ![t[1]] = "unread"]
    /\ GiveTo(t, req[w].run)
    /\ Answer(w)
    /\ UNCHANGED <<attempts, output, video, progress, runVars, enabled, openRequests, dead>>

\* chunks_document_pages_uniq: the other kind inserted this window first; plan again.
ReplanOnConflict(w) ==
    /\ At(w, "claim", "insert chunk") /\ chunk[req[w].task[1]] # "absent"
    /\ req' = [req EXCEPT ![w].pc = "plan", ![w].task = NoTask]
    /\ UNCHANGED <<taskVars, chunkVars, runVars, envVars>>

-----------------------------------------------------------------------------
(* Closing runs: finish(), and close_abandoned_runs() on behalf of status      *)
(* polls, wanted() and start_run().  Each run's row was loaded beforehand.     *)

LoadFinish(w, r, why) ==
    /\ Takes(w, "finish") /\ Calls(r)
    /\ Open(w, [Idle EXCEPT !.op = "finish", !.pc = "close", !.run = r,
                            !.todo = {RowOf(r)}, !.why = why])
    /\ UNCHANGED <<taskVars, chunkVars, runVars, envVars>>

\* start_run and wanted give up at once when the pipeline is switched off; a
\* status poll that finds no abandoned run writes nothing.
LoadSweep(w, op, k) ==
    /\ op \in {"sweep", "start", "wanted"} /\ Takes(w, op)
    /\ IF op = "sweep" THEN k = "none" /\ Abandoned # {} ELSE k \in Kinds /\ enabled
    /\ Open(w, [Idle EXCEPT !.op = op, !.pc = "close", !.kind = k,
                            !.todo = {RowOf(r) : r \in Abandoned}, !.why = "abandoned"])
    /\ UNCHANGED <<taskVars, chunkVars, runVars, envVars>>

\* _close, first statement: the run's claims go straight back.
HandBack_KeepsLease(w, row) ==      \* Mutant: the lease is left on the task.
    /\ req[w].pc = "close" /\ row \in req[w].todo
    /\ status' = [t \in Tasks |-> IF t \in ClaimedBy(row.run) THEN "pending" ELSE status[t]]
    /\ req' = [req EXCEPT ![w].pc = "save run", ![w].row = row, ![w].todo = @ \ {row}]
    /\ UNCHANGED <<lease, holder, attempts, output, chunkVars, runVars, envVars>>

HandBack(w, row) ==
    LET freed == ClaimedBy(row.run) IN
    /\ req[w].pc = "close" /\ row \in req[w].todo
    /\ status' = [t \in Tasks |-> IF t \in freed THEN "pending" ELSE status[t]]
    /\ lease' = [t \in Tasks |-> IF t \in freed THEN "none" ELSE lease[t]]
    /\ req' = [req EXCEPT ![w].pc = "save run", ![w].row = row, ![w].todo = @ \ {row}]
    /\ UNCHANGED <<holder, attempts, output, chunkVars, runVars, envVars>>

\* _close, run.save(): every column, from the row as it was loaded.
SaveClosedRun(w) ==
    LET row == req[w].row IN
    /\ req[w].pc = "save run"
    /\ state' = [state EXCEPT ![row.run] = "finished"]
    /\ reason' = [reason EXCEPT ![row.run] = req[w].why]
    /\ tasksDone' = [tasksDone EXCEPT ![row.run] = row.done]
    /\ made' = [made EXCEPT ![row.run] = row.made]
    /\ req' = [req EXCEPT ![w].pc = "close", ![w].row = NoRow]
    /\ UNCHANGED <<taskVars, chunkVars, envVars, silent, landed>>

EndOfClosing(w) ==
    /\ req[w].pc = "close" /\ req[w].todo = {}
    /\ IF req[w].op \in {"start", "wanted"} THEN Goto(w, "decide") ELSE Answer(w)
    /\ UNCHANGED <<taskVars, chunkVars, runVars, envVars>>

-----------------------------------------------------------------------------
(* Starting runs: start_run, wanted and request_run.                           *)

\* Runs that found nothing to do don't count against the daily cap.
CountsToday(r) == state[r] # "absent" /\ ~(tasksDone[r] = 0 /\ reason[r] = "idle")
RunsToday(k)   == Cardinality({r \in Runs : KindOf[r] = k /\ CountsToday(r)})

NextRun(k) == {r \in Runs : state[r] = "absent" /\ KindOf[r] = k}

\* Mutant: the cap admits one run too many.
UnderDailyCap_OffByOne(k) == RunsToday(k) <= MaxRunsPerDay

UnderDailyCap(k) == RunsToday(k) < MaxRunsPerDay

CountRuns(w) ==
    /\ At(w, "start", "decide")
    /\ IF UnderDailyCap(req[w].kind) THEN Goto(w, "create") ELSE Answer(w)
    /\ UNCHANGED <<taskVars, chunkVars, runVars, envVars>>

\* generation_runs_one_active_per_kind decides; the oldest request is consumed.
CreateRun(w) ==
    LET k == req[w].kind IN
    /\ At(w, "start", "create") /\ Active(k) = {}
    /\ \E r \in First(NextRun(k)) : state' = [state EXCEPT ![r] = "active"]
    /\ openRequests' = [openRequests EXCEPT ![k] = IF @ > 0 THEN @ - 1 ELSE 0]
    /\ Answer(w)
    /\ UNCHANGED <<taskVars, chunkVars, reason, silent, tasksDone, made, landed,
                   enabled, handed, dead>>

\* A run of this kind is active (or the bound on rows is reached).
RefuseStart(w) ==
    /\ At(w, "start", "create") /\ (Active(req[w].kind) # {} \/ NextRun(req[w].kind) = {})
    /\ Answer(w)
    /\ UNCHANGED <<taskVars, chunkVars, runVars, envVars>>

\* wanted() closes a request that no work is waiting for; otherwise it only answers.
DecideWanted(w) ==
    LET k == req[w].kind
        pointless == /\ Active(k) = {} /\ UnderDailyCap(k)
                     /\ openRequests[k] > 0 /\ Waiting(k) = {} /\ NewWork(k) = {}
    IN  /\ At(w, "wanted", "decide")
        /\ openRequests' = [openRequests EXCEPT ![k] = IF pointless THEN @ - 1 ELSE @]
        /\ Answer(w)
        /\ UNCHANGED <<taskVars, chunkVars, runVars, enabled, handed, dead>>

\* request_run returns the open request if there is one, else it will create one.
LoadRequest(w, k) ==
    /\ Takes(w, "request") /\ openRequests[k] = 0 /\ MaxOpenRequests > 0
    /\ Open(w, [Idle EXCEPT !.op = "request", !.pc = "create", !.kind = k])
    /\ UNCHANGED <<taskVars, chunkVars, runVars, envVars>>

CreateRequest(w) ==
    /\ At(w, "request", "create") /\ openRequests[req[w].kind] < MaxOpenRequests
    /\ openRequests' = [openRequests EXCEPT ![req[w].kind] = @ + 1]
    /\ Answer(w)
    /\ UNCHANGED <<taskVars, chunkVars, runVars, enabled, handed, dead>>

-----------------------------------------------------------------------------
(* Manage notes: the Retry button and Settings.                                *)

\* views.retry loads the task; services.retry checks that in-memory row ...
LoadRetry(w, t) ==
    /\ Takes(w, "retry") /\ status[t] \in {"failed", "skipped"}
    /\ Open(w, [Idle EXCEPT !.op = "retry", !.pc = "save", !.task = t,
                            !.row = [NoRow EXCEPT !.run = holder[t]]])
    /\ UNCHANGED <<taskVars, chunkVars, runVars, envVars>>

\* ... and saves all of it.
SaveRetry(w) ==
    LET t == req[w].task IN
    /\ At(w, "retry", "save")
    /\ status' = [status EXCEPT ![t] = "pending"]
    /\ attempts' = [attempts EXCEPT ![t] = 0]
    /\ lease' = [lease EXCEPT ![t] = "none"]
    /\ holder' = [holder EXCEPT ![t] = req[w].row.run]
    /\ Answer(w)
    /\ UNCHANGED <<output, chunkVars, runVars, envVars>>

SwitchPipeline ==
    /\ "switch" \in Uses
    /\ enabled' = ~enabled
    /\ UNCHANGED <<taskVars, chunkVars, runVars, openRequests, handed, dead, req>>

-----------------------------------------------------------------------------
(* Time passing and runners dying.                                             *)

LeaseExpires(t) ==
    /\ status[t] = "claimed" /\ lease[t] = "live"
    /\ lease' = [lease EXCEPT ![t] = "expired"]
    /\ UNCHANGED <<status, holder, attempts, output, chunkVars, runVars, envVars, req>>

FallsSilent(r) ==
    /\ state[r] = "active" /\ ~silent[r]
    /\ silent' = [silent EXCEPT ![r] = TRUE]
    /\ UNCHANGED <<taskVars, chunkVars, envVars, state, reason, tasksDone, made, landed, req>>

\* The session is closed for good; what it already sent is still served.
RunnerDies(r) ==
    /\ "die" \in Uses /\ state[r] = "active" /\ r \notin dead
    /\ dead' = dead \union {r}
    /\ UNCHANGED <<taskVars, chunkVars, runVars, enabled, openRequests, handed, req>>

RequestExpires(k) ==
    /\ openRequests[k] > 0
    /\ openRequests' = [openRequests EXCEPT ![k] = @ - 1]
    /\ UNCHANGED <<taskVars, chunkVars, runVars, enabled, handed, dead, req>>

-----------------------------------------------------------------------------

RunnerCalls(w) ==
    \/ \E op \in {"start", "wanted"}, k \in Kinds : LoadSweep(w, op, k)
    \/ \E r \in Runs :
        \/ \E t \in Tasks : \/ \E op \in TaskOps : LoadTaskCall(w, op, r, t)
                            \/ LoadComplete(w, r, t)
        \/ LoadClaim(w, r)
        \/ \E why \in {"idle", "stopped"} : LoadFinish(w, r, why)

AppCalls(w) ==
    \/ LoadSweep(w, "sweep", "none")
    \/ \E k \in Kinds : LoadRequest(w, k)
    \/ \E t \in Tasks : LoadRetry(w, t)

\* The steps of a request already being served.
Serve(w) ==
    \/ RefuseCall(w) \/ Heartbeat(w)
    \/ \E testable \in BOOLEAN : SaveNotes(w, testable)
    \/ CheckMedia(w)
    \/ \E whole \in BOOLEAN : StoreMedia(w, whole)
    \/ \E items \in SUBSET (Stems \union {"reel"}), skip \in BOOLEAN : Complete(w, items, skip)
    \/ RefuseReel(w)
    \/ \E retryable \in BOOLEAN : Fail(w, retryable)
    \/ Admit(w) \/ ClaimWaiting(w) \/ PlanNew(w) \/ NothingToDo(w)
    \/ CreateAndClaim(w) \/ ReplanOnConflict(w)
    \/ \E row \in req[w].todo : HandBack(w, row)
    \/ SaveClosedRun(w) \/ EndOfClosing(w)
    \/ CountRuns(w) \/ CreateRun(w) \/ RefuseStart(w) \/ DecideWanted(w)
    \/ CreateRequest(w)
    \/ SaveRetry(w)

Passing ==
    \/ \E t \in Tasks : LeaseExpires(t)
    \/ \E r \in Runs : FallsSilent(r) \/ RunnerDies(r)
    \/ \E k \in Kinds : RequestExpires(k)

Next ==
    \/ \E w \in Workers : RunnerCalls(w) \/ AppCalls(w) \/ Serve(w)
    \/ SwitchPipeline
    \/ Passing

Spec == Init /\ [][Next]_vars

(* A worker finishes what it started, and gunicorn's backlog lets a status poll  *)
(* in among other requests.  The clock is as fair as clocks are: a lease that    *)
(* is not renewed again and again runs out, and a run that is not heard from     *)
(* again and again falls silent.                                                 *)
Renewed(t) == lease'[t] = "live" /\ \E w \in Workers : req[w].task = t /\ req'[w] = Idle
Heard(r)   == \E w \in Workers : req[w] = Idle /\ req'[w].run = r

Fairness ==
    /\ \A w \in Workers : WF_vars(Serve(w))
    /\ \A t \in Tasks : []<><<Renewed(t)>>_vars \/ WF_vars(LeaseExpires(t))
    /\ \A r \in Runs : []<><<Heard(r)>>_vars \/ WF_vars(FallsSilent(r))
    /\ SF_vars(\E w \in Workers : LoadSweep(w, "sweep", "none"))

FairSpec == Spec /\ Fairness
-----------------------------------------------------------------------------
(* Properties.                                                                 *)

Row     == [run : Runs \union {NoRun}, done : Nat, made : Nat]
Request == [op : RunnerOps \union AppOps \union {"idle"},
            pc : {"idle", "locked", "store", "admit", "plan", "insert task", "insert chunk",
                  "close", "save run", "decide", "create", "save"},
            kind : Kinds \union {"none"}, run : Runs \union {NoRun},
            task : Tasks \union {NoTask}, row : Row, todo : SUBSET Row,
            why : {"none", "idle", "stopped", "abandoned"}]

\* Every row and every request in flight has the shape the code gives it.
TypeOK ==
    /\ enabled \in BOOLEAN
    /\ status \in [Tasks -> {"absent", "pending", "claimed", "done", "failed", "skipped"}]
    /\ holder \in [Tasks -> Runs \union {NoRun}]
    /\ lease \in [Tasks -> {"none", "live", "expired"}]
    /\ attempts \in [Tasks -> Nat]
    /\ output \in [Tasks -> SUBSET (Stems \union {"reel"})]
    /\ chunk \in [Chunks -> {"absent", "unread", "read", "unreadable"}]
    /\ video \in SUBSET Tasks
    /\ progress \in 0..NumChunks
    /\ state \in [Runs -> {"absent", "active", "finished"}]
    /\ reason \in [Runs -> {"none", "idle", "stopped", "abandoned"}]
    /\ silent \in [Runs -> BOOLEAN]
    /\ tasksDone \in [Runs -> Nat] /\ made \in [Runs -> Nat] /\ landed \in [Runs -> Nat]
    /\ openRequests \in [Kinds -> Nat]
    /\ req \in [Workers -> Request]
    /\ handed \in [Runs -> SUBSET Tasks]
    /\ dead \in SUBSET Runs

\* A task is done exactly when what it was to make is stored: no interleaving of
\* completions, reclaims, hand-backs and Retry loses an output, stores one for a
\* task that is still open, or reopens a task that has one.
DoneIffOutput == \A t \in Tasks : status[t] = "done" <=> output[t] # {}

\* A task that is offered or being worked on has attempts left: a failure count
\* at the limit always ends the task (services.fail).
AttemptsLeft == \A t \in Tasks : status[t] \in {"pending", "claimed"} => attempts[t] < MaxAttempts

\* Exactly the claimed tasks carry a lease, and their holder is a run of their kind
\* that was started: no path leaves a lease behind or hands a task to another kind.
LeaseIffClaimed ==
    \A t \in Tasks :
        /\ status[t] = "claimed" <=> lease[t] # "none"
        /\ status[t] = "claimed" => /\ holder[t] \in Runs
                                    /\ KindOf[holder[t]] = t[2]
                                    /\ state[holder[t]] # "absent"

\* A run's tasks_done is the number of completions the server accepted from it for
\* as long as the run is open (claim() and the caps rely on it).
OpenRunCountsItsWork == \A r \in Runs : state[r] = "active" => tasksDone[r] = landed[r]

\* A sequential runner never gets more than max_tasks_per_run tasks, whatever is
\* handed back, reclaimed or closed around it.
RunCapHolds == \A r \in Runs : landed[r] + Cardinality(ClaimedBy(r)) <= MaxTasksPerRun

\* With one start_run at a time, no more runs of a kind than the daily cap allows
\* ever complete work, whichever closing writes their rows last.
DailyCapHolds ==
    \A k \in Kinds : Cardinality({r \in Runs : KindOf[r] = k /\ landed[r] > 0}) <= MaxRunsPerDay

\* A reel is only ever recorded for a video that is in storage.
ReelHasVideo == \A t \in Tasks : t[2] = "reel" /\ output[t] # {} => t \in video

\* The run of a runner that died is closed, so it cannot block its kind forever.
DeadRunIsClosed == \A r \in Runs : r \in dead ~> state[r] = "finished"

\* A claim whose run has been closed, or whose runner died, is released or runs out
\* its lease: one that a claim in flight gets after _close handed the others back
\* can't be kept alive by its runner's further calls.
GoneRunLosesItsClaims ==
    \A t \in Tasks, r \in Runs :
        (Held(t, r) /\ (state[r] = "finished" \/ r \in dead)) ~> (~Held(t, r) \/ lease[t] = "expired")

=============================================================================
