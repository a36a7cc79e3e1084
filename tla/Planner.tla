------------------------------ MODULE Planner ------------------------------
(* Choosing a runner's next task (backend/pipeline/planner.py) from the       *)
(* learner's PDFs and scopes (Notes), statement by statement: every query of  *)
(* next_plan sees what has been committed by then, the rows of step 1 are     *)
(* locked to the end of the transaction, and new chunks and tasks are made    *)
(* one claim per kind at a time, under an advisory lock.                      *)
(*                                                                            *)
(* Runs, leases and what a runner may do with a task are in Pipeline; here a  *)
(* task is worked on by whoever holds it.                                     *)
EXTENDS Notes

CONSTANTS
    Claimers,   \* bound: claims served at once
    KindOf,     \* the kind of the run each one claims for
    Size,       \* KL_CHUNK_PAGES
    Blank,      \* bound: pages with nothing to teach
    MaxMishaps, \* bound: failures, lapsed leases, retries, killed claims
    Racing      \* {"range"}: a page range may change under a claim

ASSUME PlannerAssumption ==
    KindOf \in [Claimers -> Kinds] /\ Size \in Nat \ {0} /\ MaxMishaps \in Nat

VARIABLES
    chunks,     \* chunks: [doc, from, to] -> "unread", "read" or "unreadable"
    tasks,      \* generation_tasks: <<chunk, kind>> -> status; "lapsed" is claimed with an expired lease
    claim,      \* how far each claim has got
    mishaps     \* how much of the bound is used

workVars == <<chunks, tasks>>
vars     == <<notesVars, workVars, claim, mishaps>>

NoClaim == [pc |-> "idle", snap |-> << >>, held |-> {}, serial |-> FALSE, plan |-> << >>]

Init ==
    /\ NotesInit
    /\ chunks = << >> /\ tasks = << >>
    /\ claim = [r \in Claimers |-> NoClaim]
    /\ mishaps = 0

\* f with x |-> y.
With(f, x, y) == [z \in DOMAIN f \union {x} |-> IF z = x THEN y ELSE f[z]]

PagesOf(c) == c.from..c.to

-----------------------------------------------------------------------------
(* uncovered_windows: the pages no chunk covers yet, cut into windows.        *)

\* Mutant: a window is closed one page too late.
Closes_Late(free, page, start) == start # 0 /\ (~free \/ page - start > Size)

\* Whether the window opened on page start ends before this page.
Closes(free, page, start) == start # 0 /\ (~free \/ page - start + 1 > Size)

\* scan[p] is what the loop knows after page p.
Windows(covered, first, last) ==
    LET scan[page \in (first - 1)..(last + 1)] ==
            IF page < first THEN [windows |-> {}, start |-> 0]
            ELSE LET old   == scan[page - 1]
                     free  == page <= last /\ page \notin covered
                     start == IF free /\ old.start = 0 THEN page ELSE old.start
                 IN  IF Closes(free, page, start)
                     THEN [windows |-> old.windows \union {<<start, page - 1>>},
                           start |-> IF free THEN page ELSE 0]
                     ELSE [old EXCEPT !.start = start]
    IN  scan[last + 1].windows

\* Mutant: pages count as covered once their notes are there.
Covered_Read(d) == UNION {PagesOf(c) : c \in {x \in DOMAIN chunks : x.doc = d /\ chunks[x] # "unread"}}

Covered(d) == UNION {PagesOf(c) : c \in {x \in DOMAIN chunks : x.doc = d}}

-----------------------------------------------------------------------------
(* next_plan.                                                                 *)

OnStep(r, pc) == claim[r].pc = pc
Set(r, c)     == claim' = [claim EXCEPT ![r] = c]
Snap(r)       == claim[r].snap

\* Rows another claim has locked are skipped.
LockedByOthers(r) == UNION {claim[o].held : o \in Claimers \ {r}}

\* eligible_documents: stored, asked for, and where each sits in the list.
Eligible(kind) == {d \in Available : kind \in scopes[d].kinds}

InRange(r, c) == c.doc \in DOMAIN Snap(r) /\ PagesOf(c) \subseteq Snap(r)[c.doc].from..Snap(r)[c.doc].last

\* From the bottom of the list up, then by page.
Before(r, c, d) == \/ Snap(r)[c.doc].place > Snap(r)[d.doc].place
                   \/ c.doc = d.doc /\ c.from < d.from
FirstOf(r, some) == {c \in some : \A d \in some \ {c} : Before(r, c, d)}

LoadDocs(r) ==
    LET docsOf == Eligible(KindOf[r])
    IN  /\ claim[r].pc \in {"idle", "docs"}
        /\ IF docsOf = {} THEN Set(r, NoClaim)
           ELSE Set(r, [claim[r] EXCEPT
                        !.pc = "waiting",
                        !.snap = [d \in docsOf |-> [from |-> scopes[d].from, last |-> LastPage(d, scopes[d]),
                                                    place |-> Index(d, Available)]]])
        /\ UNCHANGED <<notesVars, workVars, mishaps>>

Waiting(t) == tasks[t] \in {"pending", "lapsed"}

\* Mutant: the rows are not locked.
PickWaiting_Unlocked(r) ==
    LET rows   == {t \in DOMAIN tasks : t[2] = KindOf[r] /\ Waiting(t) /\ t[1].doc \in DOMAIN Snap(r)}
        usable == {t[1] : t \in {x \in rows : InRange(r, x[1])}}
    IN  /\ OnStep(r, "waiting")
        /\ \/ usable = {} /\ Set(r, [claim[r] EXCEPT !.pc = "chunks"])
           \/ \E c \in FirstOf(r, usable) : Set(r, [claim[r] EXCEPT !.pc = "take", !.plan = <<"task", c>>])
        /\ UNCHANGED <<notesVars, workVars, mishaps>>

\* Step 1, with select_for_update(skip_locked): every row found stays locked, the
\* ones out of range too.
PickWaiting(r) ==
    LET rows   == {t \in DOMAIN tasks \ LockedByOthers(r) :
                       t[2] = KindOf[r] /\ Waiting(t) /\ t[1].doc \in DOMAIN Snap(r)}
        usable == {t[1] : t \in {x \in rows : InRange(r, x[1])}}
        locked == [claim[r] EXCEPT !.held = @ \union rows]
    IN  /\ OnStep(r, "waiting")
        /\ \/ usable = {} /\ Set(r, [locked EXCEPT !.pc = "chunks"])
           \/ \E c \in FirstOf(r, usable) : Set(r, [locked EXCEPT !.pc = "take", !.plan = <<"task", c>>])
        /\ UNCHANGED <<notesVars, workVars, mishaps>>

\* Mutant: a reader whose lease has run out still keeps the chunk from others.
BeingRead_Lapsed(c) ==
    chunks[c] = "unread" /\ \E k \in Kinds : <<c, k>> \in DOMAIN tasks /\ tasks[<<c, k>>] \in {"claimed", "lapsed"}

BeingRead(c) == chunks[c] = "unread" /\ \E k \in Kinds : <<c, k>> \in DOMAIN tasks /\ tasks[<<c, k>>] = "claimed"

\* What a plan for new work leads to: the lock and a second look, or the insert.
Plan(r, what, c) == [claim[r] EXCEPT !.pc = IF claim[r].serial THEN "create" ELSE "lock", !.plan = <<what, c>>]

\* Step 2.
PickChunk(r) ==
    LET open == {c \in DOMAIN chunks : /\ chunks[c] # "unreadable" /\ InRange(r, c)
                                       /\ <<c, KindOf[r]>> \notin DOMAIN tasks /\ ~BeingRead(c)}
    IN  /\ OnStep(r, "chunks")
        /\ \/ open = {} /\ Set(r, [claim[r] EXCEPT !.pc = "windows"])
           \/ \E c \in FirstOf(r, open) : Set(r, Plan(r, "chunk", c))
        /\ UNCHANGED <<notesVars, workVars, mishaps>>

\* Step 3.  Coverage only grows, so reading the PDFs' chunks one after another
\* finds what reading them all at the last of those moments would.
PickWindow(r) ==
    LET new == UNION {{[doc |-> d, from |-> w[1], to |-> w[2]] : w \in Windows(Covered(d), Snap(r)[d].from, Snap(r)[d].last)}
                      : d \in DOMAIN Snap(r)}
    IN  /\ OnStep(r, "windows")
        /\ \/ new = {} /\ Set(r, [claim[r] EXCEPT !.pc = "reason"])
           \/ \E c \in FirstOf(r, new) : Set(r, Plan(r, "window", c))
        /\ UNCHANGED <<notesVars, workVars, mishaps>>

FailedInRange(r) == {t \in DOMAIN tasks : t[2] = KindOf[r] /\ tasks[t] = "failed" /\ InRange(r, t[1])}

\* The answer, when there is no work: all_failed or range_done.
Reason(r) == IF FailedInRange(r) # {} THEN "all_failed" ELSE "range_done"

GiveReason(r) ==
    /\ OnStep(r, "reason")
    /\ Set(r, NoClaim)
    /\ UNCHANGED <<notesVars, workVars, mishaps>>

-----------------------------------------------------------------------------
(* claim.                                                                     *)

Serialize(r) ==
    /\ OnStep(r, "lock")
    /\ \A o \in Claimers \ {r} : KindOf[o] = KindOf[r] => ~claim[o].serial
    /\ Set(r, [claim[r] EXCEPT !.pc = "docs", !.serial = TRUE])
    /\ UNCHANGED <<notesVars, workVars, mishaps>>

Take(r) ==
    /\ OnStep(r, "take")
    /\ tasks' = With(tasks, <<claim[r].plan[2], KindOf[r]>>, "claimed")
    /\ Set(r, NoClaim)
    /\ UNCHANGED <<notesVars, chunks, mishaps>>

\* A unique constraint is hit: the transaction is undone and claim starts over.
InTheWay(r, what, c) == IF what = "window" THEN c \in DOMAIN chunks ELSE <<c, KindOf[r]>> \in DOMAIN tasks

Create(r) ==
    LET what == claim[r].plan[1]
        c    == claim[r].plan[2]
    IN  /\ OnStep(r, "create")
        /\ IF InTheWay(r, what, c)
           THEN Set(r, [NoClaim EXCEPT !.pc = "docs"]) /\ UNCHANGED workVars
           ELSE /\ chunks' = IF what = "window" THEN With(chunks, c, "unread") ELSE chunks
                /\ tasks' = With(tasks, <<c, KindOf[r]>>, "claimed")
                /\ Set(r, NoClaim)
        /\ UNCHANGED <<notesVars, mishaps>>

\* The worker is killed: what it locked is free again.
Killed(r) ==
    /\ ~OnStep(r, "idle") /\ Set(r, NoClaim)
    /\ mishaps < MaxMishaps /\ mishaps' = mishaps + 1
    /\ UNCHANGED <<notesVars, workVars>>

Claiming(r) ==
    \/ LoadDocs(r) \/ PickWaiting(r) \/ PickChunk(r) \/ PickWindow(r) \/ GiveReason(r)
    \/ Serialize(r) \/ Take(r) \/ Create(r)

-----------------------------------------------------------------------------
(* What happens to a task that is held.  A row a claim has locked has to wait. *)

Held(t) == tasks[t] \in {"claimed", "lapsed"} /\ \A r \in Claimers : t \notin claim[r].held

SetTask(t, status) == tasks' = [tasks EXCEPT ![t] = status] /\ UNCHANGED <<notesVars, claim>>

ReadPages(t) ==
    /\ Held(t) /\ chunks[t[1]] = "unread"
    /\ chunks' = [chunks EXCEPT ![t[1]] = IF PagesOf(t[1]) \subseteq Blank THEN "unreadable" ELSE "read"]
    /\ SetTask(t, "claimed") /\ UNCHANGED mishaps

Complete(t) ==
    /\ Held(t) /\ chunks[t[1]] # "unread"
    /\ SetTask(t, IF chunks[t[1]] = "unreadable" THEN "skipped" ELSE "done")
    /\ UNCHANGED <<chunks, mishaps>>

Mishap == mishaps < MaxMishaps /\ mishaps' = mishaps + 1 /\ UNCHANGED chunks

Fail(t)  == Held(t) /\ (\E again \in {"pending", "failed"} : SetTask(t, again)) /\ Mishap
Lapse(t) == tasks[t] = "claimed" /\ SetTask(t, "lapsed") /\ Mishap
Retry(t) == tasks[t] \in {"failed", "skipped"} /\ SetTask(t, "pending") /\ Mishap

Work(t) == ReadPages(t) \/ Complete(t)

-----------------------------------------------------------------------------

\* Manage notes is used while runners claim.  A page range changes under a claim
\* only where Racing says so.
NotesStep ==
    /\ NotesNext /\ UNCHANGED <<workVars, claim, mishaps>>
    /\ \/ "range" \in Racing
       \/ \A r \in Claimers : OnStep(r, "idle")
       \/ \A d \in Docs : scopes'[d].from = scopes[d].from /\ scopes'[d].to = scopes[d].to

Next ==
    \/ NotesStep
    \/ \E r \in Claimers : Claiming(r) \/ Killed(r)
    \/ \E t \in DOMAIN tasks : Work(t) \/ Fail(t) \/ Lapse(t) \/ Retry(t)

Spec == Init /\ [][Next]_vars

\* Requests are served, runs claim again, and whoever holds a task gets on with it,
\* unless the lease has run out: nobody may be left to.
FairSpec ==
    /\ Spec
    /\ WF_vars(NotesStep /\ \E w \in Workers : Serve(w))
    /\ \A r \in Claimers : WF_vars(Claiming(r))
    /\ WF_vars(\E t \in DOMAIN tasks : tasks[t] = "claimed" /\ Work(t))

-----------------------------------------------------------------------------
(* Properties.                                                                *)

Chunks == [doc : Docs, from : Pages, to : Pages]
Statuses == {"pending", "claimed", "lapsed", "done", "skipped", "failed"}

TypeOK ==
    /\ NotesTypeOK
    /\ DOMAIN chunks \subseteq Chunks
    /\ \A c \in DOMAIN chunks : chunks[c] \in {"unread", "read", "unreadable"}
    /\ DOMAIN tasks \subseteq (DOMAIN chunks) \X Kinds
    /\ \A t \in DOMAIN tasks : tasks[t] \in Statuses
    /\ \A r \in Claimers :
          /\ claim[r].pc \in {"idle", "docs", "waiting", "chunks", "windows", "reason", "lock", "take", "create"}
          /\ DOMAIN Snap(r) \subseteq Docs /\ claim[r].held \subseteq DOMAIN tasks
          /\ claim[r].serial \in BOOLEAN
    /\ mishaps \in 0..MaxMishaps

\* No page is in two chunks, so no page is read or taught twice: the windows two
\* kinds plan at once are kept apart by nothing but the unique constraint and the
\* second look (planner.claim).
ChunksDisjoint ==
    \A c, d \in DOMAIN chunks : c.doc = d.doc /\ c # d => PagesOf(c) \cap PagesOf(d) = {}

\* A task is taken only while it waits, although it was chosen a statement earlier:
\* nobody else took it, and whoever let it lapse did not come back (skip_locked).
TakesWaiting ==
    \A r \in Claimers : OnStep(r, "take") => Waiting(<<claim[r].plan[2], KindOf[r]>>)

\* Whenever a claim asks for windows, whatever the range, it gets exactly the pages
\* that are free, each once, in windows of at most Size pages, none of them cut
\* shorter than the pages allow (uncovered_windows).
WindowsTile ==
    \A r \in Claimers : OnStep(r, "windows") =>
        \A d \in Docs : \A first \in 1..5 : \A last \in first..5 :
            LET windows == Windows(Covered(d), first, last)
                free    == (first..last) \ Covered(d)
            IN  /\ UNION {w[1]..w[2] : w \in windows} = free
                /\ \A v, w \in windows : v # w => (v[1]..v[2]) \cap (w[1]..w[2]) = {}
                /\ \A w \in windows : /\ w[2] - w[1] < Size
                                      /\ w[2] - w[1] + 1 < Size => w[2] + 1 \notin free

\* What progress shows as handled: pages_done.
Handled(d, kind) ==
    UNION {PagesOf(c) : c \in {x \in DOMAIN chunks :
        /\ x.doc = d
        /\ \/ chunks[x] = "unreadable"
           \/ <<x, kind>> \in DOMAIN tasks /\ tasks[<<x, kind>>] \in {"done", "skipped"}}}

FailedPages(d, kind) ==
    UNION {PagesOf(t[1]) : t \in {x \in DOMAIN tasks : x[1].doc = d /\ x[2] = kind /\ tasks[x] = "failed"}}

ScopePages(d) == scopes[d].from..LastPage(d, scopes[d])

\* Pages of chunks that were cut for another range than the one of now.
Straddling(d) ==
    UNION {PagesOf(c) : c \in {x \in DOMAIN chunks : x.doc = d /\ ~(PagesOf(x) \subseteq ScopePages(d))}}

\* Once the learner leaves the notes alone, every page the scope asks for is
\* handled, or shown as failed, or in a chunk that reaches out of the range:
\* no interleaving of claims, lapses and edits makes the planner forget a page.
ScopeGetsHandled ==
    <>[](\A r \in Claimers : \A d \in Eligible(KindOf[r]) :
            ScopePages(d) \subseteq Handled(d, KindOf[r]) \union FailedPages(d, KindOf[r]) \union Straddling(d))

\* Nobody edits the notes or works on anything, and nothing has come free for r
\* since it looked.
Quiet(r) ==
    /\ \A w \in Workers : job[w] = NoJob
    /\ \A o \in Claimers \ {r} : OnStep(o, "idle")
    /\ \A t \in DOMAIN tasks : tasks[t] # "claimed" /\ (t[2] = KindOf[r] /\ InRange(r, t[1]) => ~Waiting(t))
    /\ \A c \in DOMAIN chunks : InRange(r, c) /\ chunks[c] # "unreadable" => <<c, KindOf[r]>> \in DOMAIN tasks

\* Reason.RANGE_DONE: "every page in every selected range has been handled", asked
\* of an answer given in a quiet state.
RangeDoneMeansHandled ==
    \A r \in Claimers : OnStep(r, "reason") /\ Reason(r) = "range_done" /\ Quiet(r)
        => \A d \in Eligible(KindOf[r]) : ScopePages(d) \subseteq Handled(d, KindOf[r])
=============================================================================
