----------------------------- MODULE StepEngine -----------------------------
(* The half that `kl mcq` and `kl reel` share (pipeline/kl/steps.py): claiming, *)
(* the read step, invalid submissions, lost claims, resume, fail and stop.      *)
(*                                                                              *)
(* A command is a process: it loads state.json, works on the copy in memory,    *)
(* calls the server and saves.  A step of this module is one API call, or the   *)
(* local work up to the next call or save; between two steps the process can be *)
(* killed or die of an error no handler catches.  pc is the call or the work    *)
(* that comes next.  The server is TaskLedger, which Pipeline implements; the   *)
(* one open run of the kind is added here.  McqEngine and ReelEngine add the    *)
(* steps between `begin` and `complete`.                                        *)
EXTENDS Integers, FiniteSets

CONSTANTS
    Tasks,          \* bound: generation_tasks of this kind
    NumRuns,        \* bound: runs this machine starts
    MaxAttempts,    \* KL_MAX_TASK_ATTEMPTS
    MaxInvalid,     \* MAX_INVALID
    MaxFaults,      \* bound: kills, uncaught errors and unreachable servers
    FirstStage,     \* the stage the subclass's _begin enters
    NewWork,        \* the fields the subclass's _new_task adds
    BegunWork       \* those fields once _begin has run

OwnRuns == 1..NumRuns
Other   == NumRuns + 1      \* a run some other machine starts
Runs    == 1..(NumRuns + 1)
NoRun   == 0
NoTask  == "none"

ASSUME StepEngineAssumption ==
    /\ NumRuns \in Nat /\ NoTask \notin Tasks
    /\ MaxAttempts \in Nat \ {0} /\ MaxInvalid \in Nat \ {0} /\ MaxFaults \in Nat

VARIABLES
    disk,       \* state.json
    st,         \* the copy a command in progress works on
    pc,         \* what that command does next
    phase, owner, lapsed, credit, tries,    \* the server's ledger (TaskLedger)
    state,      \* generation_runs of this kind: absent, active or finished
    ender,      \* generation_tasks.run_id of a task that ended
    pages,      \* chunks.status of the task's pages
    stored,     \* what is stored for the task
    faults

ledgerVars == <<phase, owner, lapsed, credit, tries>>
serverVars == <<ledgerVars, state, ender, pages, stored>>
vars       == <<disk, st, pc, serverVars, faults>>

Server == INSTANCE TaskLedger

NoState == [run |-> NoRun, task |-> NoTask, stage |-> "none", invalid |-> 0, seen |-> "unread",
            paged |-> FALSE, keep |-> {}, work |-> NewWork]
NewState(r)  == [NoState EXCEPT !.run = r]
Dropped(s)   == [NoState EXCEPT !.run = s.run]
Claimed(s,t) == [NoState EXCEPT !.run = s.run, !.task = t, !.stage = "read", !.seen = pages[t]]

Init ==
    /\ disk = NoState /\ st = NoState /\ pc = "idle"
    /\ Server!Init
    /\ state = [r \in Runs |-> "absent"]
    /\ ender = [t \in Tasks |-> NoRun]
    /\ pages \in [Tasks -> {"unread", "read", "unreadable"}]
    /\ stored = [t \in Tasks |-> {}]
    /\ faults = 0

Local    == UNCHANGED <<serverVars, faults>>
End      == pc' = "idle" /\ st' = NoState
Go(p, s) == pc' = p /\ st' = s

\* save(st), then go on with p; or save and be done.
SaveAndGo(p, s) == disk' = s /\ Go(p, s) /\ Local
SaveAndEnd(s)   == disk' = s /\ End /\ Local

\* _require_stage: a command that needs a step finds the file at that step.
AtStage(stage) == pc = "idle" /\ disk.task # NoTask /\ disk.stage = stage

\* _enter: a new step, saved before the heartbeat that renews the lease.
Enter(s, stage, p) == SaveAndGo(p, [s EXCEPT !.stage = stage, !.invalid = 0])

-----------------------------------------------------------------------------
(* Calls about the task in hand.  The server refuses them (LeaseLost) once the  *)
(* run is closed or the claim is gone.                                          *)

Holds == state[st.run] = "active" /\ owner[st.task] = st.run

\* complete() answers a completion that this run already landed.
LandedHere == phase[st.task] \in {"done", "skipped"} /\ ender[st.task] = st.run

Renews == Server!Renew(st.task) /\ UNCHANGED <<state, ender, pages, stored, faults>>

Beat ==
    /\ pc \in {"beat", "first beat"} /\ Holds
    /\ Renews /\ End /\ UNCHANGED disk

\* The heartbeats in _claim_next and _begin are not guarded: the command dies.
FirstBeatLost ==
    /\ pc = "first beat" /\ ~Holds
    /\ End /\ Local /\ UNCHANGED disk

\* Everywhere else LeaseLost leads to _lost: drop the task, claim the next.
Guarded == {"beat", "notes", "complete", "fail", "give up", "upload", "tts beat", "render beat"}

\* Mutant: the task is dropped in memory only.
Lost_Unsaved ==
    /\ pc \in Guarded /\ ~Holds
    /\ pc = "complete" => ~LandedHere
    /\ Go("claim", Dropped(st)) /\ Local /\ UNCHANGED disk

\* Mutant: any error of the call is taken for a lost claim.
Lost_OnAnyError == pc \in Guarded /\ SaveAndGo("claim", Dropped(st))

Lost ==
    /\ pc \in Guarded /\ ~Holds
    /\ pc = "complete" => ~LandedHere
    /\ SaveAndGo("claim", Dropped(st))

SaveNotes(testable) ==
    /\ pc = "notes" /\ Holds
    /\ Server!Renew(st.task)
    /\ pages' = [pages EXCEPT ![st.task] = IF testable THEN "read" ELSE "unreadable"]
    /\ Go(IF testable THEN "begin" ELSE "complete", st)
    /\ UNCHANGED <<disk, state, ender, stored, faults>>

\* What was kept lands (nothing, if the step was skipped), once.
Complete ==
    /\ pc = "complete" /\ Go("book", st) /\ UNCHANGED <<disk, state, pages, faults>>
    /\ \/ /\ Holds /\ Server!Land(st.task)
          /\ phase'[st.task] = IF st.keep = {} THEN "skipped" ELSE "done"
          /\ ender' = [ender EXCEPT ![st.task] = st.run]
          /\ stored' = [stored EXCEPT ![st.task] = @ \union st.keep]
       \/ LandedHere /\ UNCHANGED <<ledgerVars, ender, stored>>

Fail ==
    /\ pc \in {"fail", "give up"} /\ Holds
    /\ Server!GiveUp(st.task)
    /\ phase'[st.task] = IF pc = "fail" /\ tries[st.task] + 1 < MaxAttempts THEN "waiting" ELSE "failed"
    /\ Go("book", st)
    /\ UNCHANGED <<disk, state, ender, pages, stored, faults>>

\* _done, and the end of fail(): the task leaves the file before the next claim.
Book == pc = "book" /\ SaveAndGo("claim", Dropped(st))

-----------------------------------------------------------------------------
(* _claim_next.                                                                 *)

Claimable(t) == phase[t] \in {"none", "waiting"} \/ (phase[t] = "held" /\ lapsed[t])

Claim(t) ==
    /\ pc = "claim" /\ state[st.run] = "active"
    /\ Server!Give(t, st.run)
    /\ Go("unpack", Claimed(st, t))
    /\ UNCHANGED <<disk, state, ender, pages, stored, faults>>

\* Nothing left, or a cap, or the pipeline is switched off.
ClaimNothing ==
    /\ pc = "claim" /\ state[st.run] = "active"
    /\ Go("finish", st) /\ Local /\ UNCHANGED disk

ClosedByServer ==
    /\ pc = "claim" /\ state[st.run] # "active"
    /\ SaveAndEnd(NoState)

\* The PDF can't be downloaded: retryable, unless the server has no such document.
NoPdf ==
    /\ pc = "unpack"
    /\ \E p \in {"fail", "give up"} : SaveAndGo(p, st)

Unpack ==
    LET s == [st EXCEPT !.paged = TRUE] IN
    /\ pc = "unpack"
    /\ \/ s.seen = "unreadable" /\ SaveAndGo("complete", s)
       \/ s.seen = "read" /\ Go("begin", s) /\ Local /\ UNCHANGED disk
       \/ s.seen = "unread" /\ SaveAndGo("first beat", s)

\* _begin writes its brief from task["pages"]: without them it dies of a KeyError.
Begin ==
    /\ pc = "begin"
    /\ IF st.paged THEN Enter([st EXCEPT !.work = BegunWork], FirstStage, "first beat")
       ELSE End /\ Local /\ UNCHANGED disk

-----------------------------------------------------------------------------
(* Commands every engine has.                                                   *)

Start ==
    /\ pc = "idle"
    /\ Go(IF disk = NoState THEN "start run" ELSE IF disk.task # NoTask THEN "resume" ELSE "close old", disk)
    /\ Local /\ UNCHANGED disk

Resume == pc = "resume" /\ Holds /\ Renews /\ End /\ UNCHANGED disk

\* Refused, or (a fault) not answered: either way the file is archived as stale.
Stale ==
    /\ pc = "resume" /\ disk' = NoState /\ Go("start run", NoState)
    /\ UNCHANGED serverVars
    /\ \/ ~Holds /\ UNCHANGED faults
       \/ faults < MaxFaults /\ faults' = faults + 1

\* One active run per kind; the server may also refuse (switched off, daily cap).
StartRun(r) ==
    /\ pc = "start run" /\ state[r] = "absent"
    /\ \A q \in Runs : state[q] # "active"
    /\ state' = [state EXCEPT ![r] = "active"]
    /\ Go("new run", NewState(r))
    /\ UNCHANGED <<disk, ledgerVars, ender, pages, stored, faults>>

StartRefused == pc = "start run" /\ End /\ Local /\ UNCHANGED disk

NewRun == pc = "new run" /\ SaveAndGo("claim", st)

\* status: a heartbeat for the task in hand; without one it prints itself as NEXT.
Status ==
    /\ pc = "idle" /\ disk.task # NoTask
    /\ Go("beat", disk) /\ Local /\ UNCHANGED disk

SubmitNotes ==
    /\ AtStage("read")
    /\ Go("notes", disk) /\ Local /\ UNCHANGED disk

\* What was handed in for the current step does not pass its checks.
Invalid(stage) ==
    LET s == [disk EXCEPT !.invalid = @ + 1] IN
    /\ AtStage(stage)
    /\ IF s.invalid >= MaxInvalid THEN SaveAndGo("fail", s) ELSE SaveAndEnd(s)

\* The driver gives up on the task, or on the run.
SubmitFail ==
    /\ pc = "idle" /\ disk.task # NoTask
    /\ \E p \in {"fail", "give up"} : Go(p, disk)
    /\ Local /\ UNCHANGED disk

Stop == pc = "idle" /\ disk # NoState /\ Go("finish", disk) /\ Local /\ UNCHANGED disk

\* finish: the run's claims go back; a run that was already closed is left alone.
\* An unreachable server (a fault) is only warned about.
Finish ==
    /\ \/ pc = "finish" /\ Go("archive", st)
       \/ pc = "close old" /\ Go("archive old", st)
    /\ \/ /\ state[st.run] = "active"
          /\ state' = [state EXCEPT ![st.run] = "finished"]
          /\ Server!HandBackAll(st.run)
          /\ UNCHANGED <<ender, pages, stored, faults>>
       \/ state[st.run] # "active" /\ UNCHANGED <<serverVars, faults>>
       \/ faults < MaxFaults /\ faults' = faults + 1 /\ UNCHANGED serverVars
    /\ UNCHANGED disk

Archive ==
    \/ pc = "archive" /\ SaveAndEnd(NoState)
    \/ pc = "archive old" /\ SaveAndGo("start run", NoState)

\* The process is killed, meets an error nothing catches, or gets no answer.
Crash ==
    /\ pc # "idle" /\ faults < MaxFaults
    /\ faults' = faults + 1
    /\ End /\ UNCHANGED <<disk, serverVars>>

Command == Start \/ Status \/ SubmitFail \/ Stop

\* What a command in progress does on its own.
Proceed ==
    \/ Beat \/ FirstBeatLost \/ Lost \/ Complete \/ Fail \/ Book
    \/ \E testable \in BOOLEAN : SaveNotes(testable)
    \/ \E t \in Tasks : Claim(t)
    \/ ClaimNothing \/ ClosedByServer \/ NoPdf \/ Unpack \/ Begin
    \/ Resume \/ Stale \/ \E r \in OwnRuns : StartRun(r)
    \/ StartRefused \/ NewRun \/ Finish \/ Archive

-----------------------------------------------------------------------------
(* What goes on around the engine.                                              *)

Lapse(t) ==
    /\ ~lapsed[t] /\ Server!Lapse(t)
    /\ UNCHANGED <<disk, st, pc, state, ender, pages, stored, faults>>

\* The server closes a run it has not heard from for longer than a lease.  The
\* run of the other machine becomes absent again, so that a later run of that
\* machine can take over in turn.
Swept(r) ==
    /\ state[r] = "active" /\ \A t \in Tasks : owner[t] = r => lapsed[t]
    /\ state' = [state EXCEPT ![r] = IF r = Other THEN "absent" ELSE "finished"]
    /\ Server!HandBackAll(r)
    /\ UNCHANGED <<disk, st, pc, ender, pages, stored, faults>>

\* Another machine takes over the kind and works off a task.
OtherStarts ==
    /\ \A r \in Runs : state[r] # "active"
    /\ state' = [state EXCEPT ![Other] = "active"]
    /\ UNCHANGED <<disk, st, pc, ledgerVars, ender, pages, stored, faults>>

OtherWorks(t) ==
    /\ state[Other] = "active"
    /\ \/ Server!Give(t, Other) /\ UNCHANGED <<ender, stored>>
       \/ /\ owner[t] = Other /\ Server!Land(t)
          /\ ender' = [ender EXCEPT ![t] = Other]
          /\ stored' = [stored EXCEPT ![t] = IF phase'[t] = "done" THEN {"other"} ELSE {}]
    /\ UNCHANGED <<disk, st, pc, state, pages, faults>>

\* The other kind's run reads the same pages first.
OthersRead(t) ==
    /\ pages[t] = "unread"
    /\ pages' = [pages EXCEPT ![t] = "read"]
    /\ UNCHANGED <<disk, st, pc, ledgerVars, state, ender, stored, faults>>

Around ==
    \/ \E t \in Tasks : Lapse(t) \/ OtherWorks(t) \/ OthersRead(t)
    \/ \E r \in Runs : Swept(r)
    \/ OtherStarts

-----------------------------------------------------------------------------
(* Properties of every engine.                                                  *)

\* A run the server still has, if it holds a claim, holds the one task its file
\* names, or (killed between the claim and the save) one its file does not know of:
\* the engine never works on one task while it holds another.
FileNamesTheClaim ==
    \A t \in Tasks : disk.run # NoRun /\ owner[t] = disk.run => disk.task \in {t, NoTask}

\* A run holds one claim at a time, through kills, retries and resumes.
OneClaimPerRun == \A t, u \in Tasks : owner[t] = owner[u] /\ owner[t] \in OwnRuns => t = u

\* Where a killed command leaves no way on: a claim the file does not know of, or
\* a claimed task saved without its pages.
LostItsTask == pc = "idle" /\ disk # NoState /\ (disk.task = NoTask \/ ~disk.paged)
=============================================================================
