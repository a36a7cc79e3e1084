----------------------------- MODULE ReelProofs -----------------------------
(* The reel engine's file and its budgets, for any number of tasks, runs,      *)
(* rounds and faults.                                                          *)
EXTENDS ReelEngine, TLAPS

-----------------------------------------------------------------------------
(* The inductive invariant.  s stands for the file or the copy in memory, p    *)
(* for what the command does next, n for the faults so far.                    *)

Works == [script : 0..ScriptRounds, fix : 0..FixRounds, visual : 0..VisualRounds, attempt : Nat]

Files == [run : OwnRuns \union {NoRun}, task : Tasks \union {NoTask}, stage : Stages, invalid : Nat,
          seen : {"unread", "read", "unreadable"}, paged : BOOLEAN, keep : SUBSET {"reel"}, work : Works]

\* The renders that the rounds counted so far account for, and the one under way or
\* waiting for its review, or whose failure was the last one allowed.
Accounted(w)   == w.visual * (FixRounds + 1) + w.fix
GaveUp(p)       == p \in {"give up", "book"}
Failed(p)       == p \in {"fail", "book"}
Slack(stage, p) == IF stage \in {"render", "visual"} \/ GaveUp(p) THEN 1 ELSE 0

Budgeted(w, stage, p, n) == w.attempt <= Accounted(w) + Slack(stage, p) + n

\* Only a fault keeps the last invalid submission from ending the task.
Within(s, p, n) ==
    /\ s \in Files
    /\ s.invalid <= MaxInvalid + n /\ (~Failed(p) => s.invalid < MaxInvalid + n)
    /\ Budgeted(s.work, s.stage, p, n)

FileFits(f) == f.keep = {} /\ (f.task = NoTask => f = NewState(f.run))

\* Where a command may have no task in hand.
Taskless == {"idle", "start run", "new run", "claim", "finish", "close old", "archive", "archive old"}

\* Narration and rendering know what step they are at.
StageFits(p, stage) ==
    /\ p \in {"tts beat", "record"} => stage = "tts"
    /\ p \in {"render beat", "rendering"} => stage = "render"

StepFits(p, s) ==
    /\ p = "idle" => s = NoState
    /\ p = "new run" => s = NewState(s.run)
    /\ s.keep # {} => p \in {"upload", "complete", "book"}
    /\ s.task = NoTask => p \in Taskless
    /\ StageFits(p, s.stage)

ReelInv ==
    /\ faults \in Nat /\ pages \in [Tasks -> {"unread", "read", "unreadable"}]
    /\ Within(disk, pc, faults) /\ Within(st, pc, faults)
    /\ FileFits(disk) /\ StepFits(pc, st)

-----------------------------------------------------------------------------
(* Files.                                                                      *)

LEMMA Constants ==
  /\ ScriptRounds \in Nat \ {0} /\ FixRounds \in Nat /\ VisualRounds \in Nat /\ MaxInvalid \in Nat \ {0}
  /\ NoTask \notin Tasks
  /\ NewWork = NewReel /\ BegunWork = BegunReel /\ FirstStage = "script"
  BY ReelEngineAssumption, StepEngineAssumption

LEMMA NewWorks ==
  /\ NewReel \in Works /\ BegunReel \in Works /\ Accounted(NewReel) = 0 /\ Accounted(BegunReel) = 0
  /\ NewReel.attempt = 0 /\ BegunReel.attempt = 0
<1>1. BegunReel = [script |-> 1, fix |-> 0, visual |-> 0, attempt |-> 0]
  BY DEF BegunReel, NewReel
<1>2. NewReel \in Works /\ BegunReel \in Works
  BY <1>1, Constants DEF NewReel, Works
<1>3. 0 * (FixRounds + 1) + 0 = 0
  BY Constants
<1> QED
  BY <1>1, <1>2, <1>3 DEF NewReel, Accounted

\* A file without progress fits anywhere.
LEMMA FreshFile ==
  ASSUME NEW s \in Files, s.work = NewReel, s.invalid = 0, NEW p, NEW n \in Nat
  PROVE  Within(s, p, n)
<1>1. Accounted(s.work) = 0 /\ s.work.attempt = 0
  BY NewWorks
<1>2. Slack(s.stage, p) \in {0, 1}
  BY DEF Slack
<1> QED
  BY <1>1, <1>2, Constants DEF Within, Budgeted

LEMMA EmptyRecord ==
  /\ NoState \in Files /\ NoState.run = NoRun /\ NoState.task = NoTask /\ NoState.stage = "none"
  /\ NoState.invalid = 0 /\ NoState.seen = "unread" /\ NoState.paged = FALSE
  /\ NoState.keep = {} /\ NoState.work = NewReel
<1>1. NewWork = NewReel /\ NewReel \in Works
  BY Constants, NewWorks
<1>2. /\ NoState.run = NoRun /\ NoState.task = NoTask /\ NoState.stage = "none"
      /\ NoState.invalid = 0 /\ NoState.seen = "unread" /\ NoState.paged = FALSE
      /\ NoState.keep = {} /\ NoState.work = NewReel
  BY <1>1 DEF NoState
<1>3. NoState \in Files
  BY <1>1 DEF NoState, Files, Stages
<1> QED
  BY <1>2, <1>3

LEMMA NewFile ==
  ASSUME NEW r \in OwnRuns \union {NoRun}, NEW p, NEW n \in Nat
  PROVE  /\ Within(NewState(r), p, n) /\ FileFits(NewState(r))
         /\ NewState(r).run = r /\ NewState(r).task = NoTask /\ NewState(r).keep = {}
<1>1. NewState(r) \in Files
  BY EmptyRecord DEF NewState, Files
<1>2. /\ NewState(r).run = r /\ NewState(r).task = NoTask /\ NewState(r).keep = {}
      /\ NewState(r).invalid = 0 /\ NewState(r).work = NewReel
  BY EmptyRecord DEF NewState, Files
<1> QED
  BY <1>1, <1>2, FreshFile DEF FileFits

LEMMA EmptyFile ==
  ASSUME NEW p, NEW n \in Nat
  PROVE  Within(NoState, p, n) /\ FileFits(NoState)
<1>1. NewState(NoRun) = NoState
  BY EmptyRecord DEF NewState, Files
<1> QED
  BY <1>1, NewFile

LEMMA ClaimedFile ==
  ASSUME NEW s \in Files, NEW t \in Tasks, pages \in [Tasks -> {"unread", "read", "unreadable"}],
         NEW p, NEW n \in Nat
  PROVE  Within(Claimed(s, t), p, n) /\ Claimed(s, t).task = t /\ Claimed(s, t).keep = {}
<1>1. s.run \in OwnRuns \union {NoRun} /\ pages[t] \in {"unread", "read", "unreadable"} /\ "read" \in Stages
  BY DEF Files, Stages
<1>2. Claimed(s, t) \in Files
  BY <1>1, EmptyRecord DEF Claimed, Files
<1>3. Claimed(s, t).task = t /\ Claimed(s, t).keep = {} /\ Claimed(s, t).invalid = 0 /\ Claimed(s, t).work = NewReel
  BY EmptyRecord DEF Claimed, Files
<1> QED
  BY <1>2, <1>3, FreshFile

LEMMA DroppedFile ==
  ASSUME NEW s \in Files PROVE Dropped(s) = NewState(s.run) /\ s.run \in OwnRuns \union {NoRun}
  BY DEF Dropped, NewState, Files

\* A file at a step goes on being one when the step alone changes.
LEMMA SameWork ==
  ASSUME NEW s \in Files, NEW stage \in Stages, NEW p, NEW n \in Nat,
         Budgeted(s.work, stage, p, n), NEW e, e = [s EXCEPT !.stage = stage, !.invalid = 0]
  PROVE  Within(e, p, n) /\ e.task = s.task /\ e.keep = s.keep
<1>1. e \in Files
  BY DEF Files
<1>2. e.invalid = 0 /\ e.work = s.work /\ e.stage = stage /\ e.task = s.task /\ e.keep = s.keep
  BY DEF Files
<1>3. e.invalid <= MaxInvalid + n /\ e.invalid < MaxInvalid + n
  BY <1>2, Constants
<1> QED
  BY <1>1, <1>2, <1>3 DEF Within

\* What the counters may be, and what a fix and a round change.
LEMMA Sums ==
  ASSUME NEW w \in Works
  PROVE  /\ Accounted(w) \in Nat
         /\ \A v \in Works : v.visual = w.visual => Accounted(v) = Accounted(w) - w.fix + v.fix
         /\ \A v \in Works : v.visual = w.visual + 1 /\ v.fix = 0 => Accounted(v) = Accounted(w) - w.fix + FixRounds + 1
         /\ Accounted(w) <= VisualRounds * (FixRounds + 1) + FixRounds
<1> DEFINE one == FixRounds + 1
<1>1. \A v \in Works : v.visual \in 0..VisualRounds /\ v.fix \in 0..FixRounds
  BY DEF Works
<1>2. one \in Nat /\ VisualRounds \in Nat /\ FixRounds \in Nat
  BY Constants
<1>3. \A x : Accounted(x) = x.visual * one + x.fix
  BY DEF Accounted
<1>4. one = FixRounds + 1
  OBVIOUS
<1> HIDE DEF one
<1>5. \A a, b, c \in Nat : a <= b => a * c \in Nat /\ b * c \in Nat /\ a * c <= b * c /\ (a + 1) * c = a * c + c
  OBVIOUS
<1>6. /\ w.visual * one \in Nat /\ w.visual * one <= VisualRounds * one /\ VisualRounds * one \in Nat
      /\ (w.visual + 1) * one = w.visual * one + one
  BY <1>1, <1>2, <1>5
<1>7. Accounted(w) \in Nat /\ Accounted(w) <= VisualRounds * one + FixRounds
  BY <1>1, <1>2, <1>3, <1>6
<1>8. ASSUME NEW v \in Works, v.visual = w.visual PROVE Accounted(v) = Accounted(w) - w.fix + v.fix
  BY <1>1, <1>3, <1>6, <1>8
<1>9. ASSUME NEW v \in Works, v.visual = w.visual + 1, v.fix = 0
      PROVE  Accounted(v) = Accounted(w) - w.fix + FixRounds + 1
  BY <1>1, <1>2, <1>3, <1>4, <1>6, <1>9
<1> QED
  BY <1>4, <1>7, <1>8, <1>9
-----------------------------------------------------------------------------
(* Steps.                                                                      *)

LEMMA InvFacts ==
  ASSUME ReelInv
  PROVE  /\ disk \in Files /\ st \in Files /\ faults \in Nat
         /\ Within(disk, pc, faults) /\ Within(st, pc, faults) /\ FileFits(disk) /\ StepFits(pc, st)
  BY DEF ReelInv, Within

LEMMA Slacks == \A stage, p : Slack(stage, p) \in Nat /\ Slack(stage, p) <= 1
  BY DEF Slack

LEMMA MoreSlack ==
  ASSUME NEW w \in Works, NEW v \in Works, NEW stage, NEW p, NEW n \in Nat, Budgeted(w, stage, p, n),
         NEW next, NEW q, NEW m \in Nat,
         v.attempt + Accounted(w) + Slack(stage, p) + n <= w.attempt + Accounted(v) + Slack(next, q) + m
  PROVE  Budgeted(v, next, q, m)
<1>1. w.attempt \in Nat /\ v.attempt \in Nat /\ Accounted(w) \in Nat /\ Accounted(v) \in Nat
  BY Sums DEF Works
<1>2. w.attempt <= Accounted(w) + Slack(stage, p) + n
  BY DEF Budgeted
<1> QED
  BY <1>1, <1>2, Slacks DEF Budgeted

LEMMA SlackGrows ==
  ASSUME NEW stage, NEW p, NEW q, GaveUp(p) => GaveUp(q)
  PROVE  Slack(stage, p) <= Slack(stage, q)
<1>1. CASE stage \in {"render", "visual"} \/ GaveUp(q)
  BY <1>1, Slacks DEF Slack
<1>2. CASE ~(stage \in {"render", "visual"} \/ GaveUp(q))
  <2>1. Slack(stage, p) = 0
    BY <1>2 DEF Slack
  <2> QED
    BY <2>1, Slacks
<1> QED
  BY <1>1, <1>2

LEMMA WithinFacts ==
  ASSUME NEW s, NEW p, NEW n \in Nat, Within(s, p, n)
  PROVE  /\ s \in Files /\ s.work \in Works /\ s.work.attempt \in Nat /\ s.invalid \in Nat
         /\ Budgeted(s.work, s.stage, p, n)
  BY DEF Within, Files, Works

\* A file that is kept while the command goes on.
LEMMA StaysWithin ==
  ASSUME NEW s, NEW p, NEW q, NEW n \in Nat, Within(s, p, n),
         Failed(p) => Failed(q),
         GaveUp(p) => GaveUp(q)
  PROVE  Within(s, q, n)
<1>1. Slack(s.stage, p) <= Slack(s.stage, q)
  BY SlackGrows
<1>2. Budgeted(s.work, s.stage, q, n)
  BY <1>1, WithinFacts, MoreSlack, Slacks, Sums
<1> QED
  BY <1>2 DEF Within

\* A fault allows one more of everything.
LEMMA FaultWithin ==
  ASSUME NEW s, NEW p, NEW q, NEW n \in Nat, Within(s, p, n)
  PROVE  Within(s, q, n + 1)
<1>1. Budgeted(s.work, s.stage, q, n + 1)
  BY WithinFacts, MoreSlack, Slacks, Sums
<1>2. s.invalid < MaxInvalid + (n + 1) /\ s.invalid <= MaxInvalid + (n + 1)
  BY WithinFacts, Constants DEF Within
<1> QED
  BY <1>1, <1>2, WithinFacts DEF Within

\* A save of the copy, which goes on.
LEMMA Saves ==
  ASSUME ReelInv, NEW q, q \notin {"idle", "new run"}, NEW s, Within(s, q, faults), s.keep = {},
         s.task # NoTask, StageFits(q, s.stage), pc' = q, st' = s, disk' = s, UNCHANGED <<pages, faults>>
  PROVE  ReelInv'
  BY DEF ReelInv, FileFits, StepFits

\* A save at the end of a command, or after a task.
LEMMA SavesFresh ==
  ASSUME ReelInv, NEW q \in Taskless \ {"new run"}, NEW r \in OwnRuns \union {NoRun}, disk' = NewState(r), pc' = q,
         (st' = NewState(r) /\ q # "idle") \/ st' = NoState, UNCHANGED pages, faults' \in Nat
  PROVE  ReelInv'
<1>1. Within(NoState, q, faults') /\ NoState.task = NoTask /\ NoState.keep = {}
  BY EmptyFile, EmptyRecord
<1>2. /\ Within(NewState(r), q, faults') /\ FileFits(NewState(r))
      /\ NewState(r).task = NoTask /\ NewState(r).keep = {}
  BY NewFile
<1>3. StepFits(q, st')
  BY <1>1, <1>2 DEF StepFits, StageFits, Taskless
<1> QED
  BY <1>1, <1>2, <1>3 DEF ReelInv

\* The file stays as it is.
LEMMA GoesOn ==
  ASSUME ReelInv, NEW q, NEW s, Within(s, q, faults), StepFits(q, s), pc' = q, st' = s, UNCHANGED disk,
         pages' \in [Tasks -> {"unread", "read", "unreadable"}], UNCHANGED faults,
         Failed(pc) => Failed(q),
         GaveUp(pc) => GaveUp(q)
  PROVE  ReelInv'
  BY StaysWithin DEF ReelInv

Seen == {"unread", "read", "unreadable"}

\* The command ends without a save.
LEMMA Ends ==
  ASSUME ReelInv, End, UNCHANGED <<disk, pages, faults>>, ~Failed(pc), ~GaveUp(pc)
  PROVE  ReelInv'
<1>1. Within(NoState, "idle", faults) /\ StepFits("idle", NoState)
  BY EmptyFile, EmptyRecord, InvFacts DEF StepFits, StageFits, Taskless
<1> QED
  BY <1>1, GoesOn DEF ReelInv, End

\* It goes on with the copy it has.
LEMMA Continues ==
  ASSUME ReelInv, NEW q, q \notin {"idle", "new run"}, pc' = q, st' = st, UNCHANGED <<disk, faults>>,
         pages' \in [Tasks -> Seen], Failed(pc) => Failed(q), GaveUp(pc) => GaveUp(q),
         st.keep = {} \/ q \in {"upload", "complete", "book"}, st.task # NoTask \/ q \in Taskless,
         StageFits(q, st.stage)
  PROVE  ReelInv'
<1>1. Within(st, q, faults)
  BY InvFacts, StaysWithin
<1>2. StepFits(q, st)
  BY DEF StepFits
<1> QED
  BY <1>1, <1>2, GoesOn DEF Seen

\* It takes up the file.
LEMMA TakesFile ==
  ASSUME ReelInv, pc = "idle", NEW q, q \notin {"idle", "new run"}, Go(q, disk), Local, UNCHANGED disk,
         disk.task # NoTask \/ q \in Taskless, StageFits(q, disk.stage)
  PROVE  ReelInv'
<1>1. ~Failed(pc) /\ ~GaveUp(pc)
  BY DEF Failed, GaveUp
<1>2. Within(disk, q, faults)
  BY <1>1, InvFacts, StaysWithin
<1>3. StepFits(q, disk)
  BY InvFacts DEF StepFits, FileFits
<1>4. pages' = pages /\ faults' = faults
  BY DEF Local, serverVars
<1> QED
  BY <1>1, <1>2, <1>3, <1>4, GoesOn DEF ReelInv, Go

LEMMA Sections ==
  /\ \A p \in {"idle", "beat", "first beat", "notes", "begin", "complete", "upload", "tts beat", "render beat", "record",
               "rendering", "claim", "unpack", "resume", "start run", "new run", "finish", "close old",
               "archive", "archive old"} : ~Failed(p) /\ ~GaveUp(p)
  /\ Failed("book") /\ GaveUp("book") /\ Failed("fail") /\ GaveUp("give up") /\ ~GaveUp("fail") /\ ~Failed("give up")
  BY DEF Failed, GaveUp

LEMMA Anywhere ==
  \A stage : /\ StageFits("beat", stage) /\ StageFits("first beat", stage) /\ StageFits("begin", stage)
             /\ StageFits("complete", stage) /\ StageFits("book", stage) /\ StageFits("finish", stage)
             /\ StageFits("notes", stage) /\ StageFits("fail", stage) /\ StageFits("give up", stage)
             /\ StageFits("resume", stage) /\ StageFits("start run", stage) /\ StageFits("close old", stage)
             /\ StageFits("upload", stage) /\ StageFits("archive", stage) /\ StageFits("archive old", stage)
             /\ StageFits("unpack", stage) /\ StageFits("new run", stage)
  BY DEF StageFits

LEMMA QuietActions ==
  ASSUME ReelInv,
         \/ Beat \/ FirstBeatLost \/ Resume \/ StartRefused \/ (\E testable \in BOOLEAN : SaveNotes(testable))
         \/ Complete \/ Fail \/ LongBeat \/ Upload \/ ClaimNothing
  PROVE  ReelInv'
<1> USE DEF Local, serverVars, Renews
<1>0. pages \in [Tasks -> Seen]
  BY DEF ReelInv, Seen
<1>1. CASE Beat \/ FirstBeatLost \/ Resume \/ StartRefused
  <2>1. ~Failed(pc) /\ ~GaveUp(pc)
    BY <1>1, Sections DEF Beat, FirstBeatLost, Resume, StartRefused
  <2> QED
    BY <1>1, <2>1, Ends DEF Beat, FirstBeatLost, Resume, StartRefused
<1>2. ASSUME NEW testable \in BOOLEAN, SaveNotes(testable) PROVE ReelInv'
  <2>1. pc = "notes" /\ st.keep = {} /\ st.task # NoTask /\ ~Failed(pc) /\ ~GaveUp(pc)
    BY <1>2, InvFacts, Sections DEF SaveNotes, StepFits, Taskless
  <2>2. PICK q \in {"begin", "complete"} : pc' = q /\ st' = st
    BY <1>2 DEF SaveNotes, Go
  <2>3. pages' \in [Tasks -> Seen] /\ UNCHANGED <<disk, faults>>
    BY <1>0, <1>2 DEF SaveNotes, Seen
  <2> QED
    BY <2>1, <2>2, <2>3, Continues, Anywhere
<1>3. CASE Complete
  <2>1. st.task # NoTask
    BY <1>3, InvFacts DEF Complete, StepFits, Taskless
  <2> QED
    BY <1>0, <1>3, <2>1, Continues, Sections, Anywhere DEF Complete, Go
<1>4. CASE Fail
  <2>1. st.task # NoTask
    BY <1>4, InvFacts DEF Fail, StepFits, Taskless
  <2> QED
    BY <1>0, <1>4, <2>1, Continues, Sections, Anywhere DEF Fail, Go
<1>5. CASE LongBeat
  <2>1. st.keep = {} /\ st.task # NoTask /\ ~Failed(pc) /\ ~GaveUp(pc)
    BY <1>5, InvFacts, Sections DEF LongBeat, StepFits, Taskless
  <2>2. PICK q \in {"record", "rendering"} : pc' = q /\ st' = st /\ StageFits(q, st.stage)
    BY <1>5, InvFacts DEF LongBeat, Go, StepFits, StageFits
  <2>3. pages' = pages /\ UNCHANGED <<disk, faults>>
    BY <1>5 DEF LongBeat
  <2> QED
    BY <1>0, <2>1, <2>2, <2>3, Continues
<1>6. CASE Upload
  <2>1. pc = "upload" /\ pc' = "complete" /\ st' = st /\ pages' = pages /\ UNCHANGED <<disk, faults>>
    BY <1>6 DEF Upload, Go
  <2>2. st.task # NoTask
    BY <2>1, InvFacts DEF StepFits, Taskless
  <2>3. ~Failed(pc) /\ ~GaveUp(pc)
    BY <2>1, Sections
  <2>4. pages' \in [Tasks -> Seen]
    BY <1>0, <2>1
  <2>5. "complete" \notin {"idle", "new run"} /\ "complete" \in {"upload", "complete", "book"}
    OBVIOUS
  <2> QED
    BY <2>1, <2>2, <2>3, <2>4, <2>5, Continues, Anywhere
<1>7. CASE ClaimNothing
  <2>1. st.keep = {} /\ "finish" \in Taskless
    BY <1>7, InvFacts DEF ClaimNothing, StepFits, Taskless
  <2> QED
    BY <1>0, <1>7, <2>1, Continues, Sections, Anywhere DEF ClaimNothing, Go
<1> QED
  BY <1>1, <1>2, <1>3, <1>4, <1>5, <1>6, <1>7

-----------------------------------------------------------------------------
(* Saves.                                                                      *)

\* Enter, as the commands use it.
LEMMA Enters ==
  ASSUME ReelInv, NEW s \in Files, s.keep = {}, s.task # NoTask, NEW stage \in Stages, NEW q,
         q \notin {"idle", "new run"}, Budgeted(s.work, stage, q, faults), StageFits(q, stage), Enter(s, stage, q)
  PROVE  ReelInv'
<1> DEFINE e == [s EXCEPT !.stage = stage, !.invalid = 0]
<1>1. Within(e, q, faults) /\ e.task = s.task /\ e.keep = s.keep
  BY InvFacts, SameWork
<1>3. e.stage = stage
  BY DEF Files
<1>2. pc' = q /\ st' = e /\ disk' = e /\ UNCHANGED <<pages, faults>>
  BY DEF Enter, SaveAndGo, Go, Local, serverVars
<1> HIDE DEF e
<1> QED
  BY <1>1, <1>2, <1>3, Saves

\* A task goes back to the server, or is done with.
LEMMA DropActions ==
  ASSUME ReelInv, Book \/ Lost \/ ClosedByServer \/ Archive \/ Stale \/ NewRun
  PROVE  ReelInv'
<1> USE DEF Local, serverVars, SaveAndGo, SaveAndEnd, End, Go
<1>0. NoState = NewState(NoRun) /\ NoRun \in OwnRuns \union {NoRun} /\ faults \in Nat
  BY EmptyRecord DEF NewState, Files, ReelInv
<1>1. CASE Book \/ Lost
  <2>1. Dropped(st) = NewState(st.run) /\ st.run \in OwnRuns \union {NoRun}
    BY InvFacts, DroppedFile
  <2>2. "claim" \in Taskless \ {"new run"} /\ "claim" # "idle"
    BY DEF Taskless
  <2>3. disk' = Dropped(st) /\ pc' = "claim" /\ st' = Dropped(st) /\ UNCHANGED <<pages, faults>>
    BY <1>1 DEF Book, Lost
  <2> QED
    BY <1>0, <2>1, <2>2, <2>3, SavesFresh
<1>2. CASE ClosedByServer \/ Archive \/ Stale
  <2>4. faults' \in Nat
    <3>1. faults' = faults \/ faults' = faults + 1
      BY <1>2 DEF ClosedByServer, Archive, Stale
    <3>2. faults \in Nat
      BY InvFacts
    <3> QED
      BY <3>1, <3>2
  <2>1. PICK q \in {"idle", "start run"} : disk' = NoState /\ pc' = q /\ st' = NoState
    BY <1>2 DEF ClosedByServer, Archive, Stale
  <2>2. UNCHANGED pages
    BY <1>2 DEF ClosedByServer, Archive, Stale
  <2>3. q \in Taskless \ {"new run"}
    BY DEF Taskless
  <2> QED
    BY <1>0, <2>1, <2>2, <2>3, <2>4, SavesFresh
<1>3. CASE NewRun
  <2>1. st = NewState(st.run) /\ st.run \in OwnRuns \union {NoRun}
    BY <1>3, InvFacts DEF NewRun, StepFits, Files
  <2>2. disk' = st /\ pc' = "claim" /\ st' = st /\ UNCHANGED <<pages, faults>>
    BY <1>3 DEF NewRun
  <2>3. "claim" \in Taskless \ {"new run"} /\ "claim" # "idle"
    BY DEF Taskless
  <2> QED
    BY <1>0, <2>1, <2>2, <2>3, SavesFresh
<1> QED
  BY <1>1, <1>2, <1>3

\* The file as a command finds it.
LEMMA AtWork ==
  ASSUME ReelInv, NEW stage, AtStage(stage)
  PROVE  /\ pc = "idle" /\ disk.task # NoTask /\ disk.keep = {} /\ disk \in Files /\ disk.work \in Works
         /\ disk.stage = stage /\ Budgeted(disk.work, stage, "idle", faults) /\ disk.work.attempt \in Nat
  BY InvFacts, WithinFacts DEF AtStage, FileFits

\* A step that renders nothing leaves the budget as it is.
LEMMA SameBudget ==
  ASSUME NEW w \in Works, NEW v \in Works, NEW stage, NEW next, NEW p, NEW q, NEW n \in Nat, Budgeted(w, stage, p, n),
         v.attempt = w.attempt, v.visual = w.visual, v.fix = w.fix, Slack(stage, p) = 0
  PROVE  Budgeted(v, next, q, n)
<1>2. Accounted(v) = Accounted(w)
  BY DEF Accounted
<1> QED
  BY <1>2, MoreSlack, Slacks, Sums DEF Works

LEMMA Rests ==
  /\ Slack("script", "idle") = 0 /\ Slack("script_review", "idle") = 0 /\ Slack("scene", "idle") = 0
  /\ \A stage : Slack(stage, "give up") = 1 /\ Slack("render", stage) = 1 /\ Slack("visual", stage) = 1
  BY DEF Slack, GaveUp

LEMMA GivesUp ==
  ASSUME ReelInv, pc = "idle", disk.task # NoTask, GiveUpFromFile
  PROVE  ReelInv'
  BY TakesFile, Anywhere DEF GiveUpFromFile

LEMMA ScriptActions ==
  ASSUME ReelInv, SubmitScript \/ \E passed \in BOOLEAN : ReviewScript(passed)
  PROVE  ReelInv'
<1>1. CASE SubmitScript
  <2>1. AtStage("script") /\ Enter(disk, "script_review", "beat") /\ "script_review" \in Stages
    BY <1>1 DEF SubmitScript, Stages
  <2>3. Budgeted(disk.work, "script_review", "beat", faults)
    BY <2>1, AtWork, InvFacts, SameBudget, Rests
  <2> QED
    BY <2>1, <2>3, AtWork, Enters, Anywhere
<1>2. ASSUME NEW passed \in BOOLEAN, ReviewScript(passed) PROVE ReelInv'
  <2> DEFINE w == disk.work
             v == [w EXCEPT !.script = @ + 1]
  <2>0. AtStage("script_review")
    BY <1>2 DEF ReviewScript
  <2>1. CASE passed
    <3>1. Enter(disk, "tts", "tts beat") /\ "tts" \in Stages
      BY <1>2, <2>1 DEF ReviewScript, Stages
    <3>3. Budgeted(disk.work, "tts", "tts beat", faults)
      BY <2>0, AtWork, InvFacts, SameBudget, Rests
    <3> QED
      BY <2>0, <3>1, <3>3, AtWork, Enters DEF StageFits
  <2>2. CASE ~passed /\ w.script >= ScriptRounds
    BY <1>2, <2>0, <2>2, GivesUp, AtWork DEF ReviewScript
  <2>3. CASE ~passed /\ ~(w.script >= ScriptRounds)
    <3>1. Enter(With(disk, v), "script", "beat") /\ "script" \in Stages
      BY <1>2, <2>3 DEF ReviewScript, Stages
    <3>2. v \in Works /\ v.attempt = w.attempt /\ v.visual = w.visual /\ v.fix = w.fix
      BY <2>0, <2>3, AtWork, Constants DEF Works
    <3> HIDE DEF v
    <3>5. Budgeted(v, "script", "beat", faults)
      BY <2>0, <3>2, AtWork, InvFacts, SameBudget, Rests
    <3>6. With(disk, v) \in Files /\ With(disk, v).keep = {} /\ With(disk, v).task # NoTask /\ With(disk, v).work = v
      BY <2>0, <3>2, AtWork DEF With, Files
    <3>7. "beat" \notin {"idle", "new run"}
      OBVIOUS
    <3> QED
      BY <3>1, <3>5, <3>6, <3>7, Enters, Anywhere
  <2> QED
    BY <2>1, <2>2, <2>3
<1> QED
  BY <1>1, <1>2

LEMMA Counters ==
  ASSUME NEW w \in Works
  PROVE  /\ w.script \in 0..ScriptRounds /\ w.fix \in 0..FixRounds /\ w.visual \in 0..VisualRounds
         /\ w.attempt \in Nat /\ w.fix \in Nat /\ w.visual \in Nat
<1>1. \A n : 0..n \subseteq Nat
  OBVIOUS
<1> QED
  BY <1>1 DEF Works

LEMMA FixedWork ==
  ASSUME NEW w \in Works, NEW v, v = [w EXCEPT !.fix = @ + 1], ~(v.fix > FixRounds)
  PROVE  v \in Works /\ v.attempt = w.attempt /\ v.visual = w.visual /\ v.fix = w.fix + 1
<1>1. v = [script |-> w.script, fix |-> w.fix + 1, visual |-> w.visual, attempt |-> w.attempt]
  BY DEF Works
<1>3. ~(w.fix + 1 > FixRounds)
  BY <1>1
<1>2. w.fix + 1 \in 0..FixRounds
  BY <1>3, Counters, Constants
<1> QED
  BY <1>1, <1>2, Counters DEF Works

LEMMA RevisedWork ==
  ASSUME NEW w \in Works, NEW v, v = [w EXCEPT !.visual = @ + 1, !.fix = 0], ~(w.visual >= VisualRounds)
  PROVE  v \in Works /\ v.attempt = w.attempt /\ v.visual = w.visual + 1 /\ v.fix = 0
<1>1. v = [script |-> w.script, fix |-> 0, visual |-> w.visual + 1, attempt |-> w.attempt]
  BY DEF Works
<1>2. w.visual + 1 \in 0..VisualRounds /\ 0 \in 0..FixRounds
  BY Counters, Constants
<1> QED
  BY <1>1, <1>2, Counters DEF Works

LEMMA FixAccounts ==
  ASSUME NEW w \in Works, NEW v \in Works, v.attempt = w.attempt, v.visual = w.visual, v.fix = w.fix + 1,
         NEW n \in Nat, w.attempt <= Accounted(w) + 1 + n, NEW stage, NEW p
  PROVE  Budgeted(v, stage, p, n)
<1>1. Accounted(w) \in Nat /\ Accounted(v) = Accounted(w) + 1
  BY Sums, Counters
<1> QED
  BY <1>1, Slacks, Counters DEF Budgeted

\* Another fix accounts for the render it follows.
LEMMA FixesScene ==
  ASSUME ReelInv, NEW s \in Files, s.keep = {}, s.task # NoTask, s.work.attempt <= Accounted(s.work) + 1 + faults,
         NEW saved, Within(saved, "give up", faults), saved.keep = {}, saved.task # NoTask, Fixable(s, saved)
  PROVE  ReelInv'
<1> DEFINE w == s.work
           v == [w EXCEPT !.fix = @ + 1]
<1>1. CASE v.fix > FixRounds
  <2>1. SaveAndGo("give up", saved)
    BY <1>1 DEF Fixable, With, Files
  <2> QED
    BY <2>1, Saves, Anywhere DEF SaveAndGo, Go, Local, serverVars
<1>2. CASE ~(v.fix > FixRounds)
  <2>1. Enter(With(s, v), "scene", "beat") /\ "scene" \in Stages /\ "beat" \notin {"idle", "new run"}
    BY <1>2 DEF Fixable, With, Files, Stages
  <2>0. w \in Works
    BY DEF Files
  <2>2. faults \in Nat
    BY InvFacts
  <2>3. v \in Works /\ v.attempt = w.attempt /\ v.visual = w.visual /\ v.fix = w.fix + 1
    BY <1>2, <2>0, FixedWork
  <2> HIDE DEF v
  <2>4. With(s, v) \in Files /\ With(s, v).keep = {} /\ With(s, v).task # NoTask /\ With(s, v).work = v
    BY <2>3 DEF With, Files
  <2>7. Budgeted(v, "scene", "beat", faults)
    BY <2>0, <2>2, <2>3, FixAccounts
  <2> QED
    BY <2>1, <2>4, <2>7, Enters, Anywhere
<1> QED
  BY <1>1, <1>2

LEMMA RecordAction ==
  ASSUME ReelInv, Record
  PROVE  ReelInv'
<1>1. pc = "record" /\ Enter(st, "scene", "beat") /\ "scene" \in Stages /\ "beat" \notin {"idle", "new run"}
  BY DEF Record, Stages
<1>2. st \in Files /\ st.work \in Works /\ Budgeted(st.work, st.stage, "record", faults) /\ faults \in Nat
  BY <1>1, InvFacts, WithinFacts
<1>3. st.keep = {} /\ st.task # NoTask /\ st.stage = "tts"
  BY <1>1, InvFacts DEF StepFits, StageFits, Taskless
<1>4. Slack("tts", "record") = 0
  BY DEF Slack, GaveUp
<1>5. Budgeted(st.work, "scene", "beat", faults)
  BY <1>2, <1>3, <1>4, SameBudget
<1> QED
  BY <1>1, <1>2, <1>3, <1>5, Enters, Anywhere

LEMMA RenderAction ==
  ASSUME ReelInv, NEW clean \in BOOLEAN, Render(clean)
  PROVE  ReelInv'
<1> DEFINE w == disk.work
           v == [w EXCEPT !.attempt = @ + 1]
<1>1. AtStage("scene") /\ IF clean THEN Enter(With(disk, v), "render", "render beat") ELSE Fixable(With(disk, v), disk)
  BY DEF Render
<1>2. /\ pc = "idle" /\ disk.task # NoTask /\ disk.keep = {} /\ disk \in Files /\ w \in Works /\ w.attempt \in Nat
      /\ Budgeted(w, "scene", "idle", faults) /\ faults \in Nat /\ Within(disk, "idle", faults)
  BY <1>1, AtWork, InvFacts
<1>3. v \in Works /\ v.attempt = w.attempt + 1 /\ v.visual = w.visual /\ v.fix = w.fix
  BY <1>2 DEF Works
<1> HIDE DEF v
<1>4. With(disk, v) \in Files /\ With(disk, v).keep = {} /\ With(disk, v).task # NoTask /\ With(disk, v).work = v
  BY <1>2, <1>3 DEF With, Files
<1>5. Accounted(v) = Accounted(w) /\ Accounted(w) \in Nat
  BY <1>2, <1>3, Sums DEF Accounted
<1>6. w.attempt <= Accounted(w) + 0 + faults
  BY <1>2, Rests DEF Budgeted
<1>7. v.attempt <= Accounted(v) + 1 + faults
  BY <1>2, <1>3, <1>5, <1>6
<1>8. CASE clean
  <2>1. Enter(With(disk, v), "render", "render beat") /\ "render" \in Stages /\ "render beat" \notin {"idle", "new run"}
    BY <1>1, <1>8 DEF Stages
  <2>2. Budgeted(v, "render", "render beat", faults)
    BY <1>7, Rests DEF Budgeted
  <2>3. StageFits("render beat", "render")
    BY DEF StageFits
  <2> QED
    BY <1>4, <2>1, <2>2, <2>3, Enters
<1>9. CASE ~clean
  <2>1. Fixable(With(disk, v), disk)
    BY <1>1, <1>9
  <2>2. Within(disk, "give up", faults)
    BY <1>2, Sections, StaysWithin
  <2> QED
    BY <1>2, <1>4, <1>7, <2>1, <2>2, FixesScene
<1> QED
  BY <1>8, <1>9

LEMMA RenderedAction ==
  ASSUME ReelInv, NEW ok \in BOOLEAN, Rendered(ok)
  PROVE  ReelInv'
<1> DEFINE s == [st EXCEPT !.stage = "scene"]
<1>1. pc = "rendering" /\ IF ok THEN Enter(s, "visual", "beat") ELSE Fixable(s, s)
  BY DEF Rendered
<1>2. /\ st \in Files /\ st.work \in Works /\ st.work.attempt \in Nat /\ faults \in Nat
      /\ Budgeted(st.work, st.stage, "rendering", faults) /\ Within(st, "rendering", faults)
  BY <1>1, InvFacts, WithinFacts
<1>3. st.keep = {} /\ st.task # NoTask /\ st.stage = "render"
  BY <1>1, InvFacts DEF StepFits, StageFits, Taskless
<1>4. /\ s \in Files /\ s.keep = {} /\ s.task # NoTask /\ s.work = st.work /\ s.stage = "scene"
      /\ s.invalid = st.invalid
  BY <1>2, <1>3 DEF Files, Stages
<1> HIDE DEF s
<1>5. s.work.attempt <= Accounted(s.work) + 1 + faults
  BY <1>2, <1>3, <1>4, Rests DEF Budgeted
<1>6. CASE ok
  <2>1. Enter(s, "visual", "beat") /\ "visual" \in Stages /\ "beat" \notin {"idle", "new run"}
    BY <1>1, <1>6 DEF Stages
  <2>2. Budgeted(s.work, "visual", "beat", faults)
    BY <1>5, Rests DEF Budgeted
  <2> QED
    BY <1>4, <2>1, <2>2, Enters, Anywhere
<1>7. CASE ~ok
  <2>1. Fixable(s, s)
    BY <1>1, <1>7
  <2>2. Budgeted(s.work, s.stage, "give up", faults)
    BY <1>5, Rests DEF Budgeted
  <2>3. s.invalid <= MaxInvalid + faults /\ s.invalid < MaxInvalid + faults
    BY <1>2, <1>4, Sections DEF Within
  <2>4. Within(s, "give up", faults)
    BY <1>4, <2>2, <2>3 DEF Within
  <2> QED
    BY <1>4, <1>5, <2>1, <2>4, FixesScene
<1> QED
  BY <1>6, <1>7

LEMMA ReviewVisualAction ==
  ASSUME ReelInv, NEW passed \in BOOLEAN, ReviewVisual(passed)
  PROVE  ReelInv'
<1> DEFINE w == disk.work
           v == [w EXCEPT !.visual = @ + 1, !.fix = 0]
<1>1. AtStage("visual")
  BY DEF ReviewVisual
<1>2. /\ pc = "idle" /\ disk.task # NoTask /\ disk.keep = {} /\ disk \in Files /\ w \in Works /\ w.attempt \in Nat
      /\ Budgeted(w, "visual", "idle", faults) /\ faults \in Nat /\ Within(disk, "idle", faults)
  BY <1>1, AtWork, InvFacts
<1>3. CASE passed
  <2> DEFINE s == [disk EXCEPT !.keep = {"reel"}]
  <2>1. Go("upload", s) /\ Local /\ UNCHANGED disk
    BY <1>3 DEF ReviewVisual
  <2>2. Within(disk, "upload", faults) /\ ~Failed(pc) /\ ~GaveUp(pc)
    BY <1>2, Sections, StaysWithin
  <2>3. s \in Files /\ s.task = disk.task /\ s.work = disk.work /\ s.stage = disk.stage /\ s.invalid = disk.invalid
    BY <1>2 DEF Files
  <2> HIDE DEF s
  <2>4. Within(s, "upload", faults)
    BY <2>2, <2>3 DEF Within
  <2>5. StepFits("upload", s)
    BY <1>2, <2>3, Anywhere DEF StepFits
  <2>6. pc' = "upload" /\ st' = s /\ UNCHANGED <<disk, pages, faults>>
    BY <2>1 DEF Go, Local, serverVars
  <2> QED
    BY <2>2, <2>4, <2>5, <2>6, GoesOn DEF ReelInv
<1>4. CASE ~passed /\ w.visual >= VisualRounds
  <2>1. GiveUpFromFile
    BY <1>4 DEF ReviewVisual
  <2> QED
    BY <1>2, <2>1, GivesUp
<1>5. CASE ~passed /\ ~(w.visual >= VisualRounds)
  <2>1. Enter(With(disk, v), "scene", "beat") /\ "scene" \in Stages /\ "beat" \notin {"idle", "new run"}
    BY <1>5 DEF ReviewVisual, Stages
  <2>2. v \in Works /\ v.attempt = w.attempt /\ v.visual = w.visual + 1 /\ v.fix = 0
    BY <1>2, <1>5, RevisedWork
  <2> HIDE DEF v
  <2>3. With(disk, v) \in Files /\ With(disk, v).keep = {} /\ With(disk, v).task # NoTask /\ With(disk, v).work = v
    BY <1>2, <2>2 DEF With, Files
  <2>4. w.attempt <= Accounted(w) + 1 + faults
    BY <1>2, Rests DEF Budgeted
  <2>5. /\ Accounted(w) \in Nat /\ Accounted(v) \in Nat /\ Accounted(v) = Accounted(w) - w.fix + FixRounds + 1
        /\ w.fix \in 0..FixRounds /\ FixRounds \in Nat
    BY <1>2, <2>2, Sums, Constants DEF Works
  <2>6. v.attempt <= Accounted(v) + Slack("scene", "beat") + faults
    BY <1>2, <2>2, <2>4, <2>5, Slacks
  <2>7. Budgeted(v, "scene", "beat", faults)
    BY <2>6 DEF Budgeted
  <2> QED
    BY <2>1, <2>3, <2>7, Enters, Anywhere
<1> QED
  BY <1>3, <1>4, <1>5

-----------------------------------------------------------------------------
(* Claims, the read step and the rest of the commands.                         *)

LEMMA FreshBudget == \A stage, p : \A n \in Nat : Budgeted(BegunReel, stage, p, n)
  BY NewWorks, Slacks DEF Budgeted

\* A command that does not take back that it gave up.
LEMMA StaysBudgeted ==
  ASSUME NEW w \in Works, NEW stage, NEW p, NEW q, NEW n \in Nat, Budgeted(w, stage, p, n), GaveUp(p) => GaveUp(q)
  PROVE  Budgeted(w, stage, q, n)
<1>1. Slack(stage, p) <= Slack(stage, q)
  BY SlackGrows
<1> QED
  BY <1>1, MoreSlack, Slacks, Sums, Counters

LEMMA ClaimActions ==
  ASSUME ReelInv, (\E t \in Tasks : Claim(t)) \/ \E r \in OwnRuns : StartRun(r)
  PROVE  ReelInv'
<1>0. /\ st \in Files /\ disk \in Files /\ faults \in Nat /\ Within(disk, pc, faults)
      /\ pages \in [Tasks -> {"unread", "read", "unreadable"}]
  BY InvFacts DEF ReelInv
<1>1. ASSUME NEW t \in Tasks, Claim(t) PROVE ReelInv'
  <2>1. pc = "claim" /\ pc' = "unpack" /\ st' = Claimed(st, t) /\ UNCHANGED <<disk, pages, faults>>
    BY <1>1 DEF Claim, Go
  <2>2. Within(Claimed(st, t), "unpack", faults) /\ Claimed(st, t).task = t /\ Claimed(st, t).keep = {}
    BY <1>0, ClaimedFile
  <2>3. ~Failed(pc) /\ ~GaveUp(pc)
    BY <2>1, Sections
  <2>4. t # NoTask
    BY Constants
  <2>5. StepFits("unpack", Claimed(st, t))
    BY <2>2, <2>4, Anywhere DEF StepFits
  <2> QED
    BY <1>0, <2>1, <2>2, <2>3, <2>5, GoesOn
<1>2. ASSUME NEW r \in OwnRuns, StartRun(r) PROVE ReelInv'
  <2>1. pc = "start run" /\ pc' = "new run" /\ st' = NewState(r) /\ UNCHANGED <<disk, pages, faults>>
    BY <1>2 DEF StartRun, Go
  <2>2. Within(NewState(r), "new run", faults) /\ NewState(r).run = r /\ NewState(r).keep = {}
    BY <1>0, NewFile
  <2>3. ~Failed(pc) /\ ~GaveUp(pc)
    BY <2>1, Sections
  <2>4. StepFits("new run", NewState(r))
    BY <2>2, Anywhere DEF StepFits, Taskless
  <2> QED
    BY <1>0, <2>1, <2>2, <2>3, <2>4, GoesOn
<1> QED
  BY <1>1, <1>2

LEMMA ReadActions ==
  ASSUME ReelInv, NoPdf \/ Unpack \/ Begin
  PROVE  ReelInv'
<1>0. /\ st \in Files /\ st.work \in Works /\ faults \in Nat /\ Within(st, pc, faults)
      /\ pages \in [Tasks -> Seen]
  BY InvFacts, WithinFacts DEF ReelInv, Seen
<1>1. CASE NoPdf
  <2>1. PICK q \in {"fail", "give up"} : pc = "unpack" /\ pc' = q /\ st' = st /\ disk' = st /\ UNCHANGED <<pages, faults>>
    BY <1>1 DEF NoPdf, SaveAndGo, Go, Local, serverVars
  <2>2. st.keep = {} /\ st.task # NoTask
    BY <2>1, InvFacts DEF StepFits, Taskless
  <2>3. Within(st, q, faults)
    BY <1>0, <2>1, StaysWithin DEF Failed, GaveUp
  <2> QED
    BY <2>1, <2>2, <2>3, Saves, Anywhere
<1>2. CASE Unpack
  <2> DEFINE s == [st EXCEPT !.paged = TRUE]
  <2>0. pc = "unpack" /\ ~Failed(pc) /\ ~GaveUp(pc)
    BY <1>2 DEF Unpack, Failed, GaveUp
  <2>1. st.keep = {} /\ st.task # NoTask
    BY <2>0, InvFacts DEF StepFits, Taskless
  <2>2. /\ s \in Files /\ s.keep = {} /\ s.task # NoTask /\ s.work = st.work /\ s.stage = st.stage
        /\ s.invalid = st.invalid
    BY <1>0, <2>1 DEF Files
  <2>3. \/ \E q \in {"complete", "first beat"} : SaveAndGo(q, s)
        \/ Go("begin", s) /\ Local /\ UNCHANGED disk
    BY <1>2 DEF Unpack
  <2> HIDE DEF s
  <2>4. ASSUME NEW q \in {"complete", "first beat", "begin"} PROVE Within(s, q, faults)
    <3>1. Within(st, q, faults)
      BY <1>0, <2>0, StaysWithin
    <3> QED
      BY <2>2, <3>1 DEF Within
  <2>5. CASE \E q \in {"complete", "first beat"} : SaveAndGo(q, s)
    BY <2>2, <2>4, <2>5, Saves, Anywhere DEF SaveAndGo, Go, Local, serverVars
  <2>6. CASE Go("begin", s) /\ Local /\ UNCHANGED disk
    <3>1. StepFits("begin", s)
      BY <2>2, Anywhere DEF StepFits
    <3> QED
      BY <1>0, <2>0, <2>4, <2>6, <3>1, GoesOn DEF Go, Local, serverVars, Seen
  <2> QED
    BY <2>3, <2>5, <2>6
<1>3. CASE Begin
  <2>0. pc = "begin" /\ ~Failed(pc) /\ ~GaveUp(pc)
    BY <1>3 DEF Begin, Failed, GaveUp
  <2>1. CASE st.paged
    <3> DEFINE s == [st EXCEPT !.work = BegunReel]
    <3>1. Enter(s, "script", "first beat") /\ "script" \in Stages /\ "first beat" \notin {"idle", "new run"}
      BY <1>3, <2>1, Constants DEF Begin, Stages
    <3>2. s \in Files /\ s.keep = st.keep /\ s.task = st.task /\ s.work = BegunReel
      BY <1>0, NewWorks DEF Files
    <3>3. st.keep = {} /\ st.task # NoTask
      BY <2>0, InvFacts DEF StepFits, Taskless
    <3> HIDE DEF s
    <3>4. Budgeted(BegunReel, "script", "first beat", faults)
      BY <1>0, FreshBudget
    <3> QED
      BY <3>1, <3>2, <3>3, <3>4, Enters, Anywhere
  <2>2. CASE ~st.paged
    <3>1. End /\ UNCHANGED <<disk, pages, faults>>
      BY <1>3, <2>2 DEF Begin, Local, serverVars
    <3> QED
      BY <2>0, <3>1, Ends
  <2> QED
    BY <2>1, <2>2
<1> QED
  BY <1>1, <1>2, <1>3

LEMMA Commands ==
  ASSUME ReelInv, Start \/ Status \/ SubmitNotes \/ SubmitFail \/ Stop
  PROVE  ReelInv'
<1>1. /\ pc = "idle" /\ Local /\ UNCHANGED disk
      /\ \E q \in {"start run", "resume", "close old", "beat", "notes", "fail", "give up", "finish"} :
            Go(q, disk) /\ (disk.task # NoTask \/ q \in Taskless)
  BY EmptyRecord DEF Start, Status, SubmitNotes, SubmitFail, Stop, AtStage, Taskless
<1>2. PICK q \in {"start run", "resume", "close old", "beat", "notes", "fail", "give up", "finish"} :
            Go(q, disk) /\ (disk.task # NoTask \/ q \in Taskless)
  BY <1>1
<1>3. StageFits(q, disk.stage)
  BY DEF StageFits
<1> QED
  BY <1>1, <1>2, <1>3, TakesFile

\* One more invalid submission, the last of which fails the task.
LEMMA InvalidAction ==
  ASSUME ReelInv, NEW stage, Invalid(stage)
  PROVE  ReelInv'
<1> DEFINE s == [disk EXCEPT !.invalid = @ + 1]
<1>1. /\ pc = "idle" /\ disk.task # NoTask /\ disk.keep = {} /\ disk \in Files /\ faults \in Nat
      /\ Budgeted(disk.work, disk.stage, "idle", faults)
  BY AtWork, InvFacts DEF Invalid, AtStage
<1>2. disk.invalid < MaxInvalid + faults /\ disk.invalid \in Nat
  BY <1>1, InvFacts, Sections, WithinFacts DEF Within
<1>3. /\ s \in Files /\ s.keep = {} /\ s.task = disk.task /\ s.work = disk.work /\ s.stage = disk.stage
      /\ s.invalid = disk.invalid + 1
  BY <1>1 DEF Files
<1>4. IF s.invalid >= MaxInvalid THEN SaveAndGo("fail", s) ELSE SaveAndEnd(s)
  BY DEF Invalid
<1> HIDE DEF s
<1>5. s.invalid <= MaxInvalid + faults
  BY <1>1, <1>2, <1>3, Constants
<1>6. ASSUME NEW q PROVE Budgeted(s.work, s.stage, q, faults)
  <2>1. disk.work \in Works /\ ~GaveUp("idle")
    BY <1>1, Sections DEF Files
  <2> QED
    BY <1>1, <1>3, <2>1, StaysBudgeted
<1>7. CASE s.invalid >= MaxInvalid
  <2>1. Within(s, "fail", faults)
    BY <1>3, <1>5, <1>6, Sections DEF Within
  <2>2. SaveAndGo("fail", s)
    BY <1>4, <1>7
  <2> QED
    BY <1>1, <1>3, <2>1, <2>2, Saves, Anywhere DEF SaveAndGo, Go, Local, serverVars
<1>8. CASE ~(s.invalid >= MaxInvalid)
  <2>1. s.invalid < MaxInvalid + faults
    BY <1>1, <1>2, <1>3, <1>8, Constants
  <2>2. Within(s, "idle", faults)
    BY <1>3, <1>5, <1>6, <2>1 DEF Within
  <2>3. SaveAndEnd(s)
    BY <1>4, <1>8
  <2>4. Within(NoState, "idle", faults) /\ NoState.task = NoTask /\ NoState.keep = {}
    BY <1>1, EmptyFile, EmptyRecord
  <2>5. StepFits("idle", NoState) /\ FileFits(s)
    BY <1>1, <1>3, <2>4 DEF StepFits, FileFits, StageFits, Taskless
  <2> QED
    BY <2>2, <2>3, <2>4, <2>5 DEF ReelInv, SaveAndEnd, End, Local, serverVars
<1> QED
  BY <1>7, <1>8

-----------------------------------------------------------------------------
(* Faults, and what goes on around the engine.                                 *)

LEMMA FaultActions ==
  ASSUME ReelInv, Crash \/ RenderRaises
  PROVE  ReelInv'
<1>0. /\ st \in Files /\ disk \in Files /\ faults \in Nat /\ Within(disk, pc, faults) /\ Within(st, pc, faults)
      /\ FileFits(disk) /\ pages' = pages /\ pages \in [Tasks -> {"unread", "read", "unreadable"}]
  BY InvFacts DEF ReelInv, Crash, RenderRaises, serverVars
<1>1. pc' = "idle" /\ st' = NoState /\ faults' = faults + 1 /\ faults' \in Nat
  BY <1>0 DEF Crash, RenderRaises, End
<1>2. Within(NoState, "idle", faults') /\ NoState.task = NoTask /\ NoState.keep = {}
  BY <1>1, EmptyFile, EmptyRecord
<1>3. StepFits("idle", NoState)
  BY <1>2 DEF StepFits, StageFits, Taskless
<1>4. Within(disk', "idle", faults + 1) /\ FileFits(disk')
  <2>1. CASE Crash
    BY <1>0, <2>1, FaultWithin DEF Crash
  <2>2. CASE RenderRaises
    <3> DEFINE s == [st EXCEPT !.stage = "scene"]
    <3>1. pc = "rendering" /\ disk' = s
      BY <2>2 DEF RenderRaises
    <3>2. st.keep = {} /\ st.task # NoTask /\ ~Failed("rendering")
      BY <3>1, InvFacts DEF StepFits, Taskless, Failed
    <3>3. /\ s \in Files /\ s.work = st.work /\ s.invalid = st.invalid /\ s.keep = {} /\ s.task # NoTask
      BY <1>0, <3>2 DEF Files, Stages
    <3> HIDE DEF s
    <3>4. st.work \in Works /\ st.work.attempt \in Nat /\ st.invalid \in Nat /\ Budgeted(st.work, st.stage, "rendering", faults)
      BY <1>0, <3>1, WithinFacts
    <3>5. Budgeted(s.work, s.stage, "idle", faults + 1)
      BY <1>0, <3>3, <3>4, MoreSlack, Slacks, Sums
    <3>6. st.invalid < MaxInvalid + faults
      BY <1>0, <3>1, <3>2 DEF Within
    <3>7. s.invalid < MaxInvalid + (faults + 1) /\ s.invalid <= MaxInvalid + (faults + 1)
      BY <1>0, <3>3, <3>4, <3>6, Constants
    <3>8. Within(s, "idle", faults + 1)
      BY <3>3, <3>5, <3>7 DEF Within
    <3> QED
      BY <3>1, <3>3, <3>8 DEF FileFits
  <2> QED
    BY <2>1, <2>2
<1> QED
  BY <1>0, <1>1, <1>2, <1>3, <1>4 DEF ReelInv

LEMMA FinishAction ==
  ASSUME ReelInv, Finish
  PROVE  ReelInv'
<1>0. /\ faults \in Nat /\ Within(disk, pc, faults) /\ Within(st, pc, faults) /\ FileFits(disk) /\ st.keep = {}
      /\ pages \in [Tasks -> {"unread", "read", "unreadable"}] /\ ~Failed(pc) /\ ~GaveUp(pc)
  BY InvFacts, Sections DEF ReelInv, Finish, StepFits
<1>1. faults' = faults \/ faults' = faults + 1
  BY DEF Finish
<1>2. faults' \in Nat
  BY <1>0, <1>1
<1>3. ASSUME NEW q PROVE Within(disk, q, faults') /\ Within(st, q, faults')
  BY <1>0, <1>1, StaysWithin, FaultWithin
<1>4. PICK q \in {"archive", "archive old"} : pc' = q /\ st' = st
  BY DEF Finish, Go
<1>5. UNCHANGED <<disk, pages>>
  BY DEF Finish, serverVars
<1>6. StepFits(q, st) /\ ~Failed(q)
  BY <1>0, Anywhere, Sections DEF StepFits, Taskless
<1> QED
  BY <1>0, <1>2, <1>3, <1>4, <1>5, <1>6 DEF ReelInv

LEMMA AroundActions ==
  ASSUME ReelInv, Around
  PROVE  ReelInv'
<1>1. UNCHANGED <<disk, st, pc, faults>>
  BY DEF Around, Lapse, Swept, OtherStarts, OtherWorks, OthersRead
<1>2. pages' = pages \/ \E t \in Tasks : pages' = [pages EXCEPT ![t] = "read"]
  BY DEF Around, Lapse, Swept, OtherStarts, OtherWorks, OthersRead
<1> QED
  BY <1>1, <1>2 DEF ReelInv

-----------------------------------------------------------------------------
(* The theorems.                                                               *)

LEMMA ReelStarts == Init => ReelInv
<1> SUFFICES ASSUME Init PROVE ReelInv
  OBVIOUS
<1>1. /\ disk = NoState /\ st = NoState /\ pc = "idle" /\ faults = 0
      /\ pages \in [Tasks -> {"unread", "read", "unreadable"}]
  BY DEF Init
<1>2. 0 \in Nat
  OBVIOUS
<1>3. Within(NoState, "idle", 0) /\ FileFits(NoState)
  BY <1>2, EmptyFile
<1>4. StepFits("idle", NoState)
  BY EmptyRecord DEF StepFits, StageFits, Taskless
<1> QED
  BY <1>1, <1>2, <1>3, <1>4 DEF ReelInv

LEMMA ReelStep == ReelInv /\ [Next]_vars => ReelInv'
<1> SUFFICES ASSUME ReelInv, [Next]_vars PROVE ReelInv'
  OBVIOUS
<1>1. CASE Command
  BY <1>1, Commands DEF Command
<1>2. CASE FollowNext
  BY <1>2, Commands, ScriptActions, RenderAction, ReviewVisualAction, InvalidAction DEF FollowNext
<1>3. CASE Proceed
  BY <1>3, QuietActions, DropActions, ClaimActions, ReadActions, FinishAction DEF Proceed
<1>4. CASE ReelProceed /\ ~Proceed
  BY <1>4, QuietActions, RecordAction, RenderedAction DEF ReelProceed
<1>5. CASE RenderRaises \/ Crash
  BY <1>5, FaultActions
<1>6. CASE Around
  BY <1>6, AroundActions
<1>7. CASE UNCHANGED vars
  BY <1>7 DEF vars, serverVars, ReelInv
<1> QED
  BY <1>1, <1>2, <1>3, <1>4, <1>5, <1>6, <1>7 DEF Next, ReelProceed

LEMMA ReelHolds == Spec => []ReelInv
  BY ReelStarts, ReelStep, PTL DEF Spec

LEMMA InState == ASSUME ReelInv PROVE disk \in State /\ st \in State
<1>1. ASSUME NEW s, Within(s, pc, faults) PROVE s \in State
  <2>1. s \in Files /\ s.invalid \in Nat /\ s.invalid <= MaxInvalid + faults
    BY <1>1 DEF Within, Files
  <2>2. s.invalid \in 0..(MaxInvalid + faults)
    BY <2>1, InvFacts, Constants
  <2> QED
    BY <2>1, <2>2 DEF Files, Works, State
<1> QED
  BY <1>1, InvFacts

\* The file of the reel engine and the copy in memory keep their shape, and no round,
\* fix or count of invalid submissions in it leaves its range (reels/engine.py), for
\* every budget and however many faults.
THEOREM ReelTypes == Spec => []TypeOK
<1>1. ReelInv => TypeOK
  BY InState DEF ReelInv, TypeOK, FileFits, StepFits
<1> QED
  BY <1>1, ReelHolds, PTL

\* One claim is rendered (FixRounds + 1) * (VisualRounds + 1) times at most, attempts
\* cut short by a fault aside (_fixable and the visual review of reels/engine.py), for
\* every budget.
THEOREM RendersStayInBudget == Spec => []RendersAreBudgeted
<1>1. ASSUME ReelInv PROVE RendersAreBudgeted
  <2> DEFINE w == disk.work
  <2>1. w \in Works /\ w.attempt \in Nat /\ faults \in Nat /\ Budgeted(w, disk.stage, pc, faults)
    BY <1>1, InvFacts, WithinFacts
  <2>2. Accounted(w) \in Nat /\ Accounted(w) <= VisualRounds * (FixRounds + 1) + FixRounds
    BY <2>1, Sums
  <2>3. (FixRounds + 1) * (VisualRounds + 1) = VisualRounds * (FixRounds + 1) + FixRounds + 1
    BY Constants
  <2>4. VisualRounds * (FixRounds + 1) \in Nat
    BY Constants
  <2> QED
    BY <2>1, <2>2, <2>3, <2>4, Slacks, Constants DEF Budgeted, RendersAreBudgeted
<1> QED
  BY <1>1, ReelHolds, PTL
=============================================================================
