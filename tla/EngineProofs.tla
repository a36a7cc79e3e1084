---------------------------- MODULE EngineProofs ----------------------------
(* The quiz engine's claims, for any number of tasks, runs, questions and       *)
(* faults: the run holds one claim at a time, and its file names it.            *)
EXTENDS McqEngine, FiniteSetTheorems, TLAPS

-----------------------------------------------------------------------------
(* The inductive invariant.  f stands for the file, s for the copy in memory,   *)
(* p for what the command does next, own for who holds the tasks: the lemmas    *)
(* are about values, so that they speak of any step.                            *)

Owned(own, r) == {t \in Tasks : own[t] = r}

\* The run and the task of a file, whatever else is in it.
IsState(s) ==
    s \in [run : OwnRuns \union {NoRun}, task : Tasks \union {NoTask}, stage : {s.stage}, invalid : {s.invalid},
           seen : {s.seen}, paged : {s.paged}, keep : {s.keep}, work : {s.work}]

FileOK(f, own) ==
    /\ IsState(f) /\ (f # NoState => f.run \in OwnRuns)
    /\ f.run \in OwnRuns => \A t \in Owned(own, f.run) : f.task \in {t, NoTask}

\* The calls about the task in hand.
Working == {"first beat", "beat", "notes", "begin", "complete", "fail", "give up"}

Pcs == Working \union {"idle", "start run", "new run", "claim", "unpack", "resume", "book",
                       "finish", "close old", "archive", "archive old"}

StepOK(p, s, f, own) ==
    /\ IsState(s) /\ p \in Pcs
    /\ p = "idle" => s = NoState
    /\ p \in {"start run", "new run"} => f = NoState
    /\ p \notin {"idle", "start run"} => s.run \in OwnRuns
    /\ p \notin {"idle", "start run", "new run"} => f.run = s.run
    /\ p \in {"new run", "claim"} => s.task = NoTask
    /\ p \in {"claim", "unpack"} => f.task = NoTask
    /\ p \in Working \union {"unpack", "resume"} => s.task \in Tasks /\ Owned(own, s.run) \subseteq {s.task}
    /\ p \in {"new run", "claim", "book"} => Owned(own, s.run) = {}
    /\ p \in Working \union {"resume", "book"} => f.task \in {NoTask, s.task}

Ledger ==
    /\ owner \in [Tasks -> Runs \union {NoRun}] /\ phase = [t \in Tasks |-> phase[t]]
    /\ \A t \in Tasks : phase[t] = "held" <=> owner[t] # NoRun

Open ==
    /\ state \in [Runs -> {"absent", "active", "finished"}]
    /\ \A t \in Tasks : owner[t] \in OwnRuns => state[owner[t]] = "active"

OneEach(own) == \A r \in OwnRuns : \A t, u \in Owned(own, r) : t = u

EngineInv == Ledger /\ Open /\ OneEach(owner) /\ FileOK(disk, owner) /\ StepOK(pc, st, disk, owner)

-----------------------------------------------------------------------------

LEMMA RunFacts ==
  /\ OwnRuns \subseteq Runs /\ NoRun \notin Runs /\ Other \notin OwnRuns /\ Other \in Runs /\ Other # NoRun
  /\ NoTask \notin Tasks
  BY StepEngineAssumption DEF OwnRuns, Runs, NoRun, Other

LEMMA EmptyFile == IsState(NoState) /\ NoState.run = NoRun /\ NoState.task = NoTask
  BY DEF NoState, IsState

LEMMA NoFileOK == \A own : FileOK(NoState, own)
  BY EmptyFile, RunFacts DEF FileOK

LEMMA NewFile ==
  ASSUME NEW r \in OwnRuns
  PROVE  /\ IsState(NewState(r)) /\ NewState(r).run = r /\ NewState(r).task = NoTask
  BY DEF NewState, NoState, IsState

LEMMA DroppedFile ==
  ASSUME NEW s, IsState(s)
  PROVE  IsState(Dropped(s)) /\ Dropped(s).run = s.run /\ Dropped(s).task = NoTask
  BY DEF Dropped, NoState, IsState

LEMMA ClaimedFile ==
  ASSUME NEW s, IsState(s), NEW t \in Tasks
  PROVE  IsState(Claimed(s, t)) /\ Claimed(s, t).run = s.run /\ Claimed(s, t).task = t
  BY DEF Claimed, NoState, IsState

\* Claims only go away, or to another machine.
LEMMA FewerClaims ==
  ASSUME NEW own, NEW less, \A t \in Tasks : less[t] = own[t] \/ less[t] \notin OwnRuns,
         OneEach(own), NEW f, FileOK(f, own), NEW p, NEW s, StepOK(p, s, f, own)
  PROVE  OneEach(less) /\ FileOK(f, less) /\ StepOK(p, s, f, less)
<1>1. \A r \in OwnRuns : Owned(less, r) \subseteq Owned(own, r)
  BY DEF Owned
<1>2. OneEach(less)
  BY <1>1 DEF OneEach
<1>3. FileOK(f, less)
  BY <1>1 DEF FileOK
<1>4. p \in Working \union {"unpack", "resume", "new run", "claim", "book"} => s.run \in OwnRuns
  BY DEF StepOK, Working, Pcs
<1>5. StepOK(p, s, f, less)
  BY <1>1, <1>4 DEF StepOK
<1> QED
  BY <1>2, <1>3, <1>5

\* A file that names the task in hand, or none while nothing is held.
LEMMA FileNames ==
  ASSUME NEW own, NEW s, IsState(s), s.run \in OwnRuns, Owned(own, s.run) \subseteq {s.task} \/ s.task = NoTask
  PROVE  FileOK(s, own)
  BY DEF FileOK

-----------------------------------------------------------------------------
(* Steps that change no claim.                                                  *)

LEMMA Quiet ==
  ASSUME EngineInv, UNCHANGED <<owner, phase, state>>,
         FileOK(disk', owner), StepOK(pc', st', disk', owner)
  PROVE  EngineInv'
<1>1. Ledger' /\ Open'
  BY DEF EngineInv, Ledger, Open
<1>2. OneEach(owner') /\ FileOK(disk', owner') /\ StepOK(pc', st', disk', owner')
  BY DEF EngineInv
<1> QED
  BY <1>1, <1>2 DEF EngineInv

LEMMA EndKeeps ==
  ASSUME NEW f, NEW own PROVE StepOK("idle", NoState, f, own)
  BY EmptyFile DEF StepOK, Working, Pcs

\* The command ends, with or without a save.
LEMMA Ends ==
  ASSUME EngineInv, End, UNCHANGED <<owner, phase, state>>, disk' = disk \/ FileOK(disk', owner) PROVE EngineInv'
<1>1. pc' = "idle" /\ st' = NoState
  BY DEF End
<1>2. FileOK(disk', owner)
  BY DEF EngineInv
<1> QED
  BY <1>1, <1>2, Quiet, EndKeeps

\* A command in the middle of a task goes on with it, and may save it.
LEMMA WorkGoes ==
  ASSUME NEW own, NEW p \in Working, NEW s, NEW f, FileOK(f, own), StepOK(p, s, f, own),
         NEW q \in Working, NEW n, IsState(n), n.run = s.run, n.task = s.task
  PROVE  StepOK(q, n, f, own) /\ FileOK(n, own) /\ StepOK(q, n, n, own)
<1>1. /\ s.run \in OwnRuns /\ f.run = s.run /\ s.task \in Tasks /\ Owned(own, s.run) \subseteq {s.task}
      /\ f.task \in {NoTask, s.task}
  BY DEF StepOK, Working, Pcs
<1>2. FileOK(n, own)
  BY <1>1, FileNames
<1>3. StepOK(q, n, f, own) /\ StepOK(q, n, n, own)
  BY <1>1 DEF StepOK, Working, Pcs
<1> QED
  BY <1>2, <1>3

\* A command starts from the file.
LEMMA FromFile ==
  ASSUME NEW own, NEW f, FileOK(f, own), f.task # NoTask, NEW p \in Working \union {"resume"},
         NEW n, IsState(n), n.run = f.run, n.task = f.task
  PROVE  StepOK(p, n, f, own) /\ FileOK(n, own) /\ StepOK(p, n, n, own)
<1>1. f # NoState
  BY EmptyFile
<1>2. f.run \in OwnRuns /\ f.task \in Tasks
  BY <1>1 DEF FileOK, IsState
<1>3. Owned(own, f.run) \subseteq {f.task}
  BY <1>2 DEF FileOK
<1>4. FileOK(n, own)
  BY <1>2, <1>3, FileNames
<1> QED
  BY <1>2, <1>3, <1>4 DEF StepOK, Working, Pcs

\* The file drops its task while the run holds none.
LEMMA Drops ==
  ASSUME NEW own, NEW s, IsState(s), s.run \in OwnRuns, Owned(own, s.run) = {}
  PROVE  FileOK(Dropped(s), own) /\ StepOK("claim", Dropped(s), Dropped(s), own)
<1>1. IsState(Dropped(s)) /\ Dropped(s).run = s.run /\ Dropped(s).task = NoTask
  BY DroppedFile
<1> QED
  BY <1>1, FileNames DEF StepOK, Working, Pcs

LEMMA InvFacts ==
  ASSUME EngineInv
  PROVE  /\ IsState(disk) /\ FileOK(disk, owner) /\ IsState(st) /\ StepOK(pc, st, disk, owner)
         /\ pc \in Working => st.run \in OwnRuns /\ st.task \in Tasks /\ Owned(owner, st.run) \subseteq {st.task}
         /\ st.run \in OwnRuns /\ st.task \in Tasks /\ ~Holds => owner[st.task] # st.run
<1>1. IsState(disk) /\ FileOK(disk, owner) /\ IsState(st) /\ StepOK(pc, st, disk, owner)
  BY DEF EngineInv, FileOK, StepOK
<1>2. pc \in Working => st.run \in OwnRuns /\ st.task \in Tasks /\ Owned(owner, st.run) \subseteq {st.task}
  BY <1>1 DEF StepOK, Working
<1>3. st.run \in OwnRuns /\ st.task \in Tasks /\ ~Holds => owner[st.task] # st.run
  BY DEF EngineInv, Open, Holds
<1> QED
  BY <1>1, <1>2, <1>3

\* SaveAndGo in the middle of a task, and going on without a save.
LEMMA WorkStep ==
  ASSUME EngineInv, pc \in Working, UNCHANGED <<owner, phase, state>>, NEW q \in Working, NEW n, IsState(n),
         n.run = st.run, n.task = st.task, pc' = q, st' = n, disk' = disk \/ disk' = n
  PROVE  EngineInv'
<1>1. StepOK(q, n, disk, owner) /\ FileOK(n, owner) /\ StepOK(q, n, n, owner)
  BY InvFacts, WorkGoes
<1> QED
  BY <1>1, InvFacts, Quiet

\* The same from the file.
LEMMA CommandStep ==
  ASSUME EngineInv, disk.task # NoTask, UNCHANGED <<owner, phase, state>>, NEW q \in Working \union {"resume"},
         NEW n, IsState(n), n.run = disk.run, n.task = disk.task, pc' = q, st' = n, disk' = disk \/ disk' = n
  PROVE  EngineInv'
<1>1. StepOK(q, n, disk, owner) /\ FileOK(n, owner) /\ StepOK(q, n, n, owner)
  BY InvFacts, FromFile
<1> QED
  BY <1>1, InvFacts, Quiet

LEMMA QuietActions ==
  ASSUME EngineInv,
         \/ Beat \/ FirstBeatLost \/ Crash \/ (\E testable \in BOOLEAN : SaveNotes(testable)) \/ Begin
         \/ Resume \/ StartRefused \/ (\E t \in Tasks : Lapse(t) \/ OthersRead(t))
  PROVE  EngineInv'
<1> USE DEF Local, serverVars, ledgerVars, Server!Renew, Server!Lapse
<1>1. CASE Beat \/ FirstBeatLost \/ Crash \/ Resume \/ StartRefused
  BY <1>1, Ends DEF Beat, FirstBeatLost, Crash, Resume, StartRefused, Renews
<1>2. ASSUME NEW testable \in BOOLEAN, SaveNotes(testable) PROVE EngineInv'
  <2>1. /\ pc \in Working /\ UNCHANGED <<owner, phase, state, disk>> /\ st' = st
        /\ pc' \in {"begin", "complete"}
    BY <1>2 DEF SaveNotes, Working, Go
  <2>2. pc' \in Working
    BY <2>1 DEF Working
  <2> QED
    BY <2>1, <2>2, InvFacts, WorkStep
<1>3. CASE Begin
  <2>1. CASE ~st.paged
    BY <1>3, <2>1, Ends DEF Begin
  <2>2. CASE st.paged
    <3> DEFINE n == [[st EXCEPT !.work = BegunWork] EXCEPT !.stage = FirstStage, !.invalid = 0]
    <3>1. pc' = "first beat" /\ st' = n /\ disk' = n /\ UNCHANGED <<owner, phase, state>>
      BY <1>3, <2>2 DEF Begin, Enter, SaveAndGo, Go
    <3>2. IsState(n) /\ n.run = st.run /\ n.task = st.task
      BY InvFacts DEF IsState
    <3>3. "first beat" \in Working /\ pc \in Working
      BY <1>3 DEF Working, Begin
    <3> HIDE DEF n
    <3> QED
      BY <3>1, <3>2, <3>3, WorkStep
  <2> QED
    BY <2>1, <2>2
<1>4. ASSUME NEW t \in Tasks, Lapse(t) \/ OthersRead(t) PROVE EngineInv'
  <2>1. UNCHANGED <<disk, st, pc, owner, phase, state>>
    BY <1>4 DEF Lapse, OthersRead
  <2> QED
    BY <2>1, InvFacts, Quiet
<1> QED
  BY <1>1, <1>2, <1>3, <1>4

LEMMA CommandActions ==
  ASSUME EngineInv, Command \/ FollowNext PROVE EngineInv'
<1> USE DEF Local, serverVars, ledgerVars
<1>0. {"beat", "notes", "fail", "give up", "complete", "first beat", "resume"} \subseteq Working \union {"resume"}
  BY DEF Working
<1>1. ASSUME pc = "idle", disk.task # NoTask, NEW q \in {"beat", "notes", "fail", "give up", "resume"},
             Go(q, disk), Local, UNCHANGED disk
      PROVE  EngineInv'
  BY <1>0, <1>1, InvFacts, CommandStep DEF Go
<1>2. CASE Status \/ SubmitFail \/ SubmitNotes
  BY <1>1, <1>2 DEF Status, SubmitFail, SubmitNotes, AtStage
<1>3. ASSUME disk # NoState, NEW q \in {"finish", "close old"}, Go(q, disk), Local, UNCHANGED disk
      PROVE  EngineInv'
  <2>1. disk.run \in OwnRuns
    BY <1>3, InvFacts DEF FileOK
  <2>2. StepOK(q, disk, disk, owner)
    BY <2>1, InvFacts DEF StepOK, Working, Pcs
  <2> QED
    BY <1>3, <2>2, InvFacts, Quiet DEF Go
<1>4. CASE Stop
  BY <1>3, <1>4 DEF Stop
<1>5. CASE Start
  <2>1. CASE disk = NoState
    <3>1. pc' = "start run" /\ st' = NoState /\ UNCHANGED <<disk, owner, phase, state>>
      BY <1>5, <2>1 DEF Start, Go
    <3>2. StepOK("start run", NoState, NoState, owner)
      BY EmptyFile DEF StepOK, Working, Pcs
    <3> QED
      BY <2>1, <3>1, <3>2, InvFacts, Quiet
  <2>2. CASE disk # NoState /\ disk.task # NoTask
    BY <1>1, <1>5, <2>2 DEF Start
  <2>3. CASE disk # NoState /\ disk.task = NoTask
    BY <1>3, <1>5, <2>3 DEF Start
  <2> QED
    BY <2>1, <2>2, <2>3
<1>6. ASSUME disk.task # NoTask, NEW n, IsState(n), n.run = disk.run, n.task = disk.task,
             NEW q \in {"beat", "first beat", "fail", "complete"}, pc' = q, st' = n, disk' = disk \/ disk' = n, Local
      PROVE  EngineInv'
  BY <1>0, <1>6, CommandStep
<1>7. ASSUME NEW qs \in SUBSET Questions, SubmitDraft(qs) PROVE EngineInv'
  <2> DEFINE n == [[disk EXCEPT !.work.draft = qs] EXCEPT !.stage = "critique", !.invalid = 0]
  <2>1. disk.task # NoTask /\ pc' = "beat" /\ st' = n /\ disk' = n /\ Local
    BY <1>7 DEF SubmitDraft, AtStage, Enter, SaveAndGo, Go
  <2>2. IsState(n) /\ n.run = disk.run /\ n.task = disk.task
    BY InvFacts DEF IsState
  <2> HIDE DEF n
  <2> QED
    BY <1>6, <2>1, <2>2
<1>8. ASSUME NEW reviewed, NEW critique, SubmitCritique(reviewed, critique) PROVE EngineInv'
  <2> DEFINE w       == disk.work
             good    == {q \in reviewed : critique[q] = "approve"}
             flagged == w.draft \ good
             n       == [w EXCEPT !.accepted = @ \union good, !.draft = {},
                                  !.verdict = [q \in Questions |-> IF q \in reviewed THEN critique[q] ELSE @[q]]]
             again   == [[disk EXCEPT !.work = [n EXCEPT !.round = @ + 1]] EXCEPT !.stage = "write", !.invalid = 0]
             kept    == [disk EXCEPT !.work = n, !.keep = n.accepted \union Polish(flagged, reviewed, critique)]
  <2>1. disk.task # NoTask
    BY <1>8 DEF SubmitCritique, AtStage
  <2>2. \/ pc' = "first beat" /\ st' = again /\ disk' = again /\ Local
        \/ pc' = "complete" /\ st' = kept /\ UNCHANGED disk /\ Local
    BY <1>8 DEF SubmitCritique, Publish, Enter, SaveAndGo, Go
  <2> HIDE DEF n, w, good, flagged
  <2>3. IsState(again) /\ again.run = disk.run /\ again.task = disk.task
    BY InvFacts DEF IsState
  <2>4. IsState(kept) /\ kept.run = disk.run /\ kept.task = disk.task
    BY InvFacts DEF IsState
  <2> HIDE DEF again, kept
  <2> QED
    BY <1>6, <2>1, <2>2, <2>3, <2>4
<1>9. ASSUME NEW stage, Invalid(stage) PROVE EngineInv'
  <2> DEFINE n == [disk EXCEPT !.invalid = @ + 1]
  <2>1. disk.task # NoTask
    BY <1>9 DEF Invalid, AtStage
  <2>2. \/ pc' = "fail" /\ st' = n /\ disk' = n /\ Local
        \/ End /\ disk' = n /\ Local
    BY <1>9 DEF Invalid, SaveAndGo, SaveAndEnd, Go
  <2>3. IsState(n) /\ n.run = disk.run /\ n.task = disk.task
    BY InvFacts DEF IsState
  <2> HIDE DEF n
  <2>4. FileOK(n, owner)
    <3>1. disk # NoState
      BY <2>1, EmptyFile
    <3>2. "fail" \in Working \union {"resume"} /\ FileOK(disk, owner)
      BY <1>0, InvFacts
    <3> QED
      BY <2>1, <2>3, <3>2, FromFile
  <2>5. CASE End /\ disk' = n /\ Local
    BY <2>4, <2>5, Ends
  <2> QED
    BY <1>6, <2>1, <2>2, <2>3, <2>5
<1> QED
  BY <1>2, <1>4, <1>5, <1>7, <1>8, <1>9 DEF Command, FollowNext
-----------------------------------------------------------------------------
(* Steps that take claims away.                                                 *)

\* A task leaves its owner's hands.
LEMMA Leaves ==
  ASSUME EngineInv, NEW t \in Tasks, NEW p, p # "held", Server!Leave(t, p), UNCHANGED state
  PROVE  /\ Ledger' /\ Open' /\ OneEach(owner') /\ FileOK(disk, owner') /\ StepOK(pc, st, disk, owner')
         /\ owner'[t] = NoRun
<1> USE RunFacts DEF Server!Leave
<1>1. Ledger' /\ owner'[t] = NoRun /\ \A u \in Tasks : owner'[u] \in {owner[u], NoRun}
  BY DEF EngineInv, Ledger
<1>2. Open'
  BY <1>1 DEF EngineInv, Open
<1>3. \A u \in Tasks : owner'[u] = owner[u] \/ owner'[u] \notin OwnRuns
  BY <1>1
<1>4. OneEach(owner) /\ FileOK(disk, owner) /\ StepOK(pc, st, disk, owner)
  BY DEF EngineInv
<1> QED
  BY <1>1, <1>2, <1>3, <1>4, FewerClaims

\* The task in hand leaves, and the command goes on to its books.
LEMMA WorkLeaves ==
  ASSUME EngineInv, pc \in Working, NEW p, p # "held", Server!Leave(st.task, p),
         Go("book", st), UNCHANGED <<disk, state>>
  PROVE  EngineInv'
<1>1. st.run \in OwnRuns /\ st.task \in Tasks
  BY InvFacts
<1>2. /\ Ledger' /\ Open' /\ OneEach(owner') /\ FileOK(disk, owner') /\ StepOK(pc, st, disk, owner')
      /\ owner'[st.task] = NoRun
  BY <1>1, Leaves
<1>3. Owned(owner', st.run) = {}
  BY <1>1, <1>2, RunFacts DEF StepOK, Owned
<1>4. StepOK("book", st, disk, owner')
  BY <1>2, <1>3 DEF StepOK, Working, Pcs
<1> QED
  BY <1>2, <1>4 DEF EngineInv, Go

\* A run is closed and its claims go back.
LEMMA HandsBack ==
  ASSUME EngineInv, NEW r \in Runs, NEW x \in {"absent", "finished"},
         Server!HandBackAll(r), state' = [state EXCEPT ![r] = x]
  PROVE  /\ Ledger' /\ Open' /\ OneEach(owner') /\ FileOK(disk, owner') /\ StepOK(pc, st, disk, owner')
<1> USE RunFacts
<1>1. \A t \in Tasks : owner'[t] = IF owner[t] = r THEN NoRun ELSE owner[t]
  BY DEF EngineInv, Ledger, Server!HandBackAll
<1>2. Ledger'
  BY DEF EngineInv, Ledger, Server!HandBackAll
<1>3. Open'
  BY <1>1 DEF EngineInv, Open
<1>4. \A u \in Tasks : owner'[u] = owner[u] \/ owner'[u] \notin OwnRuns
  BY <1>1
<1>5. OneEach(owner) /\ FileOK(disk, owner) /\ StepOK(pc, st, disk, owner)
  BY DEF EngineInv
<1> QED
  BY <1>2, <1>3, <1>4, <1>5, FewerClaims

LEMMA EndingActions ==
  ASSUME EngineInv, Lost \/ Complete \/ Fail \/ Book \/ Stale \/ ClosedByServer \/ NewRun \/ Archive
  PROVE  EngineInv'
<1> USE DEF Local, serverVars, ledgerVars
<1>1. CASE Lost
  <2>1. pc \in Working /\ ~Holds
    BY <1>1, InvFacts DEF Lost, Guarded, Working, Pcs, StepOK
  <2>2. st.run \in OwnRuns /\ Owned(owner, st.run) = {}
    BY <2>1, InvFacts DEF Owned
  <2>3. FileOK(Dropped(st), owner) /\ StepOK("claim", Dropped(st), Dropped(st), owner)
    BY <2>2, InvFacts, Drops
  <2> QED
    BY <1>1, <2>3, Quiet DEF Lost, SaveAndGo, Go
<1>2. CASE Complete
  <2>1. pc \in Working /\ Go("book", st) /\ UNCHANGED <<disk, state>>
    BY <1>2 DEF Complete, Working
  <2>2. CASE Server!Land(st.task)
    <3>1. PICK p \in {"done", "skipped"} : Server!Leave(st.task, p)
      BY <2>2 DEF Server!Land
    <3> QED
      BY <2>1, <3>1, WorkLeaves
  <2>3. CASE LandedHere /\ UNCHANGED ledgerVars
    <3>1. st.run \in OwnRuns /\ st.task \in Tasks /\ Owned(owner, st.run) \subseteq {st.task}
      BY <2>1, InvFacts
    <3>2. Owned(owner, st.run) = {}
      BY <2>3, <3>1, RunFacts DEF LandedHere, EngineInv, Ledger, Owned
    <3>3. StepOK("book", st, disk, owner)
      BY <2>1, <3>1, <3>2, InvFacts DEF StepOK, Working, Pcs
    <3> QED
      BY <2>1, <2>3, <3>3, InvFacts, Quiet DEF Go
  <2> QED
    BY <1>2, <2>2, <2>3 DEF Complete
<1>3. CASE Fail
  <2>1. PICK p \in {"waiting", "failed"} : Server!Leave(st.task, p)
    BY <1>3 DEF Fail, Server!GiveUp
  <2>2. pc \in Working /\ Go("book", st) /\ UNCHANGED <<disk, state>>
    BY <1>3 DEF Fail, Working
  <2> QED
    BY <2>1, <2>2, WorkLeaves
<1>4. CASE Book
  <2>1. st.run \in OwnRuns /\ Owned(owner, st.run) = {}
    BY <1>4, InvFacts DEF Book, StepOK
  <2>2. FileOK(Dropped(st), owner) /\ StepOK("claim", Dropped(st), Dropped(st), owner)
    BY <2>1, InvFacts, Drops
  <2> QED
    BY <1>4, <2>2, Quiet DEF Book, SaveAndGo, Go
<1>5. StepOK("start run", NoState, NoState, owner)
  BY EmptyFile DEF StepOK, Working, Pcs
<1>6. CASE Stale
  BY <1>5, <1>6, NoFileOK, Quiet DEF Stale, Go
<1>7. CASE ClosedByServer \/ Archive
  BY <1>5, <1>7, NoFileOK, Ends, Quiet DEF ClosedByServer, Archive, SaveAndEnd, SaveAndGo, Go
<1>8. CASE NewRun
  <2>1. st.run \in OwnRuns /\ st.task = NoTask /\ Owned(owner, st.run) = {}
    BY <1>8, InvFacts DEF NewRun, StepOK
  <2>2. FileOK(st, owner) /\ StepOK("claim", st, st, owner)
    BY <2>1, InvFacts, FileNames DEF StepOK, Working, Pcs
  <2> QED
    BY <1>8, <2>2, Quiet DEF NewRun, SaveAndGo, Go
<1> QED
  BY <1>1, <1>2, <1>3, <1>4, <1>6, <1>7, <1>8

LEMMA RunActions ==
  ASSUME EngineInv, Finish \/ (\E r \in Runs : Swept(r)) \/ OtherStarts \/ (\E r \in OwnRuns : StartRun(r))
  PROVE  EngineInv'
<1> USE DEF serverVars, ledgerVars
<1>1. CASE Finish
  <2>1. PICK q \in {"archive", "archive old"} : Go(q, st)
    BY <1>1 DEF Finish
  <2>2. pc \in {"finish", "close old"} /\ UNCHANGED disk
    BY <1>1 DEF Finish
  <2>3. st.run \in OwnRuns /\ st.run \in Runs
    BY <2>2, InvFacts, RunFacts DEF StepOK
  <2>4. \A own : StepOK(pc, st, disk, own) => StepOK(q, st, disk, own)
    BY <2>2 DEF StepOK, Working, Pcs
  <2>5. CASE Server!HandBackAll(st.run) /\ state' = [state EXCEPT ![st.run] = "finished"]
    <3>1. /\ Ledger' /\ Open' /\ OneEach(owner') /\ FileOK(disk, owner') /\ StepOK(pc, st, disk, owner')
      BY <2>3, <2>5, HandsBack
    <3> QED
      BY <2>1, <2>2, <2>4, <3>1 DEF EngineInv, Go
  <2>6. CASE UNCHANGED serverVars
    BY <2>1, <2>2, <2>4, <2>6, InvFacts, Quiet DEF Go
  <2> QED
    BY <1>1, <2>5, <2>6 DEF Finish
<1>2. ASSUME NEW r \in Runs, Swept(r) PROVE EngineInv'
  <2>1. PICK x \in {"absent", "finished"} : state' = [state EXCEPT ![r] = x]
    BY <1>2 DEF Swept
  <2>2. /\ Ledger' /\ Open' /\ OneEach(owner') /\ FileOK(disk, owner') /\ StepOK(pc, st, disk, owner')
    BY <1>2, <2>1, HandsBack DEF Swept
  <2>3. UNCHANGED <<disk, st, pc>>
    BY <1>2 DEF Swept
  <2> QED
    BY <2>2, <2>3 DEF EngineInv
<1>3. ASSUME NEW r \in Runs, state' = [state EXCEPT ![r] = "active"], UNCHANGED <<phase, owner>>
      PROVE  Ledger' /\ Open'
  BY <1>3 DEF EngineInv, Ledger, Open
<1>4. CASE OtherStarts
  BY <1>3, <1>4, RunFacts DEF OtherStarts, EngineInv
<1>5. ASSUME NEW r \in OwnRuns, StartRun(r) PROVE EngineInv'
  <2>1. Ledger' /\ Open'
    BY <1>3, <1>5, RunFacts DEF StartRun
  <2>2. Owned(owner, r) = {}
    <3>1. state[r] # "active"
      BY <1>5 DEF StartRun
    <3> QED
      BY <3>1 DEF EngineInv, Open, Owned
  <2>3. disk = NoState
    BY <1>5, InvFacts DEF StartRun, StepOK
  <2>4. StepOK("new run", NewState(r), NoState, owner)
    BY <2>2, NewFile DEF StepOK, Working, Pcs
  <2>5. OneEach(owner) /\ FileOK(disk, owner)
    BY DEF EngineInv
  <2> QED
    BY <1>5, <2>1, <2>3, <2>4, <2>5 DEF EngineInv, StartRun, Go
<1> QED
  BY <1>1, <1>2, <1>4, <1>5
-----------------------------------------------------------------------------
(* Steps that give claims.                                                      *)

LEMMA ClaimActions ==
  ASSUME EngineInv,
         (\E t \in Tasks : Claim(t) \/ OtherWorks(t)) \/ ClaimNothing \/ NoPdf \/ Unpack
  PROVE  EngineInv'
<1> USE DEF Local, serverVars, ledgerVars
<1>1. ASSUME NEW t \in Tasks, Claim(t) PROVE EngineInv'
  <2>1. /\ pc = "claim" /\ st.run \in OwnRuns /\ disk.run = st.run /\ disk.task = NoTask
        /\ Owned(owner, st.run) = {} /\ st.run \in Runs /\ state[st.run] = "active"
    BY <1>1, InvFacts, RunFacts DEF Claim, StepOK, Working, Pcs
  <2>2. /\ phase' = [phase EXCEPT ![t] = "held"] /\ owner' = [owner EXCEPT ![t] = st.run]
        /\ pc' = "unpack" /\ st' = Claimed(st, t) /\ UNCHANGED <<disk, state>>
    BY <1>1 DEF Claim, Server!Give, Go
  <2>3. Ledger' /\ Open'
    BY <2>1, <2>2, RunFacts DEF EngineInv, Ledger, Open
  <2>4. owner \in [Tasks -> Runs \union {NoRun}]
    BY DEF EngineInv, Ledger
  <2>5. \A r \in OwnRuns : Owned(owner', r) = IF r = st.run THEN {t} ELSE Owned(owner, r) \ {t}
    BY <2>1, <2>2, <2>4 DEF Owned
  <2>6. OneEach(owner')
    BY <2>5 DEF EngineInv, OneEach
  <2>7. FileOK(disk, owner')
    BY <2>1, InvFacts DEF FileOK
  <2>8. StepOK("unpack", Claimed(st, t), disk, owner')
    BY <2>1, <2>5, InvFacts, ClaimedFile DEF StepOK, Working, Pcs
  <2> QED
    BY <2>2, <2>3, <2>6, <2>7, <2>8 DEF EngineInv
<1>2. ASSUME NEW t \in Tasks, OtherWorks(t) PROVE EngineInv'
  <2>1. UNCHANGED <<disk, st, pc, state>>
    BY <1>2 DEF OtherWorks
  <2>2. CASE Server!Give(t, Other)
    <3>1. owner' = [owner EXCEPT ![t] = Other] /\ phase' = [phase EXCEPT ![t] = "held"]
      BY <2>2 DEF Server!Give
    <3>2. Ledger' /\ Open' /\ \A u \in Tasks : owner'[u] = owner[u] \/ owner'[u] \notin OwnRuns
      BY <2>1, <3>1, RunFacts DEF EngineInv, Ledger, Open
    <3>3. OneEach(owner') /\ FileOK(disk, owner') /\ StepOK(pc, st, disk, owner')
      BY <3>2, FewerClaims DEF EngineInv
    <3> QED
      BY <2>1, <3>2, <3>3 DEF EngineInv
  <2>3. CASE Server!Land(t)
    <3>1. PICK p \in {"done", "skipped"} : Server!Leave(t, p)
      BY <2>3 DEF Server!Land
    <3>2. /\ Ledger' /\ Open' /\ OneEach(owner') /\ FileOK(disk, owner') /\ StepOK(pc, st, disk, owner')
      BY <2>1, <3>1, Leaves
    <3> QED
      BY <2>1, <3>2 DEF EngineInv
  <2> QED
    BY <1>2, <2>2, <2>3 DEF OtherWorks
<1>3. CASE ClaimNothing
  <2>1. StepOK("finish", st, disk, owner)
    BY <1>3, InvFacts DEF ClaimNothing, StepOK, Working, Pcs
  <2> QED
    BY <1>3, <2>1, InvFacts, Quiet DEF ClaimNothing, Go
\* The claimed task is saved, or not, before what comes next.
<1>4. ASSUME pc = "unpack", NEW q \in Working, NEW n, IsState(n), n.run = st.run, n.task = st.task,
             pc' = q, st' = n, disk' = disk \/ disk' = n, Local
      PROVE  EngineInv'
  <2>1. /\ st.run \in OwnRuns /\ disk.run = st.run /\ disk.task = NoTask /\ st.task \in Tasks
        /\ Owned(owner, st.run) \subseteq {st.task}
    BY <1>4, InvFacts DEF StepOK, Working, Pcs
  <2>2. FileOK(n, owner)
    BY <1>4, <2>1, FileNames
  <2>3. StepOK(q, n, disk, owner) /\ StepOK(q, n, n, owner)
    BY <1>4, <2>1 DEF StepOK, Working, Pcs
  <2> QED
    BY <1>4, <2>2, <2>3, InvFacts, Quiet
<1>5. {"fail", "give up", "complete", "begin", "first beat"} \subseteq Working
  BY DEF Working
<1>6. CASE NoPdf
  BY <1>4, <1>5, <1>6, InvFacts DEF NoPdf, SaveAndGo, Go
<1>7. CASE Unpack
  <2> DEFINE n == [st EXCEPT !.paged = TRUE]
  <2>1. pc = "unpack" /\ pc' \in {"complete", "begin", "first beat"} /\ st' = n /\ (disk' = disk \/ disk' = n) /\ Local
    BY <1>7 DEF Unpack, SaveAndGo, Go
  <2>2. IsState(n) /\ n.run = st.run /\ n.task = st.task
    BY InvFacts DEF IsState
  <2> HIDE DEF n
  <2> QED
    BY <1>4, <1>5, <2>1, <2>2
<1> QED
  BY <1>1, <1>2, <1>3, <1>6, <1>7

-----------------------------------------------------------------------------
(* The invariant holds, and what it says of the claims.                         *)

LEMMA EngineInit == Init => EngineInv
<1> SUFFICES ASSUME Init PROVE EngineInv
  OBVIOUS
<1>1. Ledger /\ Open
  BY RunFacts DEF Init, Server!Init, Ledger, Open
<1>2. \A r \in OwnRuns : Owned(owner, r) = {}
  BY RunFacts DEF Init, Server!Init, Owned
<1>3. StepOK(pc, st, disk, owner)
  BY EndKeeps DEF Init
<1> QED
  BY <1>1, <1>2, <1>3, NoFileOK DEF EngineInv, OneEach, Init

LEMMA EngineStep == EngineInv /\ [Next]_vars => EngineInv'
<1> SUFFICES ASSUME EngineInv, [Next]_vars PROVE EngineInv'
  OBVIOUS
<1>1. CASE Command \/ FollowNext
  BY <1>1, CommandActions
<1>2. CASE Proceed
  BY <1>2, QuietActions, EndingActions, RunActions, ClaimActions DEF Proceed
<1>3. CASE Crash
  BY <1>3, QuietActions
<1>4. CASE Around
  BY <1>4, QuietActions, RunActions, ClaimActions DEF Around
<1>5. CASE UNCHANGED vars
  BY <1>5, InvFacts, Quiet DEF vars, serverVars, ledgerVars
<1> QED
  BY <1>1, <1>2, <1>3, <1>4, <1>5 DEF Next

LEMMA EngineHolds == Spec => []EngineInv
  BY EngineInit, EngineStep, PTL DEF Spec

(* Whatever is killed, refused, retried or resumed, and whatever the machines    *)
(* around it do, a run of this machine holds at most one claim (steps.py's       *)
(* "claims one task at a time").                                                 *)
THEOREM RunHoldsOneClaim == Spec => []OneClaimPerRun
<1>1. EngineInv => OneClaimPerRun
  BY DEF EngineInv, OneEach, Owned, OneClaimPerRun
<1> QED
  BY <1>1, EngineHolds, PTL

(* The claim the server holds for the run in state.json is the one the file      *)
(* names, unless the command died between the claim and the save.                *)
THEOREM FileKnowsItsClaim == Spec => []FileNamesTheClaim
<1>1. EngineInv => FileNamesTheClaim
  BY InvFacts DEF FileOK, IsState, Owned, FileNamesTheClaim
<1> QED
  BY <1>1, EngineHolds, PTL

-----------------------------------------------------------------------------
(* What the file says of the quiz, and what is stored for a task.  p and n stand *)
(* for what the command does next and the faults so far.                         *)

Stages == {"none", "read", "write", "critique"}
Files  == [run : OwnRuns \union {NoRun}, task : Tasks \union {NoTask}, stage : Stages, invalid : Nat,
           seen : {"unread", "read", "unreadable"}, paged : BOOLEAN, keep : SUBSET Questions, work : Work]

\* What was accepted is what a reviewer approved last, and with the draft it is no
\* more than a chunk's worth.
Reviewed(w) ==
    /\ w.accepted = {q \in Questions : w.verdict[q] = "approve"}
    /\ w.draft \intersect w.accepted = {}
    /\ Cardinality(w.draft) + Cardinality(w.accepted) <= PerChunk

\* Only a fault keeps the last invalid submission from ending the task.
Failed(p)      == p \in {"fail", "book"}
Spent(i, p, n) == i <= MaxInvalid + n /\ (~Failed(p) => i < MaxInvalid + n)

Fits(s, p, n) == s \in Files /\ Reviewed(s.work) /\ Spent(s.invalid, p, n)

Keeps(w, keep) ==
    /\ w.accepted \subseteq keep /\ Cardinality(keep) <= PerChunk
    /\ \A q \in keep : w.verdict[q] \in {"approve", "revise"}

CopyFits(p, s) ==
    /\ p = "idle" => s = NoState
    /\ s.keep # {} => p \in {"complete", "book"} /\ Keeps(s.work, s.keep)

QuizInv ==
    /\ faults \in Nat /\ pages \in [Tasks -> {"unread", "read", "unreadable"}]
    /\ Fits(disk, pc, faults) /\ Fits(st, pc, faults)
    /\ disk.keep = {} /\ CopyFits(pc, st)

StoredInv == stored = [t \in Tasks |-> stored[t]] /\ \A t \in Tasks : stored[t] # {} => phase[t] = "done"

-----------------------------------------------------------------------------
(* Quizzes.                                                                     *)

LEMMA QuizConstants ==
  /\ IsFiniteSet(Questions) /\ PerChunk \in Nat \ {0} /\ MaxRounds \in Nat \ {0} /\ MaxInvalid \in Nat \ {0}
  /\ NewWork = NewQuiz /\ BegunWork = BegunQuiz /\ FirstStage = "write"
  BY McqEngineAssumption, StepEngineAssumption

LEMMA NewQuizzes == NewQuiz \in Work /\ BegunQuiz \in Work /\ Reviewed(NewQuiz) /\ Reviewed(BegunQuiz)
<1>1. Cardinality({}) = 0
  BY FS_EmptySet
<1>2. 0 \in 0..MaxRounds /\ 1 \in 0..MaxRounds /\ 0 + 0 <= PerChunk
  BY QuizConstants
<1>3. BegunQuiz = [round |-> 1, draft |-> {}, accepted |-> {}, verdict |-> [q \in Questions |-> "none"]]
  BY DEF BegunQuiz, NewQuiz
<1>4. NewQuiz \in Work /\ BegunQuiz \in Work
  BY <1>2, <1>3 DEF NewQuiz, Work
<1>5. \A w : w.draft = {} /\ w.accepted = {} /\ w.verdict = [q \in Questions |-> "none"] => Reviewed(w)
  BY <1>1, <1>2 DEF Reviewed
<1> QED
  BY <1>3, <1>4, <1>5 DEF NewQuiz

\* Subsets of the questions are finite and no larger than what they are part of.
LEMMA Subsets ==
  ASSUME NEW S \in SUBSET Questions, NEW T \in SUBSET S
  PROVE  IsFiniteSet(T) /\ Cardinality(T) \in Nat /\ Cardinality(S) \in Nat /\ Cardinality(T) <= Cardinality(S)
<1>1. IsFiniteSet(S)
  BY QuizConstants, FS_Subset
<1> QED
  BY <1>1, FS_Subset, FS_CardinalityType

LEMMA TwoParts ==
  ASSUME NEW w \in Work, Reviewed(w), NEW T \in SUBSET (w.draft \union w.accepted)
  PROVE  Cardinality(T) <= PerChunk /\ Cardinality(T) \in Nat
<1>1. w.draft \in SUBSET Questions /\ w.accepted \in SUBSET Questions
  BY DEF Work
<1>2. IsFiniteSet(w.draft) /\ IsFiniteSet(w.accepted)
  BY <1>1, QuizConstants, FS_Subset
<1>3. Cardinality(w.draft \union w.accepted) =
        Cardinality(w.draft) + Cardinality(w.accepted) - Cardinality(w.draft \intersect w.accepted)
  BY <1>2, FS_Union
<1>4. Cardinality(w.draft \intersect w.accepted) = 0
  BY FS_EmptySet DEF Reviewed
<1>5. Cardinality(w.draft) \in Nat /\ Cardinality(w.accepted) \in Nat
  BY <1>2, FS_CardinalityType
<1>6. Cardinality(w.draft) + Cardinality(w.accepted) <= PerChunk
  BY DEF Reviewed
<1>7. Cardinality(w.draft \union w.accepted) <= PerChunk
  BY <1>3, <1>4, <1>5, <1>6
<1>8. Cardinality(T) \in Nat /\ Cardinality(T) <= Cardinality(w.draft \union w.accepted)
      /\ Cardinality(w.draft \union w.accepted) \in Nat
  BY <1>1, Subsets
<1> QED
  BY <1>7, <1>8, QuizConstants

\* A draft that passes its checks fills the chunk up.
LEMMA DraftedWork ==
  ASSUME NEW w \in Work, Reviewed(w), NEW qs \in SUBSET Questions, ValidDraft(w, qs),
         NEW v, v = [w EXCEPT !.draft = qs]
  PROVE  v \in Work /\ Reviewed(v)
<1>1. v \in Work /\ v.draft = qs /\ v.accepted = w.accepted /\ v.verdict = w.verdict
  BY DEF Work
<1>2. Cardinality(w.accepted) \in Nat /\ Cardinality(qs) = PerChunk - Cardinality(w.accepted)
  BY Subsets DEF ValidDraft, Work
<1>3. Cardinality(qs) + Cardinality(w.accepted) <= PerChunk
  BY <1>2, QuizConstants
<1>4. qs \intersect w.accepted = {}
  BY DEF ValidDraft
<1> QED
  BY <1>1, <1>3, <1>4 DEF Reviewed

\* What a critique makes of the draft, and what is kept when it is the last one.
LEMMA CritiquedWork ==
  ASSUME NEW w \in Work, Reviewed(w), NEW reviewed \in SUBSET w.draft,
         NEW critique \in [reviewed -> {"approve", "revise", "reject"}],
         NEW good, good = {q \in reviewed : critique[q] = "approve"},
         NEW n, n = [w EXCEPT !.accepted = @ \union good, !.draft = {},
                              !.verdict = [q \in Questions |-> IF q \in reviewed THEN critique[q] ELSE @[q]]]
  PROVE  /\ n \in Work /\ Reviewed(n) /\ n.round = w.round
         /\ LET keep == n.accepted \union Polish(w.draft \ good, reviewed, critique)
            IN  keep \in SUBSET Questions /\ Keeps(n, keep)
<1> DEFINE verdict == [q \in Questions |-> IF q \in reviewed THEN critique[q] ELSE w.verdict[q]]
           keep    == (w.accepted \union good) \union Polish(w.draft \ good, reviewed, critique)
<1>1. /\ w.draft \in SUBSET Questions /\ w.accepted \in SUBSET Questions
      /\ w.verdict \in [Questions -> {"none", "approve", "revise", "reject"}]
  BY DEF Work
<1>2. good \subseteq w.draft /\ verdict \in [Questions -> {"none", "approve", "revise", "reject"}]
  BY <1>1
<1>3. n = [round |-> w.round, draft |-> {}, accepted |-> w.accepted \union good, verdict |-> verdict]
  BY DEF Work
<1>4. /\ n.round = w.round /\ n.draft = {} /\ n.accepted = w.accepted \union good /\ n.verdict = verdict
  BY <1>3
<1>5. n \in Work
  BY <1>1, <1>2, <1>3 DEF Work
<1>6. w.accepted \union good = {q \in Questions : verdict[q] = "approve"}
  BY <1>1, <1>2 DEF Reviewed
<1>7. Cardinality(w.accepted \union good) <= PerChunk /\ Cardinality(w.accepted \union good) \in Nat
  BY <1>2, TwoParts
<1>8. Cardinality({}) + Cardinality(w.accepted \union good) <= PerChunk
  BY <1>7, FS_EmptySet
<1>9. Reviewed(n)
  BY <1>4, <1>6, <1>8 DEF Reviewed
<1>10. Polish(w.draft \ good, reviewed, critique) \subseteq w.draft
  BY DEF Polish
<1>11. keep \subseteq w.draft \union w.accepted
  BY <1>2, <1>10
<1>12. Cardinality(keep) <= PerChunk
  BY <1>11, TwoParts
<1>13. \A q \in Polish(w.draft \ good, reviewed, critique) : verdict[q] = "revise"
  BY <1>1 DEF Polish
<1>14. \A q \in keep : verdict[q] \in {"approve", "revise"}
  BY <1>6, <1>13
<1> HIDE DEF verdict
<1>15. keep \in SUBSET Questions /\ Keeps(n, keep)
  BY <1>1, <1>4, <1>11, <1>12, <1>14 DEF Keeps
<1> QED
  BY <1>4, <1>5, <1>9, <1>15

-----------------------------------------------------------------------------
(* Files.                                                                       *)

LEMMA NewSpent == \A p : \A n \in Nat : Spent(0, p, n)
  BY QuizConstants DEF Spent

LEMMA StaysSpent ==
  ASSUME NEW k \in Nat, NEW p, NEW q, NEW n \in Nat, Spent(k, p, n)
  PROVE  (Failed(p) => Failed(q)) => Spent(k, q, n)
  BY DEF Spent

LEMMA FaultSpent ==
  ASSUME NEW k \in Nat, NEW p, NEW q, NEW n \in Nat, Spent(k, p, n)
  PROVE  Spent(k, q, n + 1)
  BY QuizConstants DEF Spent

LEMMA MoreSpent ==
  ASSUME NEW k \in Nat, NEW p, NEW q, NEW n \in Nat, Spent(k, p, n), ~Failed(p), Failed(q) \/ ~(k + 1 >= MaxInvalid)
  PROVE  Spent(k + 1, q, n)
  BY QuizConstants DEF Spent

LEMMA Fresh ==
  ASSUME NEW s, s \in Files, s.work = NewQuiz, s.invalid = 0, NEW p, NEW n \in Nat
  PROVE  Fits(s, p, n)
  BY NewQuizzes, NewSpent DEF Fits

LEMMA EmptyRecord ==
  /\ NoState \in Files /\ NoState.keep = {} /\ NoState.work = NewQuiz /\ NoState.invalid = 0
<1>1. NewWork = NewQuiz /\ NewQuiz \in Work
  BY QuizConstants, NewQuizzes
<1> QED
  BY <1>1 DEF NoState, Files, Stages

LEMMA FreshFiles ==
  ASSUME NEW p, NEW n \in Nat
  PROVE  /\ Fits(NoState, p, n) /\ NoState.keep = {}
         /\ \A r \in OwnRuns \union {NoRun} : Fits(NewState(r), p, n) /\ NewState(r).keep = {}
         /\ \A s \in Files : Fits(Dropped(s), p, n) /\ Dropped(s).keep = {}
<1>1. ASSUME NEW r \in OwnRuns \union {NoRun}
      PROVE  NewState(r) \in Files /\ NewState(r).keep = {} /\ NewState(r).work = NewQuiz /\ NewState(r).invalid = 0
  BY EmptyRecord DEF NewState, Files
<1>2. ASSUME NEW s \in Files PROVE Dropped(s) = NewState(s.run) /\ s.run \in OwnRuns \union {NoRun}
  BY DEF Dropped, NewState, Files
<1> QED
  BY <1>1, <1>2, EmptyRecord, Fresh

LEMMA ClaimedFits ==
  ASSUME NEW s \in Files, NEW t \in Tasks, pages \in [Tasks -> {"unread", "read", "unreadable"}],
         NEW p, NEW n \in Nat
  PROVE  Fits(Claimed(s, t), p, n) /\ Claimed(s, t).keep = {}
<1>1. s.run \in OwnRuns \union {NoRun} /\ pages[t] \in {"unread", "read", "unreadable"} /\ "read" \in Stages
  BY DEF Files, Stages
<1>2. Claimed(s, t) \in Files
  BY <1>1, EmptyRecord DEF Claimed, Files
<1>3. Claimed(s, t).keep = {} /\ Claimed(s, t).invalid = 0 /\ Claimed(s, t).work = NewQuiz
  BY EmptyRecord DEF Claimed, Files
<1> QED
  BY <1>2, <1>3, Fresh

LEMMA QuizFacts ==
  ASSUME QuizInv
  PROVE  /\ disk \in Files /\ st \in Files /\ faults \in Nat /\ disk.work \in Work /\ st.work \in Work
         /\ disk.invalid \in Nat /\ st.invalid \in Nat /\ Reviewed(disk.work) /\ Reviewed(st.work)
         /\ Spent(disk.invalid, pc, faults) /\ Spent(st.invalid, pc, faults)
         /\ Fits(disk, pc, faults) /\ Fits(st, pc, faults) /\ disk.keep = {} /\ CopyFits(pc, st)
         /\ pages \in [Tasks -> {"unread", "read", "unreadable"}]
  BY DEF QuizInv, Fits, Files

\* A file or a copy that goes on to the next call.
LEMMA StaysFit ==
  ASSUME NEW s, NEW p, NEW q, NEW n \in Nat, Fits(s, p, n)
  PROVE  (Failed(p) => Failed(q)) => Fits(s, q, n)
  BY StaysSpent DEF Fits, Files

LEMMA FaultFits ==
  ASSUME NEW s, NEW p, NEW q, NEW n \in Nat, Fits(s, p, n)
  PROVE  Fits(s, q, n + 1)
  BY FaultSpent DEF Fits, Files

\* The same file but for what says nothing of the quiz.
LEMMA SameQuiz ==
  ASSUME NEW s, NEW p, NEW n, Fits(s, p, n), NEW u \in Files, u.work = s.work, u.invalid = s.invalid
  PROVE  Fits(u, p, n)
  BY DEF Fits

\* A step that ends no command by a fault.
LEMMA Steps ==
  ASSUME QuizInv, NEW q, pc' = q, UNCHANGED faults, pages' \in [Tasks -> {"unread", "read", "unreadable"}],
         Failed(pc) => Failed(q),
         disk' = disk \/ (Fits(disk', q, faults) /\ disk'.keep = {}),
         Fits(st', q, faults), CopyFits(q, st')
  PROVE  QuizInv'
<1>1. Fits(disk', q, faults) /\ disk'.keep = {}
  BY QuizFacts, StaysFit
<1> QED
  BY <1>1 DEF QuizInv

\* Enter, as the commands use it.
LEMMA Enters ==
  ASSUME QuizInv, NEW s \in Files, s.keep = {}, Reviewed(s.work), NEW stage \in Stages, NEW q, q # "idle",
         Failed(pc) => Failed(q), Enter(s, stage, q)
  PROVE  QuizInv'
<1> DEFINE e == [s EXCEPT !.stage = stage, !.invalid = 0]
<1>1. e \in Files /\ e.keep = {} /\ e.work = s.work /\ e.invalid = 0
  BY DEF Files
<1>2. pc' = q /\ st' = e /\ disk' = e /\ UNCHANGED <<pages, faults>>
  BY DEF Enter, SaveAndGo, Go, Local, serverVars
<1> HIDE DEF e
<1>3. Fits(e, q, faults)
  BY <1>1, QuizFacts, NewSpent DEF Fits
<1>4. CopyFits(q, e)
  BY <1>1 DEF CopyFits
<1> QED
  BY <1>1, <1>2, <1>3, <1>4, QuizFacts, Steps

\* A command ends, with or without a save; a copy without questions goes on.
LEMMA CopyEnds == CopyFits("idle", NoState)
  BY EmptyRecord DEF CopyFits

LEMMA CopyGoes == ASSUME NEW s, s.keep = {}, NEW q, q # "idle" PROVE CopyFits(q, s)
  BY DEF CopyFits

LEMMA Failing == /\ Failed("fail") /\ Failed("book")
                 /\ \A p : p \notin {"fail", "book"} => ~Failed(p)
  BY DEF Failed

-----------------------------------------------------------------------------
(* Steps, and what they leave in the file.                                      *)

LEMMA EndsOrWaits ==
  ASSUME QuizInv,
         \/ Beat \/ FirstBeatLost \/ Resume \/ StartRefused \/ ClosedByServer
         \/ (\E testable \in BOOLEAN : SaveNotes(testable)) \/ Complete \/ Fail \/ ClaimNothing \/ NoPdf
  PROVE  QuizInv'
<1> USE DEF Local, serverVars, Renews, End, Go, SaveAndGo, SaveAndEnd
<1>0. faults \in Nat /\ pages \in [Tasks -> {"unread", "read", "unreadable"}] /\ Fits(st, pc, faults)
      /\ CopyFits(pc, st)
  BY QuizFacts
<1>1. CASE Beat \/ FirstBeatLost \/ Resume \/ StartRefused \/ ClosedByServer
  <2>1. ~Failed(pc) /\ pc' = "idle" /\ st' = NoState /\ UNCHANGED <<pages, faults>> /\ disk' \in {disk, NoState}
    BY <1>1, Failing DEF Beat, FirstBeatLost, Resume, StartRefused, ClosedByServer
  <2> QED
    BY <1>0, <2>1, FreshFiles, CopyEnds, Steps
<1>2. CASE (\E testable \in BOOLEAN : SaveNotes(testable)) \/ ClaimNothing
  <2>1. PICK q \in {"begin", "complete", "finish"} : pc' = q /\ st' = st
    BY <1>2 DEF SaveNotes, ClaimNothing
  <2>2. UNCHANGED <<disk, faults>> /\ pages' \in [Tasks -> {"unread", "read", "unreadable"}]
    BY <1>0, <1>2 DEF SaveNotes, ClaimNothing
  <2>3. ~Failed(pc) /\ st.keep = {}
    BY <1>0, <1>2, Failing DEF SaveNotes, ClaimNothing, CopyFits
  <2>4. Fits(st, q, faults)
    BY <1>0, <2>3, StaysFit
  <2> QED
    BY <2>1, <2>2, <2>3, <2>4, CopyGoes, Steps
<1>3. CASE Complete \/ Fail
  <2>1. pc' = "book" /\ st' = st /\ UNCHANGED <<disk, pages, faults>> /\ pc # "idle"
    BY <1>3 DEF Complete, Fail
  <2>2. Fits(st, "book", faults) /\ CopyFits("book", st)
    BY <1>0, <2>1, StaysFit, Failing DEF CopyFits
  <2> QED
    BY <1>0, <2>1, <2>2, Failing, Steps
<1>4. CASE NoPdf
  <2>1. PICK q \in {"fail", "give up"} : pc' = q /\ st' = st /\ disk' = st /\ UNCHANGED <<pages, faults>>
    BY <1>4 DEF NoPdf
  <2>2. ~Failed(pc) /\ st.keep = {}
    BY <1>0, <1>4, Failing DEF NoPdf, CopyFits
  <2>3. Fits(st, q, faults)
    BY <1>0, <2>2, StaysFit
  <2> QED
    BY <1>0, <2>1, <2>2, <2>3, CopyGoes, Steps
<1> QED
  BY <1>1, <1>2, <1>3, <1>4

LEMMA NewTasks ==
  ASSUME QuizInv,
         \/ Lost \/ Book \/ Archive \/ NewRun \/ Unpack \/ Begin
         \/ (\E t \in Tasks : Claim(t)) \/ (\E r \in OwnRuns : StartRun(r))
  PROVE  QuizInv'
<1> USE DEF Local, serverVars, End, Go, SaveAndGo, SaveAndEnd
<1>0. /\ faults \in Nat /\ pages \in [Tasks -> {"unread", "read", "unreadable"}]
      /\ st \in Files /\ Fits(st, pc, faults) /\ CopyFits(pc, st)
  BY QuizFacts
<1>1. ASSUME NEW q, Failed(pc) => Failed(q), NEW s, Fits(s, q, faults), s.keep = {}, pc' = q, q # "idle", st' = s,
             disk' \in {disk, s}, UNCHANGED <<pages, faults>>
      PROVE  QuizInv'
  BY <1>0, <1>1, CopyGoes, Steps
<1>2. CASE Lost \/ Book
  <2>1. pc' = "claim" /\ st' = Dropped(st) /\ disk' = st' /\ UNCHANGED <<pages, faults>>
    BY <1>2 DEF Lost, Book
  <2> QED
    BY <1>0, <2>1, FreshFiles, CopyGoes DEF QuizInv
<1>3. CASE Archive
  <2>1. pc' \in {"idle", "start run"} /\ st' = NoState /\ disk' = NoState /\ UNCHANGED <<pages, faults>>
    BY <1>3 DEF Archive
  <2>2. CopyFits(pc', NoState)
    BY EmptyRecord DEF CopyFits
  <2> QED
    BY <1>0, <2>1, <2>2, FreshFiles DEF QuizInv
<1>4. CASE NewRun
  <2>1. pc' = "claim" /\ st' = st /\ disk' = st /\ UNCHANGED <<pages, faults>> /\ ~Failed(pc) /\ st.keep = {}
    BY <1>0, <1>4, Failing DEF NewRun, CopyFits
  <2>2. Fits(st, "claim", faults)
    BY <1>0, <2>1, StaysFit
  <2> QED
    BY <1>1, <2>1, <2>2
<1>5. CASE Unpack
  <2> DEFINE s == [st EXCEPT !.paged = TRUE]
  <2>1. ~Failed(pc) /\ st.keep = {}
    BY <1>0, <1>5, Failing DEF Unpack, CopyFits
  <2>2. s \in Files /\ s.keep = {} /\ s.work = st.work /\ s.invalid = st.invalid
    BY <1>0, <2>1 DEF Files
  <2>3. PICK q \in {"complete", "begin", "first beat"} : pc' = q /\ st' = s /\ disk' \in {disk, s} /\ UNCHANGED <<pages, faults>>
    BY <1>5 DEF Unpack
  <2> HIDE DEF s
  <2>4. Fits(st, q, faults)
    BY <1>0, <2>1, StaysFit
  <2>5. Fits(s, q, faults)
    BY <2>2, <2>4, SameQuiz
  <2> QED
    BY <1>1, <2>1, <2>2, <2>3, <2>5
<1>6. CASE Begin
  <2>1. ~Failed(pc) /\ st.keep = {}
    BY <1>0, <1>6, Failing DEF Begin, CopyFits
  <2>2. CASE st.paged
    <3> DEFINE s == [st EXCEPT !.work = BegunQuiz]
    <3>1. Enter(s, "write", "first beat") /\ "write" \in Stages
      BY <1>6, <2>2, QuizConstants DEF Begin, Stages
    <3>2. s \in Files /\ s.keep = {} /\ s.work = BegunQuiz
      BY <1>0, <2>1, NewQuizzes DEF Files
    <3> HIDE DEF s
    <3> QED
      BY <2>1, <3>1, <3>2, NewQuizzes, Enters
  <2>3. CASE ~st.paged
    <3>1. pc' = "idle" /\ st' = NoState /\ UNCHANGED <<disk, pages, faults>>
      BY <1>6, <2>3 DEF Begin
    <3> QED
      BY <1>0, <2>1, <3>1, FreshFiles, CopyEnds, Steps
  <2> QED
    BY <2>2, <2>3
<1>7. ASSUME NEW t \in Tasks, Claim(t) PROVE QuizInv'
  <2>1. pc' = "unpack" /\ st' = Claimed(st, t) /\ UNCHANGED <<disk, pages, faults>> /\ ~Failed(pc)
    BY <1>7, Failing DEF Claim
  <2> QED
    BY <1>0, <1>1, <2>1, ClaimedFits
<1>8. ASSUME NEW r \in OwnRuns, StartRun(r) PROVE QuizInv'
  <2>1. pc' = "new run" /\ st' = NewState(r) /\ UNCHANGED <<disk, pages, faults>> /\ ~Failed(pc)
    BY <1>8, Failing DEF StartRun
  <2> QED
    BY <1>0, <1>1, <2>1, FreshFiles
<1> QED
  BY <1>2, <1>3, <1>4, <1>5, <1>6, <1>7, <1>8

LEMMA Faults ==
  ASSUME QuizInv, Crash \/ Finish \/ Stale
  PROVE  QuizInv'
<1> USE DEF serverVars, End, Go
<1>0. /\ faults \in Nat /\ pages' = pages /\ pages \in [Tasks -> {"unread", "read", "unreadable"}]
      /\ Fits(st, pc, faults) /\ CopyFits(pc, st) /\ Fits(disk, pc, faults) /\ disk.keep = {}
  BY QuizFacts DEF Crash, Finish, Stale
<1>1. faults' = faults \/ faults' = faults + 1
  BY DEF Crash, Finish, Stale
<1>2. faults' \in Nat
  BY <1>0, <1>1
<1>3. CASE Crash
  <2>1. pc' = "idle" /\ st' = NoState /\ disk' = disk /\ faults' = faults + 1
    BY <1>3 DEF Crash
  <2> QED
    BY <1>0, <1>2, <2>1, FaultFits, FreshFiles, CopyEnds DEF QuizInv
<1>4. CASE Finish
  <2>1. ~Failed(pc) /\ st.keep = {}
    BY <1>0, <1>4, Failing DEF Finish, CopyFits
  <2>2. \A q : Fits(disk, q, faults') /\ Fits(st, q, faults')
    BY <1>0, <1>1, <2>1, FaultFits, StaysFit
  <2>3. pc' \in {"archive", "archive old"} /\ st' = st /\ disk' = disk
    BY <1>4 DEF Finish
  <2>4. CopyFits(pc', st)
    BY <2>1, <2>3, CopyGoes
  <2> QED
    BY <1>0, <1>2, <2>2, <2>3, <2>4 DEF QuizInv
<1>5. CASE Stale
  <2>1. pc' = "start run" /\ st' = NoState /\ disk' = NoState
    BY <1>5 DEF Stale
  <2>2. CopyFits("start run", NoState)
    BY EmptyRecord DEF CopyFits
  <2> QED
    BY <1>0, <1>2, <2>1, <2>2, FreshFiles DEF QuizInv
<1> QED
  BY <1>3, <1>4, <1>5

LEMMA QuizCommands ==
  ASSUME QuizInv, Start \/ Status \/ SubmitNotes \/ SubmitFail \/ Stop
  PROVE  QuizInv'
<1>1. /\ pc = "idle" /\ UNCHANGED <<disk, pages, faults>>
      /\ \E q \in {"start run", "resume", "close old", "beat", "notes", "fail", "give up", "finish"} : pc' = q /\ st' = disk
  BY DEF Start, Status, SubmitNotes, SubmitFail, Stop, AtStage, Go, Local, serverVars
<1>2. PICK q \in {"start run", "resume", "close old", "beat", "notes", "fail", "give up", "finish"} : pc' = q /\ st' = disk
  BY <1>1
<1>3. ~Failed(pc)
  BY <1>1, Failing
<1>4. Fits(disk, q, faults)
  BY <1>3, QuizFacts, StaysFit
<1> QED
  BY <1>1, <1>2, <1>3, <1>4, QuizFacts, CopyGoes, Steps

LEMMA InvalidSubmission ==
  ASSUME QuizInv, NEW stage, Invalid(stage)
  PROVE  QuizInv'
<1> DEFINE s == [disk EXCEPT !.invalid = @ + 1]
<1>1. ~Failed(pc) /\ disk \in Files /\ disk.invalid \in Nat /\ faults \in Nat /\ Spent(disk.invalid, pc, faults)
  BY QuizFacts, Failing DEF Invalid, AtStage
<1>2. s \in Files /\ s.keep = {} /\ s.work = disk.work /\ s.invalid = disk.invalid + 1
  BY <1>1, QuizFacts DEF Files
<1>3. IF s.invalid >= MaxInvalid THEN SaveAndGo("fail", s) ELSE SaveAndEnd(s)
  BY DEF Invalid
<1> HIDE DEF s
<1>4. CASE s.invalid >= MaxInvalid
  <2>1. Spent(s.invalid, "fail", faults)
    BY <1>1, <1>2, Failing, MoreSpent
  <2>2. Fits(s, "fail", faults)
    BY <1>2, <2>1, QuizFacts DEF Fits
  <2>3. pc' = "fail" /\ st' = s /\ disk' = s /\ UNCHANGED <<pages, faults>>
    BY <1>3, <1>4 DEF SaveAndGo, Go, Local, serverVars
  <2> QED
    BY <1>1, <1>2, <2>2, <2>3, QuizFacts, CopyGoes, Steps
<1>5. CASE ~(s.invalid >= MaxInvalid)
  <2>1. Spent(s.invalid, "idle", faults)
    BY <1>1, <1>2, <1>5, MoreSpent
  <2>2. Fits(s, "idle", faults)
    BY <1>2, <2>1, QuizFacts DEF Fits
  <2>3. pc' = "idle" /\ st' = NoState /\ disk' = s /\ UNCHANGED <<pages, faults>>
    BY <1>3, <1>5 DEF SaveAndEnd, End, Local, serverVars
  <2> QED
    BY <1>1, <1>2, <2>2, <2>3, QuizFacts, FreshFiles, CopyEnds, Steps
<1> QED
  BY <1>4, <1>5

LEMMA Drafts ==
  ASSUME QuizInv, NEW qs \in SUBSET Questions, SubmitDraft(qs)
  PROVE  QuizInv'
<1> DEFINE v == [disk.work EXCEPT !.draft = qs]
           s == [disk EXCEPT !.work.draft = qs]
<1>1. /\ ~Failed(pc) /\ ValidDraft(disk.work, qs) /\ Enter(s, "critique", "beat") /\ "critique" \in Stages
  BY Failing DEF SubmitDraft, AtStage, Stages
<1>2. v \in Work /\ Reviewed(v)
  BY <1>1, QuizFacts, DraftedWork
<1>3. s = [disk EXCEPT !.work = v]
  BY QuizFacts DEF Files
<1> HIDE DEF v
<1>4. s \in Files /\ s.keep = {} /\ s.work = v
  BY <1>2, <1>3, QuizFacts DEF Files
<1> QED
  BY <1>1, <1>2, <1>4, Enters

LEMMA Critiques ==
  ASSUME QuizInv, NEW reviewed \in SUBSET disk.work.draft,
         NEW critique \in [reviewed -> {"approve", "revise", "reject"}], SubmitCritique(reviewed, critique)
  PROVE  QuizInv'
<1> DEFINE w       == disk.work
           good    == {q \in reviewed : critique[q] = "approve"}
           flagged == w.draft \ good
           n       == [w EXCEPT !.accepted = @ \union good, !.draft = {},
                                !.verdict = [q \in Questions |-> IF q \in reviewed THEN critique[q] ELSE @[q]]]
           keep    == n.accepted \union Polish(flagged, reviewed, critique)
           again   == [disk EXCEPT !.work = [n EXCEPT !.round = @ + 1]]
           kept    == [disk EXCEPT !.work = n, !.keep = keep]
<1>1. w \in Work /\ Reviewed(w) /\ disk \in Files /\ faults \in Nat
  BY QuizFacts
<1>2. /\ n \in Work /\ Reviewed(n) /\ n.round = w.round
      /\ keep \in SUBSET Questions /\ Keeps(n, keep)
  BY <1>1, CritiquedWork
<1>3. /\ ~Failed(pc)
      /\ IF flagged # {} /\ RoundsLeft(w) THEN Enter(again, "write", "first beat")
         ELSE Go("complete", kept) /\ Local /\ UNCHANGED disk
  BY Failing DEF SubmitCritique, Publish, AtStage
<1> HIDE DEF n, w, keep, good, flagged
<1>4. CASE flagged # {} /\ RoundsLeft(w)
  <2> DEFINE v == [n EXCEPT !.round = @ + 1]
  <2>1. w.round \in 0..MaxRounds /\ w.round < MaxRounds
    BY <1>1, <1>4 DEF RoundsLeft, Work
  <2>2. w.round + 1 \in 0..MaxRounds
    BY <2>1, QuizConstants
  <2>3. /\ v \in Work /\ v.draft = n.draft /\ v.accepted = n.accepted /\ v.verdict = n.verdict
    BY <1>2, <2>2 DEF Work
  <2> HIDE DEF v
  <2>4. Reviewed(v)
    BY <1>2, <2>3 DEF Reviewed
  <2>5. again \in Files /\ again.keep = {} /\ again.work = v
    BY <1>1, <2>3, QuizFacts DEF Files, v
  <2>6. Enter(again, "write", "first beat") /\ "write" \in Stages
    BY <1>3, <1>4 DEF Stages
  <2> QED
    BY <1>3, <2>4, <2>5, <2>6, Enters
<1>5. CASE ~(flagged # {} /\ RoundsLeft(w))
  <2>1. pc' = "complete" /\ st' = kept /\ UNCHANGED <<disk, pages, faults>>
    BY <1>3, <1>5 DEF Go, Local, serverVars
  <2>2. kept \in Files /\ kept.work = n /\ kept.keep = keep /\ kept.invalid = disk.invalid
    BY <1>1, <1>2 DEF Files
  <2> HIDE DEF kept
  <2>3. Fits(disk, "complete", faults)
    BY <1>1, <1>3, QuizFacts, StaysFit
  <2>4. Fits(kept, "complete", faults)
    BY <1>2, <2>2, <2>3 DEF Fits
  <2>5. CopyFits("complete", kept)
    BY <1>2, <2>2 DEF CopyFits
  <2> QED
    BY <1>3, <2>1, <2>4, <2>5, QuizFacts, Steps
<1> QED
  BY <1>4, <1>5

LEMMA QuizAround ==
  ASSUME QuizInv, Around
  PROVE  QuizInv'
<1>1. UNCHANGED <<disk, st, pc, faults>>
  BY DEF Around, Lapse, Swept, OtherStarts, OtherWorks, OthersRead
<1>2. pages' = pages \/ \E t \in Tasks : pages' = [pages EXCEPT ![t] = "read"]
  BY DEF Around, Lapse, Swept, OtherStarts, OtherWorks, OthersRead
<1> QED
  BY <1>1, <1>2 DEF QuizInv

LEMMA QuizHolds == Spec => []QuizInv
<1>1. Init => QuizInv
  <2> SUFFICES ASSUME Init PROVE QuizInv
    OBVIOUS
  <2>1. /\ disk = NoState /\ st = NoState /\ pc = "idle" /\ faults = 0
        /\ pages \in [Tasks -> {"unread", "read", "unreadable"}]
    BY DEF Init
  <2>2. 0 \in Nat
    OBVIOUS
  <2>3. Fits(NoState, "idle", 0) /\ NoState.keep = {}
    BY <2>2, FreshFiles
  <2> QED
    BY <2>1, <2>2, <2>3, CopyEnds DEF QuizInv
<1>2. QuizInv /\ [Next]_vars => QuizInv'
  <2> SUFFICES ASSUME QuizInv, [Next]_vars PROVE QuizInv'
    OBVIOUS
  <2>1. CASE Command
    BY <2>1, QuizCommands DEF Command
  <2>2. CASE FollowNext
    BY <2>2, QuizCommands, Drafts, Critiques, InvalidSubmission DEF FollowNext
  <2>3. CASE Proceed
    BY <2>3, EndsOrWaits, NewTasks, Faults DEF Proceed
  <2>4. CASE Crash
    BY <2>4, Faults
  <2>5. CASE Around
    BY <2>5, QuizAround
  <2>6. CASE UNCHANGED vars
    BY <2>6 DEF vars, serverVars, QuizInv
  <2> QED
    BY <2>1, <2>2, <2>3, <2>4, <2>5, <2>6 DEF Next
<1> QED
  BY <1>1, <1>2, PTL DEF Spec

(* The quiz engine's file and the copy in memory keep their shape, and neither a *)
(* round nor the count of invalid submissions leaves its range (engine.py), for  *)
(* any number of questions, rounds and faults.                                   *)
THEOREM McqTypes == Spec => []TypeOK
<1>1. ASSUME QuizInv PROVE TypeOK
  <2>1. ASSUME NEW s, Fits(s, pc, faults) PROVE s \in State
    <3>1. s \in Files /\ s.invalid \in Nat /\ s.invalid <= MaxInvalid + faults
      BY <2>1 DEF Fits, Spent, Files
    <3>2. s.invalid \in 0..(MaxInvalid + faults)
      BY <1>1, <3>1, QuizFacts, QuizConstants
    <3> QED
      BY <3>1, <3>2 DEF Files, Stages, State
  <2> QED
    BY <1>1, <2>1, QuizFacts DEF TypeOK, CopyFits
<1> QED
  BY <1>1, QuizHolds, PTL

-----------------------------------------------------------------------------
(* What is stored for a task.                                                   *)

\* Only a task that is done has questions, and a task that is done stays so.
LEMMA StoredStays ==
  ASSUME StoredInv, UNCHANGED stored, \A t \in Tasks : phase[t] = "done" => phase'[t] = "done"
  PROVE  StoredInv'
  BY DEF StoredInv

LEMMA LandsStored ==
  ASSUME StoredInv, Ledger, NEW t \in Tasks, Server!Land(t), NEW S, phase'[t] = "done" \/ S = {},
         stored' = [stored EXCEPT ![t] = S]
  PROVE  StoredInv'
<1>1. PICK p \in {"done", "skipped"} : phase' = [phase EXCEPT ![t] = p]
  BY DEF Server!Land, Server!Leave
<1> QED
  BY <1>1 DEF StoredInv, Ledger

LEMMA StoredStep ==
  ASSUME StoredInv, EngineInv, [Next]_vars
  PROVE  StoredInv'
<1> USE DEF Local, serverVars, ledgerVars
<1>0. Ledger /\ phase = [t \in Tasks |-> phase[t]]
  BY DEF EngineInv, Ledger
<1>1. CASE UNCHANGED <<stored, phase>>
  BY <1>1, StoredStays
<1>2. ASSUME NEW t \in Tasks, UNCHANGED stored, NEW p, phase' = [phase EXCEPT ![t] = p], phase[t] # "done"
      PROVE  StoredInv'
  BY <1>0, <1>2, StoredStays
<1>3. CASE Command \/ FollowNext
  <2>1. UNCHANGED serverVars
    BY <1>3 DEF Command, FollowNext, Start, Status, SubmitFail, Stop, SubmitNotes, SubmitDraft, SubmitCritique, Publish,
                Invalid, Enter, SaveAndGo, SaveAndEnd
  <2> QED
    BY <1>1, <2>1
<1>4. CASE Beat \/ FirstBeatLost \/ Lost \/ Book \/ ClaimNothing \/ ClosedByServer \/ NoPdf \/ Unpack \/ Begin
           \/ Resume \/ Stale \/ StartRefused \/ NewRun \/ Archive \/ Crash \/ UNCHANGED vars
  <2>1. UNCHANGED <<stored, phase>>
    BY <1>4 DEF Beat, FirstBeatLost, Lost, Book, ClaimNothing, ClosedByServer, NoPdf, Unpack, Begin, Resume,
                Stale, StartRefused, NewRun, Archive, Crash, Enter, SaveAndGo, SaveAndEnd, Renews, Server!Renew, vars
  <2> QED
    BY <1>1, <2>1
<1>5. CASE \/ (\E testable \in BOOLEAN : SaveNotes(testable)) \/ (\E r \in OwnRuns : StartRun(r)) \/ OtherStarts
           \/ (\E t \in Tasks : Lapse(t) \/ OthersRead(t))
  <2>1. UNCHANGED <<stored, phase>>
    BY <1>5 DEF SaveNotes, Server!Renew, StartRun, OtherStarts, Lapse, Server!Lapse, OthersRead
  <2> QED
    BY <1>1, <2>1
<1>6. ASSUME NEW t \in Tasks, NEW r, Server!Give(t, r), UNCHANGED stored PROVE StoredInv'
  <2>1. phase' = [phase EXCEPT ![t] = "held"] /\ phase[t] # "done"
    BY <1>6 DEF Server!Give
  <2> QED
    BY <1>2, <1>6, <2>1
<1>7. ASSUME NEW t \in Tasks, Claim(t) PROVE StoredInv'
  BY <1>6, <1>7 DEF Claim
<1>8. ASSUME NEW r \in Runs, Server!HandBackAll(r), UNCHANGED stored PROVE StoredInv'
  <2>1. \A t \in Tasks : phase[t] = "done" => phase'[t] = "done"
    BY <1>8 DEF Server!HandBackAll
  <2> QED
    BY <1>8, <2>1, StoredStays
<1>9. CASE Finish
  <2>1. st.run \in Runs
    BY <1>9, InvFacts, RunFacts DEF Finish, StepOK
  <2> QED
    BY <1>1, <1>8, <1>9, <2>1 DEF Finish
<1>10. ASSUME NEW r \in Runs, Swept(r) PROVE StoredInv'
  BY <1>8, <1>10 DEF Swept
<1>11. CASE Complete
  <2>1. st.task \in Tasks
    BY <1>11, InvFacts DEF Complete, Working
  <2>2. CASE LandedHere /\ UNCHANGED <<ledgerVars, ender, stored>>
    BY <1>1, <2>2
  <2>3. CASE /\ Server!Land(st.task) /\ phase'[st.task] = IF st.keep = {} THEN "skipped" ELSE "done"
             /\ stored' = [stored EXCEPT ![st.task] = @ \union st.keep]
    <3>1. phase[st.task] = "held"
      BY <2>3 DEF Server!Land
    <3>2. stored[st.task] = {}
      BY <2>1, <3>1 DEF StoredInv
    <3>3. stored' = [stored EXCEPT ![st.task] = st.keep]
      BY <2>3, <3>2
    <3> QED
      BY <1>0, <2>1, <2>3, <3>3, LandsStored
  <2> QED
    BY <1>11, <2>2, <2>3 DEF Complete
<1>12. CASE Fail
  <2>1. st.task \in Tasks
    BY <1>12, InvFacts DEF Fail, Working
  <2>2. phase[st.task] = "held" /\ \E p \in {"waiting", "failed"} : phase' = [phase EXCEPT ![st.task] = p]
    BY <1>12 DEF Fail, Server!GiveUp, Server!Leave
  <2> QED
    BY <1>2, <1>12, <2>1, <2>2 DEF Fail
<1>13. ASSUME NEW t \in Tasks, OtherWorks(t) PROVE StoredInv'
  <2>1. CASE Server!Give(t, Other) /\ UNCHANGED <<ender, stored>>
    BY <1>6, <2>1
  <2>2. CASE Server!Land(t) /\ stored' = [stored EXCEPT ![t] = IF phase'[t] = "done" THEN {"other"} ELSE {}]
    BY <1>0, <2>2, LandsStored
  <2> QED
    BY <1>13, <2>1, <2>2 DEF OtherWorks
<1> QED
  BY <1>3, <1>4, <1>5, <1>7, <1>9, <1>10, <1>11, <1>12, <1>13 DEF Next, Proceed, Around

LEMMA StoredHolds == Spec => []StoredInv
<1>1. Init => StoredInv
  BY DEF Init, StoredInv
<1>2. StoredInv /\ EngineInv /\ [Next]_vars => StoredInv'
  BY StoredStep
<1> QED
  BY <1>1, <1>2, EngineHolds, PTL DEF Spec

\* complete, and no other step, goes from the call to the books.
LEMMA OnlyComplete ==
  ASSUME [Next]_vars, pc = "complete", pc' = "book"
  PROVE  Complete
<1> USE DEF Local, End, Go, SaveAndGo, SaveAndEnd, Enter
<1>1. ~(Command \/ FollowNext)
  BY DEF Command, FollowNext, Start, Status, SubmitFail, Stop, SubmitNotes, SubmitDraft, SubmitCritique,
         Invalid, AtStage
<1>2. ~(Beat \/ FirstBeatLost \/ Lost \/ Fail \/ Book \/ (\E testable \in BOOLEAN : SaveNotes(testable)))
  BY DEF Beat, FirstBeatLost, Lost, Fail, Book, SaveNotes
<1>3. ~((\E t \in Tasks : Claim(t)) \/ ClaimNothing \/ ClosedByServer \/ NoPdf \/ Unpack \/ Begin)
  BY DEF Claim, ClaimNothing, ClosedByServer, NoPdf, Unpack, Begin
<1>4. ~(Resume \/ Stale \/ (\E r \in OwnRuns : StartRun(r)) \/ StartRefused \/ NewRun \/ Finish \/ Archive \/ Crash)
  BY DEF Resume, Stale, StartRun, StartRefused, NewRun, Finish, Archive, Crash
<1>5. ~(Around \/ UNCHANGED vars)
  BY DEF Around, Lapse, Swept, OtherStarts, OtherWorks, OthersRead, vars
<1> QED
  BY <1>1, <1>2, <1>3, <1>4, <1>5 DEF Next, Proceed

(* "nothing unreviewed is published", "wrong or ungrounded ones dropped"           *)
(* (engine.py), for any number of questions and rounds: what lands for a task is   *)
(* what a reviewer approved, besides only what one found to need polish, and no    *)
(* more than a chunk's worth, whatever the command before it went through.         *)
THEOREM StoresReviewed == Spec => StoresWhatReviewAllows
<1>1. ASSUME QuizInv, EngineInv, StoredInv, [Next]_vars, pc = "complete", pc' = "book", stored' # stored
      PROVE  /\ Judged("approve") \subseteq stored'[st.task]
             /\ stored'[st.task] \subseteq Judged("approve") \union Judged("revise")
             /\ Cardinality(stored'[st.task]) <= PerChunk
  <2>1. Complete
    BY <1>1, OnlyComplete
  <2>2. /\ Server!Land(st.task) /\ stored' = [stored EXCEPT ![st.task] = @ \union st.keep]
    BY <1>1, <2>1 DEF Complete
  <2>3. st.task \in Tasks
    BY <1>1, InvFacts DEF Working
  <2>4. stored[st.task] = {} /\ stored = [t \in Tasks |-> stored[t]]
    BY <1>1, <2>2, <2>3 DEF StoredInv, Server!Land
  <2>5. stored'[st.task] = st.keep /\ st.keep # {}
    BY <1>1, <2>2, <2>3, <2>4
  <2>6. Keeps(st.work, st.keep) /\ Reviewed(st.work) /\ st.keep \in SUBSET Questions
    BY <1>1, <2>5, QuizFacts DEF CopyFits, Files
  <2>7. Judged("approve") = st.work.accepted
    BY <2>6 DEF Judged, Reviewed
  <2>8. st.keep \subseteq Judged("approve") \union Judged("revise")
    BY <2>6 DEF Keeps, Judged
  <2> QED
    BY <2>5, <2>6, <2>7, <2>8 DEF Keeps
<1> QED
  BY <1>1, QuizHolds, EngineHolds, StoredHolds, PTL DEF Spec, StoresWhatReviewAllows
=============================================================================
