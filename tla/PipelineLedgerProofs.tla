------------------------ MODULE PipelineLedgerProofs ------------------------
(* Outputs, counters and the ledger, for every value of the constants.         *)
EXTENDS PipelineClaimProofs

-----------------------------------------------------------------------------
(* Most steps leave the tasks' rows, the outputs and the credit alone.         *)

Loud(w) ==
    \/ Heartbeat(w) \/ \E testable \in BOOLEAN : SaveNotes(w, testable)
    \/ \E items \in SUBSET (Stems \union {"reel"}), skip \in BOOLEAN : Complete(w, items, skip)
    \/ \E retryable \in BOOLEAN : Fail(w, retryable)
    \/ ClaimWaiting(w) \/ CreateAndClaim(w)
    \/ \E row \in req[w].todo : HandBack(w, row)
    \/ SaveRetry(w)

LEMMA QuietSteps ==
  ASSUME [Next]_vars
  PROVE  \/ \E w \in Workers : Loud(w)
         \/ \E t \in Tasks : LeaseExpires(t)
         \/ UNCHANGED <<taskVars, landed>>
<1> USE DEF taskVars, chunkVars, runVars, envVars
<1>1. ASSUME NEW w \in Workers, RunnerCalls(w) \/ AppCalls(w)
      PROVE  UNCHANGED <<taskVars, landed>>
  BY <1>1 DEF RunnerCalls, AppCalls, LoadTaskCall, LoadComplete, LoadClaim, LoadFinish, LoadSweep,
              LoadRequest, LoadRetry
<1>2. ASSUME NEW w \in Workers, Serve(w)
      PROVE  Loud(w) \/ UNCHANGED <<taskVars, landed>>
  BY <1>2 DEF Serve, Loud, RefuseCall, CheckMedia, StoreMedia, RefuseReel, Admit, PlanNew, NothingToDo,
              ReplanOnConflict, SaveClosedRun, EndOfClosing, CountRuns, CreateRun, RefuseStart,
              DecideWanted, CreateRequest
<1>3. CASE SwitchPipeline
  BY <1>3 DEF SwitchPipeline
<1>4. CASE Passing
  BY <1>4 DEF Passing, FallsSilent, RunnerDies, RequestExpires
<1>5. CASE UNCHANGED vars
  BY <1>5 DEF vars
<1> QED
  BY <1>1, <1>2, <1>3, <1>4, <1>5 DEF Next

-----------------------------------------------------------------------------
(* Counters.                                                                   *)

\* A run that was never closed has the count of what the server accepted from it.
Counted == \A r \in Runs : state[r] # "finished" => tasksDone[r] = landed[r]

LEMMA CountedStep == Shape /\ Counted /\ [Next]_vars => Counted'
<1> SUFFICES ASSUME Shape, Counted, [Next]_vars PROVE Counted'
  OBVIOUS
<1> USE DEF taskVars, chunkVars, runVars, envVars
<1>a. RowsOK
  BY ShapeParts
<1>b. ASSUME UNCHANGED <<tasksDone, landed>>, \A r \in Runs : state[r] = "finished" => state'[r] = "finished"
      PROVE  Counted'
  BY <1>b DEF Counted
<1>1. ASSUME NEW w \in Workers, RunnerCalls(w) \/ AppCalls(w) PROVE Counted'
  <2>1. UNCHANGED <<tasksDone, landed, state>>
    BY <1>1 DEF RunnerCalls, AppCalls, LoadTaskCall, LoadComplete, LoadClaim, LoadFinish, LoadSweep,
                LoadRequest, LoadRetry
  <2> QED
    BY <1>b, <2>1
<1>2. ASSUME NEW w \in Workers, Serve(w) PROVE Counted'
  <2>1. ASSUME NEW items \in SUBSET (Stems \union {"reel"}), NEW skip \in BOOLEAN, Complete(w, items, skip)
        PROVE  Counted'
    <3>1. req[w].run \in Runs /\ UNCHANGED state
      BY <2>1 DEF Complete, At, Shape, ReqShape, RunOps
    <3>2. /\ tasksDone' = [tasksDone EXCEPT ![req[w].run] = @ + 1]
          /\ landed' = [landed EXCEPT ![req[w].run] = @ + 1]
      BY <2>1 DEF Complete, CountWork
    <3> QED
      BY <1>a, <3>1, <3>2 DEF Counted, RowsOK
  <2>2. CASE SaveClosedRun(w)
    BY <1>a, <2>2 DEF SaveClosedRun, Counted, RowsOK
  <2>3. CASE CreateRun(w)
    <3>1. PICK r \in First(NextRun(req[w].kind)) : state' = [state EXCEPT ![r] = "active"]
      BY <2>3 DEF CreateRun
    <3>2. state[r] = "absent" /\ r \in Runs
      BY DEF First, NextRun
    <3> QED
      BY <1>a, <1>b, <2>3, <3>1, <3>2 DEF CreateRun, RowsOK
  <2>4. CASE UNCHANGED <<tasksDone, landed, state>>
    BY <1>b, <2>4
  <2> QED
    BY <1>2, <2>1, <2>2, <2>3, <2>4
    DEF Serve, RefuseCall, Heartbeat, SaveNotes, CheckMedia, StoreMedia, RefuseReel, Fail, Admit,
        ClaimWaiting, PlanNew, NothingToDo, CreateAndClaim, ReplanOnConflict, HandBack, EndOfClosing,
        CountRuns, RefuseStart, DecideWanted, CreateRequest, SaveRetry
<1>3. CASE SwitchPipeline \/ Passing \/ UNCHANGED vars
  <2>1. UNCHANGED <<tasksDone, landed, state>>
    BY <1>3 DEF SwitchPipeline, Passing, LeaseExpires, FallsSilent, RunnerDies, RequestExpires, vars
  <2> QED
    BY <1>b, <2>1
<1> QED
  BY <1>1, <1>2, <1>3 DEF Next

\* An open run's tasks_done is the number of completions accepted from it, however
\* many calls overlap (complete adds to the counters in the database).
THEOREM OpenRunsCount == Spec => []OpenRunCountsItsWork
<1>1. Init => Counted
  BY DEF Init, Counted
<1>2. (Shape /\ Counted) => OpenRunCountsItsWork
  BY DEF Counted, OpenRunCountsItsWork
<1> QED
  BY <1>1, <1>2, CountedStep, ShapeInvariant, PTL DEF Spec

-----------------------------------------------------------------------------
(* Reels and videos.                                                           *)

LEMMA ReelStep == Shape /\ ReelHasVideo /\ [Next]_vars => ReelHasVideo'
<1> SUFFICES ASSUME Shape, ReelHasVideo, [Next]_vars PROVE ReelHasVideo'
  OBVIOUS
<1> USE DEF taskVars, chunkVars, runVars, envVars
<1>a. RowsOK
  BY ShapeParts
<1>b. ASSUME UNCHANGED output, video \subseteq video' PROVE ReelHasVideo'
  BY <1>b DEF ReelHasVideo
<1>1. ASSUME NEW w \in Workers, RunnerCalls(w) \/ AppCalls(w) PROVE ReelHasVideo'
  <2>1. UNCHANGED <<output, video>>
    BY <1>1 DEF RunnerCalls, AppCalls, LoadTaskCall, LoadComplete, LoadClaim, LoadFinish, LoadSweep,
                LoadRequest, LoadRetry
  <2> QED
    BY <1>b, <2>1
<1>2. ASSUME NEW w \in Workers, Serve(w) PROVE ReelHasVideo'
  <2>1. ASSUME NEW items \in SUBSET (Stems \union {"reel"}), NEW skip \in BOOLEAN, Complete(w, items, skip)
        PROVE  ReelHasVideo'
    <3> DEFINE t == req[w].task
    <3>1. output' = [output EXCEPT ![t] = @ \union items] /\ UNCHANGED video /\ Uploaded(t, items)
      BY <2>1 DEF Complete
    <3>2. ASSUME NEW u \in Tasks, u[2] = "reel", output'[u] # {} PROVE u \in video'
      <4>1. CASE u # t
        BY <1>a, <3>1, <3>2, <4>1 DEF RowsOK, ReelHasVideo
      <4>2. CASE u = t /\ items # {}
        BY <3>1, <3>2, <4>2 DEF Uploaded
      <4>3. CASE u = t /\ items = {}
        BY <1>a, <3>1, <3>2, <4>3 DEF RowsOK, ReelHasVideo
      <4> QED
        BY <4>1, <4>2, <4>3
    <3> QED
      BY <3>2 DEF ReelHasVideo
  <2>2. CASE UNCHANGED output /\ video \subseteq video'
    BY <1>b, <2>2
  <2> QED
    BY <1>2, <2>1, <2>2
    DEF Serve, RefuseCall, Heartbeat, SaveNotes, CheckMedia, StoreMedia, RefuseReel, Fail, Admit,
        ClaimWaiting, PlanNew, NothingToDo, CreateAndClaim, GiveTo, ReplanOnConflict, HandBack,
        SaveClosedRun, EndOfClosing, CountRuns, CreateRun, RefuseStart, DecideWanted, CreateRequest,
        SaveRetry
<1>3. CASE SwitchPipeline \/ Passing \/ UNCHANGED vars
  <2>1. UNCHANGED <<output, video>>
    BY <1>3 DEF SwitchPipeline, Passing, LeaseExpires, FallsSilent, RunnerDies, RequestExpires, vars
  <2> QED
    BY <1>b, <2>1
<1> QED
  BY <1>1, <1>2, <1>3 DEF Next

\* No reel is recorded without a video in storage, whichever upload or completion
\* its claim outlives.
THEOREM ReelsHaveVideos == Spec => []ReelHasVideo
<1>1. Init => ReelHasVideo
  BY DEF Init, ReelHasVideo
<1> QED
  BY <1>1, ReelStep, ShapeInvariant, PTL DEF Spec

-----------------------------------------------------------------------------
(* Outputs, provided no two Retry requests overlap.                            *)

\* The one Retry being served is about a task that ended without an output.
OneRetry ==
    /\ \A w \in Workers : req[w].op = "retry" => status[req[w].task] \in {"failed", "skipped"}
    /\ \A v, w \in Workers : req[v].op = "retry" /\ req[w].op = "retry" => v = w

RetryInv == OneRetry /\ DoneIffOutput

\* A request becomes a Retry only by being loaded as one.
LEMMA RetryRequests ==
  ASSUME Shape, [Next]_vars, NEW v \in Workers, req'[v].op = "retry"
  PROVE  \/ req[v].op = "retry" /\ req'[v].task = req[v].task
         \/ \E t \in Tasks : LoadRetry(v, t) /\ req'[v].task = t
<1> USE DEF Open, Answer, Goto
<1>a. req \in [Workers -> Request]
  BY DEF Shape, TypeOK
<1>1. ASSUME NEW w \in Workers, RunnerCalls(w) \/ AppCalls(w), ~(\E t \in Tasks : LoadRetry(w, t))
      PROVE  req'[v] = req[v]
  <2>1. ASSUME NEW q, req' = [req EXCEPT ![w] = q], q.op # "retry" PROVE req'[v] = req[v]
    BY <1>a, <2>1
  <2> QED
    <3>1. ASSUME NEW r \in Runs, NEW t \in Tasks, NEW op \in TaskOps, LoadTaskCall(w, op, r, t)
          PROVE  req'[v] = req[v]
      BY <2>1, <3>1 DEF LoadTaskCall, Idle, TaskOps
    <3>2. ASSUME NEW r \in Runs, NEW t \in Tasks, LoadComplete(w, r, t) PROVE req'[v] = req[v]
      BY <2>1, <3>2 DEF LoadComplete, Idle
    <3>3. ASSUME NEW r \in Runs, LoadClaim(w, r) PROVE req'[v] = req[v]
      BY <2>1, <3>3 DEF LoadClaim, Idle
    <3>4. ASSUME NEW r \in Runs, NEW why \in {"idle", "stopped"}, LoadFinish(w, r, why)
          PROVE  req'[v] = req[v]
      BY <2>1, <3>4 DEF LoadFinish, Idle
    <3>5. ASSUME NEW op \in {"sweep", "start", "wanted"}, NEW k \in Kinds \union {"none"}, LoadSweep(w, op, k)
          PROVE  req'[v] = req[v]
      <4> DEFINE q == [Idle EXCEPT !.op = op, !.pc = "close", !.kind = k,
                                   !.todo = {RowOf(r) : r \in Abandoned}, !.why = "abandoned"]
      <4>1. req' = [req EXCEPT ![w] = q]
        BY <3>5 DEF LoadSweep
      <4>2. q.op # "retry"
        BY <3>5 DEF Idle
      <4> HIDE DEF q
      <4> QED
        BY <2>1, <4>1, <4>2
    <3>6. ASSUME NEW k \in Kinds, LoadRequest(w, k) PROVE req'[v] = req[v]
      BY <2>1, <3>6 DEF LoadRequest, Idle
    <3> QED
      BY <1>1, <3>1, <3>2, <3>3, <3>4, <3>5, <3>6 DEF RunnerCalls, AppCalls
<1>2. ASSUME NEW w \in Workers, NEW t \in Tasks, LoadRetry(w, t)
      PROVE  (w = v /\ req'[v].task = t) \/ req'[v] = req[v]
  BY <1>2, <1>a DEF LoadRetry, Idle
<1>3. ASSUME NEW w \in Workers, Serve(w)
      PROVE  req[v].op = "retry" /\ req'[v].task = req[v].task
  <2>1. CASE v # w
    <3>1. req'[v] = req[v]
      BY <1>3, <1>a, <2>1 DEF Serve, RefuseCall, Heartbeat, SaveNotes, CheckMedia, StoreMedia, Complete,
         RefuseReel, Fail, Admit, ClaimWaiting, PlanNew, NothingToDo, CreateAndClaim, ReplanOnConflict,
         HandBack, SaveClosedRun, EndOfClosing, CountRuns, CreateRun, RefuseStart, DecideWanted,
         CreateRequest, SaveRetry
    <3> QED
      BY <3>1
  <2>2. CASE v = w
    <3>1. req' # [req EXCEPT ![w] = Idle]
      BY <1>a, <2>2 DEF Idle
    <3>2. CASE \E pc : req' = [req EXCEPT ![w].pc = pc]
      <4>1. PICK pc : req' = [req EXCEPT ![w].pc = pc]
        BY <3>2
      <4>2. req'[w] = [req[w] EXCEPT !.pc = pc] /\ req[w] \in Request
        BY <1>a, <4>1
      <4>3. req'[w].op = req[w].op /\ req'[w].task = req[w].task
        BY <4>2 DEF Request
      <4> QED
        BY <2>2, <4>3
    <3>3. CASE PlanNew(w) \/ ReplanOnConflict(w)
      <4>1. req[w].op = "claim"
        BY <3>3 DEF PlanNew, ReplanOnConflict, At
      <4>2. req'[w].op = req[w].op
        <5>0. req[w] \in Request
          BY <1>a
        <5>1. CASE PlanNew(w)
          <6>1. PICK c, pc : req' = [req EXCEPT ![w].task = c, ![w].pc = pc]
            BY <5>1 DEF PlanNew
          <6>2. req'[w] = [req[w] EXCEPT !.task = c, !.pc = pc]
            BY <1>a, <6>1
          <6> QED
            BY <5>0, <6>2 DEF Request
        <5>2. CASE ReplanOnConflict(w)
          <6>1. req'[w] = [req[w] EXCEPT !.pc = "plan", !.task = NoTask]
            BY <1>a, <5>2 DEF ReplanOnConflict
          <6> QED
            BY <5>0, <6>1 DEF Request
        <5> QED
          BY <3>3, <5>1, <5>2
      <4> QED
        BY <2>2, <4>1, <4>2
    <3>4. CASE SaveClosedRun(w) \/ \E row \in req[w].todo : HandBack(w, row)
      <4>1. req[w] \in Request
        BY <1>a
      <4>2. CASE SaveClosedRun(w)
        <5>1. req'[w] = [req[w] EXCEPT !.pc = "close", !.row = NoRow]
          BY <1>a, <4>2 DEF SaveClosedRun
        <5> QED
          BY <2>2, <4>1, <5>1 DEF Request
      <4>3. CASE \E row \in req[w].todo : HandBack(w, row)
        <5>1. PICK row \in req[w].todo : HandBack(w, row)
          BY <4>3
        <5>2. req'[w] = [req[w] EXCEPT !.pc = "save run", !.row = row, !.todo = @ \ {row}]
          BY <1>a, <5>1 DEF HandBack
        <5> QED
          BY <2>2, <4>1, <5>2 DEF Request
      <4> QED
        BY <3>4, <4>2, <4>3
    <3> QED
      BY <1>3, <3>1, <3>2, <3>3, <3>4
      DEF Serve, RefuseCall, Heartbeat, SaveNotes, CheckMedia, StoreMedia, Complete,
         RefuseReel, Fail, Admit, ClaimWaiting, NothingToDo, CreateAndClaim,
         EndOfClosing, CountRuns, CreateRun, RefuseStart, DecideWanted, CreateRequest, SaveRetry
  <2> QED
    BY <2>1, <2>2
<1>4. CASE SwitchPipeline \/ Passing \/ UNCHANGED vars
  BY <1>4 DEF SwitchPipeline, Passing, LeaseExpires, FallsSilent, RunnerDies, RequestExpires, vars
<1> QED
  BY <1>1, <1>2, <1>3, <1>4 DEF Next

\* A task that ended without an output is left alone by everything but Retry.
LEMMA EndedStay ==
  ASSUME ClaimInv, [Next]_vars, NEW t \in Tasks, status[t] \in {"failed", "skipped"}
  PROVE  status'[t] = status[t] \/ \E w \in Workers : SaveRetry(w) /\ req[w].task = t
<1> USE DEF taskVars
<1>a. RowsOK
  BY ShapeParts DEF ClaimInv
<1>1. ASSUME NEW w \in Workers, Loud(w)
      PROVE  status'[t] = status[t] \/ (SaveRetry(w) /\ req[w].task = t)
  <2>1. CASE Heartbeat(w) \/ \E testable \in BOOLEAN : SaveNotes(w, testable)
    BY <2>1 DEF Heartbeat, SaveNotes
  <2>2. CASE \E items \in SUBSET (Stems \union {"reel"}), skip \in BOOLEAN : Complete(w, items, skip)
    BY <1>a, <2>2 DEF Complete, Held, RowsOK
  <2>3. CASE \E retryable \in BOOLEAN : Fail(w, retryable)
    BY <1>a, <2>3 DEF Fail, Held, RowsOK
  <2>4. CASE ClaimWaiting(w)
    <3>1. PICK c \in First(Waiting(req[w].kind)) : GiveTo(<<c, req[w].kind>>, req[w].run)
      BY <2>4 DEF ClaimWaiting
    <3>2. status[<<c, req[w].kind>>] \in {"pending", "claimed"}
      BY DEF First, Waiting
    <3> QED
      BY <1>a, <3>1, <3>2 DEF GiveTo, RowsOK
  <2>5. CASE CreateAndClaim(w)
    <3>1. status[req[w].task] = "absent"
      BY <2>5 DEF CreateAndClaim, ClaimInv, Flight, ReqFits, Inserting
    <3> QED
      BY <1>a, <2>5, <3>1 DEF CreateAndClaim, GiveTo, RowsOK
  <2>6. CASE \E row \in req[w].todo : HandBack(w, row)
    BY <2>6 DEF HandBack, ClaimedBy
  <2>7. CASE SaveRetry(w)
    BY <1>a, <2>7 DEF SaveRetry, RowsOK
  <2> QED
    BY <1>1, <2>1, <2>2, <2>3, <2>4, <2>5, <2>6, <2>7 DEF Loud
<1>2. ASSUME NEW u \in Tasks, LeaseExpires(u) PROVE status'[t] = status[t]
  BY <1>2 DEF LeaseExpires
<1> QED
  BY <1>1, <1>2, QuietSteps

LEMMA OneRetryStep ==
  "retry" \in Exclusive /\ ClaimInv /\ OneRetry /\ [Next]_vars => OneRetry'
<1> SUFFICES ASSUME "retry" \in Exclusive, ClaimInv, OneRetry, [Next]_vars PROVE OneRetry'
  OBVIOUS
<1>a. Shape /\ \A v \in Workers : ReqShape(req[v])
  BY DEF ClaimInv, Shape
<1>1. ASSUME NEW v \in Workers, NEW w \in Workers, req'[v].op = "retry", req'[w].op = "retry" PROVE v = w
  <2>1. ASSUME NEW u \in Workers, NEW x \in Workers, NEW t \in Tasks, LoadRetry(u, t), req'[x].op = "retry"
        PROVE  x = u
    <3>1. \A y \in Workers : req[y].op # "retry"
      BY <2>1 DEF LoadRetry, Takes
    <3>2. PICK s \in Tasks : LoadRetry(x, s)
      BY <1>a, <2>1, <3>1, RetryRequests
    <3>3. req'[x] = Idle \/ req'[x].op = "retry"
      BY <2>1
    <3>4. CASE x # u
      <4>1. req'[x] = req[x]
        BY <1>a, <2>1, <3>4 DEF LoadRetry, Open, Shape, TypeOK
      <4> QED
        BY <2>1, <3>1, <4>1
    <3> QED
      BY <3>4
  <2>2. CASE req[v].op = "retry" /\ req[w].op = "retry"
    BY <2>2 DEF OneRetry
  <2>3. CASE (\E t \in Tasks : LoadRetry(v, t)) \/ \E t \in Tasks : LoadRetry(w, t)
    BY <1>1, <2>1, <2>3
  <2> QED
    BY <1>a, <1>1, <2>2, <2>3, RetryRequests
<1>2. ASSUME NEW w \in Workers, req'[w].op = "retry" PROVE status'[req'[w].task] \in {"failed", "skipped"}
  <2>1. ASSUME NEW t \in Tasks, LoadRetry(w, t), req'[w].task = t
        PROVE  status'[req'[w].task] \in {"failed", "skipped"}
    BY <2>1 DEF LoadRetry, taskVars
  <2>2. CASE req[w].op = "retry" /\ req'[w].task = req[w].task
    <3>1. req[w].task \in Tasks /\ status[req[w].task] \in {"failed", "skipped"}
      BY <1>a, <2>2 DEF ReqShape, OneRetry
    <3>2. ASSUME NEW u \in Workers, SaveRetry(u) PROVE FALSE
      <4>1. u = w
        BY <2>2, <3>2 DEF SaveRetry, At, OneRetry
      <4>2. req'[w] = Idle
        BY <1>a, <3>2, <4>1 DEF SaveRetry, Answer, Shape, TypeOK
      <4> QED
        BY <1>2, <4>2, IdleNames
    <3>3. status'[req[w].task] = status[req[w].task]
      BY <3>1, <3>2, EndedStay
    <3> QED
      BY <2>2, <3>1, <3>3
  <2> QED
    BY <1>a, <1>2, <2>1, <2>2, RetryRequests
<1> QED
  BY <1>1, <1>2 DEF OneRetry

LEMMA OutputStep ==
  ClaimInv /\ OneRetry /\ DoneIffOutput /\ [Next]_vars => DoneIffOutput'
<1> SUFFICES ASSUME ClaimInv, OneRetry, DoneIffOutput, [Next]_vars, NEW t \in Tasks
             PROVE  status'[t] = "done" <=> output'[t] # {}
  BY DEF DoneIffOutput
<1> USE DEF taskVars
<1>a. RowsOK /\ (status[t] = "done" <=> output[t] # {})
  BY ShapeParts DEF ClaimInv, DoneIffOutput
<1>b. ASSUME UNCHANGED output, status'[t] = "done" <=> status[t] = "done"
      PROVE  status'[t] = "done" <=> output'[t] # {}
  BY <1>a, <1>b
<1>1. ASSUME NEW w \in Workers, Loud(w) PROVE status'[t] = "done" <=> output'[t] # {}
  <2>1. CASE Heartbeat(w) \/ \E testable \in BOOLEAN : SaveNotes(w, testable)
    BY <1>b, <2>1 DEF Heartbeat, SaveNotes
  <2>2. ASSUME NEW items \in SUBSET (Stems \union {"reel"}), NEW skip \in BOOLEAN, Complete(w, items, skip)
        PROVE  status'[t] = "done" <=> output'[t] # {}
    <3>1. CASE req[w].task # t
      BY <1>a, <2>2, <3>1 DEF Complete, RowsOK
    <3>2. CASE req[w].task = t
      <4>1. output[t] = {}
        BY <1>a, <2>2, <3>2 DEF Complete, Held
      <4>2. status'[t] = Outcome(t, items, skip) /\ output'[t] = items
        BY <1>a, <2>2, <3>2, <4>1 DEF Complete, RowsOK
      <4>3. Outcome(t, items, skip) = "done" <=> items # {}
        BY <4>1 DEF Outcome
      <4> QED
        BY <4>2, <4>3
    <3> QED
      BY <3>1, <3>2
  <2>3. CASE \E retryable \in BOOLEAN : Fail(w, retryable)
    BY <1>a, <1>b, <2>3 DEF Fail, Held, RowsOK
  <2>4. CASE ClaimWaiting(w)
    <3>1. PICK c \in First(Waiting(req[w].kind)) : GiveTo(<<c, req[w].kind>>, req[w].run)
      BY <2>4 DEF ClaimWaiting
    <3>2. status[<<c, req[w].kind>>] \in {"pending", "claimed"}
      BY DEF First, Waiting
    <3> QED
      BY <1>a, <1>b, <2>4, <3>1, <3>2 DEF ClaimWaiting, GiveTo, RowsOK
  <2>5. CASE CreateAndClaim(w)
    <3>1. status[req[w].task] = "absent"
      BY <2>5 DEF CreateAndClaim, ClaimInv, Flight, ReqFits, Inserting
    <3> QED
      BY <1>a, <1>b, <2>5, <3>1 DEF CreateAndClaim, GiveTo, RowsOK
  <2>6. CASE \E row \in req[w].todo : HandBack(w, row)
    BY <1>b, <2>6 DEF HandBack, ClaimedBy
  <2>7. CASE SaveRetry(w)
    <3>1. status[req[w].task] # "done"
      BY <2>7 DEF SaveRetry, At, OneRetry
    <3> QED
      BY <1>a, <1>b, <2>7, <3>1 DEF SaveRetry, RowsOK
  <2> QED
    BY <1>1, <2>1, <2>2, <2>3, <2>4, <2>5, <2>6, <2>7 DEF Loud
<1>2. ASSUME NEW u \in Tasks, LeaseExpires(u) PROVE status'[t] = "done" <=> output'[t] # {}
  BY <1>b, <1>2 DEF LeaseExpires
<1> QED
  BY <1>b, <1>1, <1>2, QuietSteps

LEMMA RetryInvariant == "retry" \in Exclusive => (Spec => []RetryInv)
<1> SUFFICES ASSUME "retry" \in Exclusive PROVE Spec => []RetryInv
  OBVIOUS
<1>1. Init => RetryInv
  BY IdleNames DEF Init, RetryInv, OneRetry, DoneIffOutput
<1>2. ClaimInv /\ RetryInv /\ [Next]_vars => RetryInv'
  BY OneRetryStep, OutputStep DEF RetryInv
<1> QED
  BY <1>1, <1>2, ClaimInvariant, PTL DEF Spec

\* As long as Retry requests do not overlap, a task is done exactly when its output
\* is stored: none is lost, doubled or stored for an open task.
THEOREM OutputsAreKept == "retry" \in Exclusive => (Spec => []DoneIffOutput)
<1> SUFFICES ASSUME "retry" \in Exclusive PROVE Spec => []DoneIffOutput
  OBVIOUS
<1>1. RetryInv => DoneIffOutput
  BY DEF RetryInv
<1> QED
  BY <1>1, RetryInvariant, PTL

-----------------------------------------------------------------------------
(* The refinement: every step of the server is a step of TaskLedger or leaves  *)
(* the ledger's variables alone.                                               *)

LEMMA LedgerInit == Init => Ledger!Init
  BY DEF Init, Ledger!Init, PhaseOf, NoRun

LEMMA LedgerStep ==
  ASSUME ClaimInv, OneRetry, [Next]_vars
  PROVE  [Ledger!Next]_(Ledger!vars)
<1> DEFINE phase  == [t \in Tasks |-> PhaseOf(status[t])]
           owner  == [t \in Tasks |-> IF status[t] = "claimed" THEN holder[t] ELSE NoRun]
           lapsed == [t \in Tasks |-> lease[t] = "expired"]
<1> USE DEF taskVars, chunkVars, runVars, envVars
<1>a. RowsOK /\ TaskRows
  BY ShapeParts DEF ClaimInv
<1>b. \A w \in Workers : req[w] \in Request /\ ReqShape(req[w]) /\ ReqFits(req[w])
  BY DEF ClaimInv, Shape, TypeOK, Flight
<1>c. \A t \in Tasks : lease[t] = "expired" => status[t] = "claimed"
  BY <1>a DEF TaskRows, LeaseIffClaimed
<1>q. ASSUME UNCHANGED <<taskVars, landed>> PROVE UNCHANGED Ledger!vars
  BY <1>q DEF Ledger!vars
<1>1. ASSUME NEW w \in Workers, Heartbeat(w) \/ \E testable \in BOOLEAN : SaveNotes(w, testable)
      PROVE  Ledger!Next
  <2>1. PICK t \in Tasks : t = req[w].task
    BY <1>1, <1>b DEF Heartbeat, SaveNotes, At, ReqShape, TaskOps
  <2>2. status[t] = "claimed"
    BY <1>1, <2>1 DEF Heartbeat, SaveNotes, Held
  <2>3. lease' = [lease EXCEPT ![t] = "live"] /\ UNCHANGED <<status, holder, attempts, landed>>
    BY <1>1, <2>1 DEF Heartbeat, SaveNotes
  <2>4. Ledger!Renew(t)
    BY <1>a, <2>2, <2>3 DEF Ledger!Renew, PhaseOf, RowsOK
  <2> QED
    BY <2>4 DEF Ledger!Next
<1>2. ASSUME NEW w \in Workers, NEW items \in SUBSET (Stems \union {"reel"}), NEW skip \in BOOLEAN,
             Complete(w, items, skip)
      PROVE  Ledger!Next
  <2>1. PICK t \in Tasks, r \in Runs : t = req[w].task /\ r = req[w].run
    BY <1>2, <1>b DEF Complete, At, ReqShape, RunOps
  <2>2. status[t] = "claimed" /\ holder[t] = r
    BY <1>2, <2>1 DEF Complete, Held
  <2>3. PICK p \in {"done", "skipped"} : p = Outcome(t, items, skip)
    BY DEF Outcome
  <2>4. /\ status' = [status EXCEPT ![t] = p] /\ lease' = [lease EXCEPT ![t] = "none"]
        /\ landed' = [landed EXCEPT ![r] = @ + 1] /\ UNCHANGED <<holder, attempts>>
    BY <1>2, <2>1, <2>3 DEF Complete
  <2>5. Ledger!Leave(t, p)
    BY <1>a, <2>4 DEF Ledger!Leave, PhaseOf, RowsOK
  <2>6. Ledger!Land(t)
    BY <2>2, <2>4, <2>5 DEF Ledger!Land, PhaseOf
  <2> QED
    BY <2>6 DEF Ledger!Next
<1>3. ASSUME NEW w \in Workers, NEW retryable \in BOOLEAN, Fail(w, retryable)
      PROVE  Ledger!Next
  <2>1. PICK t \in Tasks : t = req[w].task
    BY <1>3, <1>b DEF Fail, At, ReqShape, TaskOps
  <2>2. status[t] = "claimed"
    BY <1>3, <2>1 DEF Fail, Held
  <2>3. PICK s \in {"pending", "failed"} :
          status' = [status EXCEPT ![t] = s] /\ (s = "pending" => attempts[t] + 1 < MaxAttempts)
    BY <1>3, <2>1 DEF Fail, TriesLeft
  <2>4. /\ lease' = [lease EXCEPT ![t] = "none"] /\ attempts' = [attempts EXCEPT ![t] = @ + 1]
        /\ UNCHANGED <<holder, landed>>
    BY <1>3, <2>1 DEF Fail
  <2>5. Ledger!Leave(t, PhaseOf(s))
    BY <1>a, <2>3, <2>4 DEF Ledger!Leave, PhaseOf, RowsOK
  <2>6. Ledger!GiveUp(t)
    BY <2>2, <2>3, <2>4, <2>5 DEF Ledger!GiveUp, PhaseOf
  <2> QED
    BY <2>6 DEF Ledger!Next
<1>4. ASSUME NEW t \in Tasks, NEW r \in Runs, GiveTo(t, r), UNCHANGED <<attempts, landed>>,
             status[t] \in {"absent", "pending"} \/ lease[t] = "expired"
      PROVE  Ledger!Next
  <2>1. status[t] = "claimed" \/ status[t] \in {"absent", "pending"}
    BY <1>4, <1>c
  <2>2. Ledger!Give(t, r)
    BY <1>a, <1>4, <2>1 DEF Ledger!Give, GiveTo, PhaseOf, RowsOK
  <2> QED
    BY <2>2 DEF Ledger!Next
<1>5. ASSUME NEW w \in Workers, ClaimWaiting(w)
      PROVE  Ledger!Next
  <2>1. PICK k \in Kinds, r \in Runs : k = req[w].kind /\ r = req[w].run
    BY <1>5, <1>b, PipelineAssumption DEF ClaimWaiting, At, ReqShape, RunOps
  <2>2. PICK c \in First(Waiting(k)) : GiveTo(<<c, k>>, r)
    BY <1>5, <2>1 DEF ClaimWaiting
  <2>3. <<c, k>> \in Tasks /\ (status[<<c, k>>] = "pending" \/ lease[<<c, k>>] = "expired")
    BY DEF First, Waiting, Tasks
  <2> QED
    BY <1>4, <1>5, <2>2, <2>3 DEF ClaimWaiting
<1>6. ASSUME NEW w \in Workers, CreateAndClaim(w)
      PROVE  Ledger!Next
  <2>1. PICK t \in Tasks, r \in Runs : t = req[w].task /\ r = req[w].run
    BY <1>6, <1>b DEF CreateAndClaim, ReqShape, RunOps, Inserting
  <2>2. status[t] = "absent"
    BY <1>6, <1>b, <2>1 DEF CreateAndClaim, ReqFits, Inserting
  <2> QED
    BY <1>4, <1>6, <2>1, <2>2 DEF CreateAndClaim
<1>7. ASSUME NEW w \in Workers, NEW row \in req[w].todo, HandBack(w, row)
      PROVE  Ledger!Next \/ UNCHANGED Ledger!vars
  <2>1. row.run \in Runs \union {NoRun}
    BY <1>b DEF Request, Row
  <2>2. CASE row.run = NoRun
    <3>1. ClaimedBy(row.run) = {}
      BY <1>a, <2>2, ConstantTypes DEF ClaimedBy, TaskRows, LeaseIffClaimed
    <3>2. UNCHANGED <<taskVars, landed>>
      BY <1>7, <1>a, <3>1 DEF HandBack, RowsOK
    <3> QED
      BY <1>q, <3>2
  <2>3. CASE row.run \in Runs
    <3>1. PICK r \in Runs : r = row.run
      BY <2>3
    <3>2. \A t \in Tasks : t \in ClaimedBy(r) <=> PhaseOf(status[t]) = "held" /\ owner[t] = r
      BY <1>a DEF ClaimedBy, PhaseOf, RowsOK
    <3>3. /\ status' = [t \in Tasks |-> IF t \in ClaimedBy(r) THEN "pending" ELSE status[t]]
          /\ lease' = [t \in Tasks |-> IF t \in ClaimedBy(r) THEN "none" ELSE lease[t]]
          /\ UNCHANGED <<holder, attempts, landed>>
      BY <1>7, <3>1 DEF HandBack
    <3>4. Ledger!HandBackAll(r)
      BY <1>a, <3>2, <3>3 DEF Ledger!HandBackAll, PhaseOf, RowsOK, ClaimedBy
    <3> QED
      BY <3>4 DEF Ledger!Next
  <2> QED
    BY <2>1, <2>2, <2>3
<1>8. ASSUME NEW w \in Workers, SaveRetry(w)
      PROVE  Ledger!Next
  <2>1. PICK t \in Tasks : t = req[w].task
    BY <1>8, <1>b DEF SaveRetry, At, ReqShape
  <2>2. status[t] \in {"failed", "skipped"}
    BY <1>8, <2>1 DEF SaveRetry, At, OneRetry
  <2>3. /\ status' = [status EXCEPT ![t] = "pending"] /\ lease' = [lease EXCEPT ![t] = "none"]
        /\ attempts' = [attempts EXCEPT ![t] = 0] /\ UNCHANGED landed
        /\ \A u \in Tasks : u # t => holder'[u] = holder[u]
    BY <1>a, <1>8, <2>1 DEF SaveRetry, RowsOK
  <2>4. Ledger!Leave(t, "waiting")
    BY <1>a, <2>2, <2>3 DEF Ledger!Leave, PhaseOf, RowsOK
  <2>5. Ledger!Reopen(t)
    BY <2>2, <2>3, <2>4 DEF Ledger!Reopen, PhaseOf
  <2> QED
    BY <2>5 DEF Ledger!Next
<1>9. ASSUME NEW t \in Tasks, LeaseExpires(t)
      PROVE  Ledger!Next
  <2>1. Ledger!Lapse(t)
    BY <1>a, <1>9 DEF LeaseExpires, Ledger!Lapse, PhaseOf, RowsOK
  <2> QED
    BY <2>1 DEF Ledger!Next
<1> QED
  BY <1>q, <1>1, <1>2, <1>3, <1>5, <1>6, <1>7, <1>8, <1>9, QuietSteps DEF Loud

\* The server implements the ledger as long as Retry requests do not overlap: a live
\* claim is never taken from its run, a completion is credited to the claim's holder
\* only, a done task never reopens.
THEOREM Refinement == "retry" \in Exclusive => (Spec => ImplementsLedger)
<1> SUFFICES ASSUME "retry" \in Exclusive PROVE Spec => Ledger!Spec
  BY DEF ImplementsLedger
<1>1. ClaimInv /\ RetryInv /\ [Next]_vars => [Ledger!Next]_(Ledger!vars)
  BY LedgerStep DEF RetryInv
<1> QED
  BY <1>1, LedgerInit, ClaimInvariant, RetryInvariant, PTL DEF Spec, Ledger!Spec
-----------------------------------------------------------------------------
(* The cap of a run, provided its runner waits for each answer.                *)

Burden(r) == landed[r] + Cardinality(ClaimedBy(r))

\* A runner has one call in the server at a time.
OneCall == \A v, w \in Workers : req[v].run # NoRun /\ req[v].run = req[w].run => v = w

\* Until it is admitted a claim carries the run's true count; after that there is room.
Admitted(q) ==
    q.op = "claim" => IF q.pc = "admit" THEN q.row.done = landed[q.run]
                                        ELSE Burden(q.run) < MaxTasksPerRun

CapInv == RunCapHolds /\ OneCall /\ \A w \in Workers : Admitted(req[w])

\* The tasks are the chunks and one task of each other kind: every set of them is finite.
LEMMA TasksAreFinite == \A S \in SUBSET Tasks : IsFiniteSet(S) /\ Cardinality(S) \in Nat
<1>1. IsFiniteSet(Chunks)
  BY PipelineAssumption, FS_Interval DEF Chunks
<1>2. IsFiniteSet({"quiz", "reel"})
  BY FS_EmptySet, FS_AddElement, {"quiz", "reel"} = ({} \union {"quiz"}) \union {"reel"}
<1>3. IsFiniteSet(Tasks)
  BY <1>1, <1>2, FS_Product DEF Tasks, Kinds
<1> QED
  BY <1>3, FS_Subset, FS_CardinalityType

\* What steps do to the claims of a run.
LEMMA ClaimSizes ==
  ASSUME NEW S, NEW T, IsFiniteSet(S)
  PROVE  /\ T \subseteq S => Cardinality(T) <= Cardinality(S)
         /\ \A t : T \subseteq S \union {t} => Cardinality(T) <= Cardinality(S) + 1
         /\ \A t \in S : T \subseteq S \ {t} => Cardinality(T) <= Cardinality(S) - 1
<1>0. Cardinality(S) \in Nat
  BY FS_CardinalityType
<1>1. T \subseteq S => Cardinality(T) <= Cardinality(S)
  BY FS_Subset
<1>2. ASSUME NEW t, T \subseteq S \union {t} PROVE Cardinality(T) <= Cardinality(S) + 1
  <2>1. IsFiniteSet(S \union {t}) /\ Cardinality(S \union {t}) <= Cardinality(S) + 1
    BY <1>0, FS_AddElement
  <2>2. IsFiniteSet(T) /\ Cardinality(T) <= Cardinality(S \union {t})
    BY <1>2, <2>1, FS_Subset
  <2> QED
    BY <1>0, <2>1, <2>2, FS_CardinalityType
<1>3. ASSUME NEW t \in S, T \subseteq S \ {t} PROVE Cardinality(T) <= Cardinality(S) - 1
  <2>1. IsFiniteSet(S \ {t}) /\ Cardinality(S \ {t}) = Cardinality(S) - 1
    BY FS_RemoveElement
  <2> QED
    BY <1>3, <2>1, FS_Subset
<1> QED
  BY <1>1, <1>2, <1>3

\* What a run has completed and holds is a number.
LEMMA BurdenType ==
  ASSUME Shape, Shape', NEW r \in Runs
  PROVE  Burden(r) \in Nat /\ Burden(r)' \in Nat
<1>1. ClaimedBy(r) \in SUBSET Tasks /\ ClaimedBy(r)' \in SUBSET Tasks
  BY DEF ClaimedBy
<1>2. landed[r] \in Nat /\ landed'[r] \in Nat
  BY DEF Shape, TypeOK
<1>3. Cardinality(ClaimedBy(r)) \in Nat /\ Cardinality(ClaimedBy(r)') \in Nat
  BY <1>1, TasksAreFinite
<1> QED
  BY <1>2, <1>3 DEF Burden

\* Only a claim that was admitted adds to what a run has completed and holds, and adds one.
LEMMA Burdens ==
  ASSUME Shape, Shape', [Next]_vars, NEW r \in Runs
  PROVE  \/ landed'[r] = landed[r] /\ Burden(r)' <= Burden(r)
         \/ /\ \E w \in Workers : req[w].op = "complete" /\ req[w].run = r
            /\ Burden(r)' <= Burden(r)
         \/ /\ \E w \in Workers : /\ req[w].op = "claim" /\ req[w].pc # "admit" /\ req[w].run = r
                                  /\ req'[w] = Idle
            /\ landed'[r] = landed[r] /\ Burden(r)' <= Burden(r) + 1
<1> USE DEF taskVars, chunkVars, runVars, envVars
<1>a. RowsOK /\ req \in [Workers -> Request] /\ \A v \in Workers : ReqShape(req[v])
  BY ShapeParts DEF Shape, TypeOK
<1>b. landed[r] \in Nat /\ landed'[r] \in Nat
  BY DEF Shape, TypeOK
<1>c. /\ IsFiniteSet(ClaimedBy(r)) /\ Cardinality(ClaimedBy(r)) \in Nat
      /\ Cardinality(ClaimedBy(r)') \in Nat
  <2>1. ClaimedBy(r) \in SUBSET Tasks /\ ClaimedBy(r)' \in SUBSET Tasks
    BY DEF ClaimedBy
  <2> QED
    BY <2>1, TasksAreFinite
<1>d. ASSUME UNCHANGED landed, ClaimedBy(r)' \subseteq ClaimedBy(r)
      PROVE  landed'[r] = landed[r] /\ Burden(r)' <= Burden(r)
  BY <1>b, <1>c, <1>d, ClaimSizes DEF Burden
<1>1. ASSUME NEW w \in Workers, NEW items \in SUBSET (Stems \union {"reel"}), NEW skip \in BOOLEAN,
             Complete(w, items, skip)
      PROVE  \/ landed'[r] = landed[r] /\ Burden(r)' <= Burden(r)
             \/ req[w].op = "complete" /\ req[w].run = r /\ Burden(r)' <= Burden(r)
  <2> DEFINE t == req[w].task
  <2>1. /\ req[w].op = "complete" /\ t \in ClaimedBy(req[w].run) /\ UNCHANGED holder
        /\ status' = [status EXCEPT ![t] = Outcome(t, items, skip)]
        /\ landed' = [landed EXCEPT ![req[w].run] = @ + 1]
    BY <1>a, <1>1 DEF Complete, At, Held, ClaimedBy, ReqShape, RunOps
  <2>2. Outcome(t, items, skip) # "claimed"
    BY DEF Outcome
  <2>3. ClaimedBy(r)' \subseteq ClaimedBy(r) \ {t}
    BY <1>a, <2>1, <2>2 DEF ClaimedBy, RowsOK
  <2>4. CASE req[w].run = r
    <3>1. landed'[r] = landed[r] + 1
      BY <1>a, <2>1, <2>4 DEF RowsOK
    <3>2. Cardinality(ClaimedBy(r)') <= Cardinality(ClaimedBy(r)) - 1
      BY <1>c, <2>1, <2>3, <2>4, ClaimSizes
    <3> QED
      BY <1>b, <1>c, <2>1, <2>4, <3>1, <3>2 DEF Burden
  <2>5. CASE req[w].run # r
    <3>1. landed'[r] = landed[r]
      BY <1>a, <2>1, <2>5 DEF RowsOK
    <3>2. Cardinality(ClaimedBy(r)') <= Cardinality(ClaimedBy(r))
      BY <1>c, <2>3, ClaimSizes
    <3> QED
      BY <1>b, <1>c, <3>1, <3>2 DEF Burden
  <2> QED
    BY <2>4, <2>5
<1>2. ASSUME NEW w \in Workers, ClaimWaiting(w) \/ CreateAndClaim(w)
      PROVE  \/ landed'[r] = landed[r] /\ Burden(r)' <= Burden(r)
             \/ /\ req[w].op = "claim" /\ req[w].pc # "admit" /\ req[w].run = r /\ req'[w] = Idle
                /\ landed'[r] = landed[r] /\ Burden(r)' <= Burden(r) + 1
  <2>1. PICK t : GiveTo(t, req[w].run)
    BY <1>2 DEF ClaimWaiting, CreateAndClaim
  <2>2. req[w].op = "claim" /\ req[w].pc # "admit" /\ req'[w] = Idle /\ UNCHANGED landed
    BY <1>2, <1>a DEF ClaimWaiting, CreateAndClaim, At, Answer
  <2>3. CASE req[w].run = r
    <3>1. ClaimedBy(r)' \subseteq ClaimedBy(r) \union {t}
      BY <1>a, <2>1 DEF GiveTo, ClaimedBy, RowsOK
    <3>2. Cardinality(ClaimedBy(r)') <= Cardinality(ClaimedBy(r)) + 1
      BY <1>c, <3>1, ClaimSizes
    <3> QED
      BY <1>b, <1>c, <2>2, <2>3, <3>2 DEF Burden
  <2>4. CASE req[w].run # r
    <3>1. ClaimedBy(r)' \subseteq ClaimedBy(r)
      BY <1>a, <2>1, <2>4 DEF GiveTo, ClaimedBy, RowsOK
    <3> QED
      BY <1>d, <2>2, <3>1
  <2> QED
    BY <2>3, <2>4
<1>3. ASSUME NEW w \in Workers, Loud(w)
      PROVE  \/ UNCHANGED landed /\ ClaimedBy(r)' \subseteq ClaimedBy(r)
             \/ \E items \in SUBSET (Stems \union {"reel"}), skip \in BOOLEAN : Complete(w, items, skip)
             \/ ClaimWaiting(w) \/ CreateAndClaim(w)
  <2>1. CASE Heartbeat(w) \/ \E testable \in BOOLEAN : SaveNotes(w, testable)
    BY <2>1 DEF Heartbeat, SaveNotes, ClaimedBy
  <2>2. CASE \E retryable \in BOOLEAN : Fail(w, retryable)
    BY <1>a, <2>2 DEF Fail, ClaimedBy, RowsOK
  <2>3. CASE \E row \in req[w].todo : HandBack(w, row)
    <3>1. PICK row \in req[w].todo : HandBack(w, row)
      BY <2>3
    <3>2. \A t \in Tasks : status'[t] = "claimed" => status[t] = "claimed"
      BY <3>1 DEF HandBack
    <3> QED
      BY <3>1, <3>2 DEF HandBack, ClaimedBy
  <2>4. CASE SaveRetry(w)
    BY <1>a, <2>4 DEF SaveRetry, ClaimedBy, RowsOK
  <2> QED
    BY <1>3, <2>1, <2>2, <2>3, <2>4 DEF Loud
<1>4. ASSUME NEW t \in Tasks, LeaseExpires(t) PROVE UNCHANGED landed /\ ClaimedBy(r)' \subseteq ClaimedBy(r)
  BY <1>4 DEF LeaseExpires, ClaimedBy
<1>5. ASSUME UNCHANGED <<taskVars, landed>> PROVE UNCHANGED landed /\ ClaimedBy(r)' \subseteq ClaimedBy(r)
  BY <1>5 DEF ClaimedBy
<1> QED
  BY <1>d, <1>1, <1>2, <1>3, <1>4, <1>5, QuietSteps

\* How a request comes to be what it is after a step: a request that goes on is still
\* of its run, and a new one of a runner's finds no other.
Taken(v) ==
    /\ Calls(req'[v].run) /\ state[req'[v].run] = "active" /\ UNCHANGED landed
    /\ \A o \in Workers \ {v} : req'[o] = req[o]
    /\ req'[v].op = "claim" => /\ req'[v].pc = "admit" /\ req'[v].row = RowOf(req'[v].run)
                               /\ req'[v].run \in Runs

GoesOn(q, new) ==
    /\ new.run \in {NoRun, q.run}
    /\ new.op = "claim" /\ new # q => /\ q.op = "claim" /\ new.run = q.run /\ new.pc # "admit"
                                      /\ q.pc # "admit" \/ MayClaim(q)

\* A request changes by being loaded, which the runner does one at a time, or by its own
\* steps, of which only Admit lets a claim past its check.
LEMMA RequestTurns ==
  ASSUME Shape, [Next]_vars, NEW v \in Workers
  PROVE  Taken(v) \/ GoesOn(req[v], req'[v])
<1> USE DEF Open, Answer, Goto
<1>a. req \in [Workers -> Request] /\ req[v] \in Request
  BY DEF Shape, TypeOK
<1>b. GoesOn(req[v], req[v]) /\ GoesOn(req[v], Idle)
  BY DEF GoesOn, Idle
<1>c. ASSUME NEW w \in Workers, NEW q, req' = [req EXCEPT ![w] = q], w = v => GoesOn(req[v], q)
      PROVE  GoesOn(req[v], req'[v])
  BY <1>a, <1>b, <1>c
<1>d. ASSUME NEW w \in Workers, NEW q, req' = [req EXCEPT ![w] = q], q.run = NoRun, q.op # "claim"
      PROVE  GoesOn(req[v], req'[v])
  <2>1. GoesOn(req[v], q)
    BY <1>d DEF GoesOn
  <2> QED
    BY <1>c, <1>d, <2>1
<1>e. ASSUME NEW w \in Workers, NEW op \in {"sweep", "start", "wanted"}, NEW k \in Kinds \union {"none"},
             LoadSweep(w, op, k)
      PROVE  GoesOn(req[v], req'[v])
  <2> DEFINE q == [Idle EXCEPT !.op = op, !.pc = "close", !.kind = k,
                               !.todo = {RowOf(r) : r \in Abandoned}, !.why = "abandoned"]
  <2>1. req' = [req EXCEPT ![w] = q] /\ q.run = NoRun /\ q.op # "claim"
    BY <1>e DEF LoadSweep, Idle
  <2> HIDE DEF q
  <2> QED
    BY <1>d, <2>1
<1>1. ASSUME NEW w \in Workers, RunnerCalls(w) PROVE Taken(v) \/ GoesOn(req[v], req'[v])
  <2>1. ASSUME NEW q, NEW r \in Runs, req' = [req EXCEPT ![w] = q], q.run = r, Calls(r), UNCHANGED landed,
               q.op = "claim" => q.pc = "admit" /\ q.row = RowOf(r)
        PROVE  Taken(v) \/ GoesOn(req[v], req'[v])
    <3>1. CASE w = v
      BY <1>a, <2>1, <3>1 DEF Taken, Calls
    <3>2. CASE w # v
      BY <1>c, <2>1, <3>2
    <3> QED
      BY <3>1, <3>2
  <2>2. ASSUME NEW r \in Runs, NEW t \in Tasks, NEW op \in TaskOps, LoadTaskCall(w, op, r, t)
        PROVE  Taken(v) \/ GoesOn(req[v], req'[v])
    BY <2>1, <2>2 DEF LoadTaskCall, Idle, TaskOps
  <2>3. ASSUME NEW r \in Runs, NEW t \in Tasks, LoadComplete(w, r, t)
        PROVE  Taken(v) \/ GoesOn(req[v], req'[v])
    BY <2>1, <2>3 DEF LoadComplete, Idle, runVars
  <2>4. ASSUME NEW r \in Runs, LoadClaim(w, r) PROVE Taken(v) \/ GoesOn(req[v], req'[v])
    BY <2>1, <2>4 DEF LoadClaim, Idle
  <2>5. ASSUME NEW r \in Runs, NEW why \in {"idle", "stopped"}, LoadFinish(w, r, why)
        PROVE  Taken(v) \/ GoesOn(req[v], req'[v])
    BY <2>1, <2>5 DEF LoadFinish, Idle, runVars
  <2> QED
    BY <1>1, <1>e, <2>2, <2>3, <2>4, <2>5 DEF RunnerCalls
<1>2. ASSUME NEW w \in Workers, AppCalls(w) PROVE GoesOn(req[v], req'[v])
  <2>1. ASSUME NEW k \in Kinds, LoadRequest(w, k) PROVE GoesOn(req[v], req'[v])
    <3> DEFINE q == [Idle EXCEPT !.op = "request", !.pc = "create", !.kind = k]
    <3>1. req' = [req EXCEPT ![w] = q] /\ q.run = NoRun /\ q.op # "claim"
      BY <2>1 DEF LoadRequest, Idle
    <3> HIDE DEF q
    <3> QED
      BY <1>d, <3>1
  <2>2. ASSUME NEW t \in Tasks, LoadRetry(w, t) PROVE GoesOn(req[v], req'[v])
    <3> DEFINE q == [Idle EXCEPT !.op = "retry", !.pc = "save", !.task = t,
                                 !.row = [NoRow EXCEPT !.run = holder[t]]]
    <3>1. req' = [req EXCEPT ![w] = q] /\ q.run = NoRun /\ q.op # "claim"
      BY <2>2 DEF LoadRetry, Idle
    <3> HIDE DEF q
    <3> QED
      BY <1>d, <3>1
  <2> QED
    BY <1>2, <1>e, <2>1, <2>2 DEF AppCalls
<1>3. ASSUME NEW w \in Workers, Serve(w) PROVE GoesOn(req[v], req'[v])
  <2>0. req[w] \in Request
    BY <1>a
  <2>1. CASE req' = [req EXCEPT ![w] = Idle]
    BY <1>b, <1>c, <2>1
  <2>2. ASSUME NEW q, req' = [req EXCEPT ![w] = q], q.run = req[w].run, q.op = req[w].op,
               q.op = "claim" => q.pc # "admit" /\ (req[w].pc # "admit" \/ MayClaim(req[w]))
        PROVE  GoesOn(req[v], req'[v])
    <3>1. w = v => GoesOn(req[v], q)
      BY <2>2 DEF GoesOn
    <3> QED
      BY <1>c, <2>2, <3>1
  <2>3. CASE Admit(w)
    <3>1. CASE MayClaim(req[w])
      BY <2>0, <2>2, <2>3, <3>1 DEF Admit, Request
    <3>2. CASE ~MayClaim(req[w])
      BY <2>1, <2>3, <3>2 DEF Admit
    <3> QED
      BY <3>1, <3>2
  <2>4. CASE PlanNew(w)
    <3>1. PICK c, pc : /\ pc \in {"insert chunk", "insert task"}
                       /\ req' = [req EXCEPT ![w].task = c, ![w].pc = pc]
      BY <2>4 DEF PlanNew
    <3>2. req' = [req EXCEPT ![w] = [req[w] EXCEPT !.task = c, !.pc = pc]]
      BY <1>a, <3>1
    <3>3. req[w].pc = "plan"
      BY <2>4 DEF PlanNew, At
    <3> DEFINE q == [req[w] EXCEPT !.task = c, !.pc = pc]
    <3>4. q.run = req[w].run /\ q.op = req[w].op /\ q.pc = pc /\ pc # "admit"
      BY <2>0, <3>1 DEF Request
    <3>5. req' = [req EXCEPT ![w] = q]
      BY <3>2
    <3> HIDE DEF q
    <3> QED
      BY <2>2, <3>3, <3>4, <3>5
  <2>5. CASE ReplanOnConflict(w)
    <3>1. req' = [req EXCEPT ![w] = [req[w] EXCEPT !.pc = "plan", !.task = NoTask]] /\ req[w].pc = "insert chunk"
      BY <1>a, <2>5 DEF ReplanOnConflict, At
    <3> QED
      BY <2>0, <2>2, <3>1 DEF Request
  <2>6. CASE \E row \in req[w].todo : HandBack(w, row)
    <3>1. PICK row \in req[w].todo : HandBack(w, row)
      BY <2>6
    <3>2. req' = [req EXCEPT ![w] = [req[w] EXCEPT !.pc = "save run", !.row = row, !.todo = @ \ {row}]]
          /\ req[w].pc = "close"
      BY <1>a, <3>1 DEF HandBack
    <3> QED
      BY <2>0, <2>2, <3>2 DEF Request
  <2>7. CASE SaveClosedRun(w)
    <3>1. req' = [req EXCEPT ![w] = [req[w] EXCEPT !.pc = "close", !.row = NoRow]] /\ req[w].pc = "save run"
      BY <1>a, <2>7 DEF SaveClosedRun
    <3> QED
      BY <2>0, <2>2, <3>1 DEF Request
  <2>8. ASSUME NEW pc, req' = [req EXCEPT ![w].pc = pc], req[w].op # "claim" PROVE GoesOn(req[v], req'[v])
    <3>1. req' = [req EXCEPT ![w] = [req[w] EXCEPT !.pc = pc]]
      BY <1>a, <2>8
    <3> QED
      BY <2>0, <2>2, <2>8, <3>1 DEF Request
  <2>9. CASE CheckMedia(w) \/ CountRuns(w)
    BY <2>1, <2>8, <2>9 DEF CheckMedia, CountRuns, At
  <2>10. CASE EndOfClosing(w)
    BY <2>1, <2>8, <2>10 DEF EndOfClosing
  <2> QED
    BY <1>3, <2>1, <2>3, <2>4, <2>5, <2>6, <2>7, <2>9, <2>10
    DEF Serve, RefuseCall, Heartbeat, SaveNotes, StoreMedia, Complete, RefuseReel, Fail,
        ClaimWaiting, NothingToDo, CreateAndClaim, CreateRun, RefuseStart, DecideWanted,
        CreateRequest, SaveRetry
<1>4. CASE SwitchPipeline \/ Passing \/ UNCHANGED vars
  <2>1. req' = req
    BY <1>4 DEF SwitchPipeline, Passing, LeaseExpires, FallsSilent, RunnerDies, RequestExpires, vars
  <2> QED
    BY <1>b, <2>1
<1> QED
  BY <1>1, <1>2, <1>3, <1>4 DEF Next

\* No step gives a run that waits for each answer a second call.
LEMMA OneCallStep == Sequential /\ Shape /\ OneCall /\ [Next]_vars => OneCall'
<1> SUFFICES ASSUME Sequential, Shape, OneCall, [Next]_vars,
                    NEW v \in Workers, NEW w \in Workers, req'[v].run # NoRun, req'[v].run = req'[w].run, v # w
             PROVE  FALSE
  BY DEF OneCall
<1>1. CASE Taken(v)
  BY <1>1 DEF Taken, Calls
<1>2. CASE Taken(w)
  BY <1>2 DEF Taken, Calls
<1>3. CASE GoesOn(req[v], req'[v]) /\ GoesOn(req[w], req'[w])
  BY <1>3 DEF GoesOn, OneCall
<1> QED
  BY <1>1, <1>2, <1>3, RequestTurns

\* Nothing changes the count of a run under its only call.
LEMMA AdmittedStep ==
  Sequential /\ Shape /\ Shape' /\ Counted /\ CapInv /\ [Next]_vars => \A w \in Workers : Admitted(req[w])'
<1> SUFFICES ASSUME Sequential, Shape, Shape', Counted, CapInv, [Next]_vars, NEW v \in Workers,
                    req'[v].op = "claim"
             PROVE  Admitted(req[v])'
  BY DEF Admitted
<1>0. req'[v].run \in Runs
  BY DEF Shape, ReqShape, RunOps
<1>1. CASE Taken(v)
  BY <1>0, <1>1 DEF Taken, Counted, RowOf, Admitted
<1>2. CASE ~Taken(v)
  <2>1. GoesOn(req[v], req'[v])
    BY <1>2, RequestTurns
  <2>2. PICK r \in Runs : r = req'[v].run
    BY <1>0
  <2>3. /\ req[v].op = "claim" /\ req[v].run = r /\ r # NoRun
        /\ req'[v].pc = "admit" => req'[v] = req[v]
        /\ req'[v].pc # "admit" => req[v].pc # "admit" \/ MayClaim(req[v])
    BY <2>1, <2>2, ConstantTypes DEF GoesOn
  <2>4. /\ req[v].pc = "admit" => req[v].row.done = landed[r]
        /\ req[v].pc # "admit" => Burden(r) < MaxTasksPerRun
    BY <2>3 DEF CapInv, Admitted
  <2>5. \A w \in Workers : req[w].run = r => w = v
    BY <2>3 DEF CapInv, OneCall
  <2>6. landed'[r] = landed[r] /\ Burden(r)' <= Burden(r)
    BY <2>2, <2>3, <2>5, Burdens, IdleNames
  <2>7. CASE req'[v].pc = "admit"
    BY <2>2, <2>3, <2>4, <2>6, <2>7 DEF Admitted
  <2>8. CASE req'[v].pc # "admit"
    <3>1. Burden(r) < MaxTasksPerRun
      BY <2>3, <2>4, <2>8 DEF MayClaim, Burden
    <3>2. Burden(r)' < MaxTasksPerRun
      BY <2>6, <3>1, BurdenType, PipelineAssumption
    <3> QED
      BY <2>2, <2>8, <3>2 DEF Admitted, Burden, ClaimedBy
  <2> QED
    BY <2>7, <2>8
<1> QED
  BY <1>1, <1>2

\* The invariant is inductive: a lease is granted to an admitted claim only.
LEMMA CapStep == Sequential /\ Shape /\ Shape' /\ Counted /\ CapInv /\ [Next]_vars => CapInv'
<1> SUFFICES ASSUME Sequential, Shape, Shape', Counted, CapInv, [Next]_vars PROVE RunCapHolds'
  BY OneCallStep, AdmittedStep DEF CapInv
<1>1. ASSUME NEW r \in Runs PROVE Burden(r)' <= MaxTasksPerRun
  <2>1. Burden(r) <= MaxTasksPerRun
    BY DEF CapInv, RunCapHolds, Burden
  <2>2. ASSUME NEW w \in Workers, req[w].op = "claim", req[w].pc # "admit", req[w].run = r
        PROVE  Burden(r) < MaxTasksPerRun
    BY <2>2 DEF CapInv, Admitted
  <2> QED
    BY <2>1, <2>2, BurdenType, Burdens, PipelineAssumption
<1> QED
  BY <1>1 DEF RunCapHolds, Burden

\* A runner that waits for each answer never holds or completes more tasks than
\* max_tasks_per_run, although claim() adds what it loaded to what it counts.
THEOREM RunCapIsKept == Sequential => (Spec => []RunCapHolds)
<1> SUFFICES ASSUME Sequential PROVE Spec => []RunCapHolds
  OBVIOUS
<1>1. Init => Counted /\ CapInv
  <2> SUFFICES ASSUME Init PROVE CapInv
    BY DEF Init, Counted
  <2>1. ASSUME NEW r \in Runs PROVE landed[r] + Cardinality(ClaimedBy(r)) <= MaxTasksPerRun
    <3>1. ClaimedBy(r) = {} /\ landed[r] = 0
      BY DEF Init, ClaimedBy
    <3> QED
      BY <3>1, FS_EmptySet, PipelineAssumption
  <2> QED
    BY <2>1 DEF CapInv, RunCapHolds, OneCall, Admitted, Init, Idle
<1>2. CapInv => RunCapHolds
  BY DEF CapInv
<1>3. Shape /\ Shape' /\ Counted /\ CapInv /\ [Next]_vars => CapInv'
  BY CapStep
<1> QED
  BY <1>1, <1>2, <1>3, CountedStep, ShapeInvariant, PTL DEF Spec

-----------------------------------------------------------------------------
(* The daily cap, provided start_run is not served twice at once and a runner   *)
(* waits for each answer.                                                       *)

OneStart == \A v, w \in Workers : req[v].op = "start" /\ req[w].op = "start" => v = w

\* What a request that closes runs writes: finish() what the run has completed, the
\* others "abandoned".
Closing(q) ==
    /\ q.op = "finish" => /\ \A row \in q.todo : row.run = q.run /\ row.done = landed[q.run]
                          /\ q.pc = "save run" => q.row.run = q.run /\ q.row.done = landed[q.run]
    /\ q.pc \in {"close", "save run"} /\ q.op # "finish" => q.why = "abandoned"

Completing(r) == \E w \in Workers : req[w].op = "complete" /\ req[w].run = r

\* A run that has completed work keeps counting, and one that was closed as idle has
\* no call left that could complete any.
Credited(r) ==
    /\ landed[r] # 0 => state[r] # "absent" /\ CountsToday(r)
    /\ reason[r] = "idle" => state[r] = "finished" /\ ~Completing(r)
    /\ Completing(r) => state[r] # "absent"

\* The runs that have completed work or still may.
May(r)     == landed[r] # 0 \/ state[r] = "active" \/ Completing(r)
MayRuns(k) == {r \in Runs : KindOf[r] = k /\ May(r)}

Capped ==
    \A k \in Kinds :
        /\ Cardinality(MayRuns(k)) <= MaxRunsPerDay
        /\ \A w \in Workers : At(w, "start", "create") /\ req[w].kind = k => Cardinality(MayRuns(k)) < MaxRunsPerDay

Daily ==
    /\ OneStart
    /\ \A w \in Workers : Closing(req[w])
    /\ \A r \in Runs : Credited(r)
    /\ Capped

LEMMA RunsAreFinite == \A S \in SUBSET Runs : IsFiniteSet(S) /\ Cardinality(S) \in Nat
<1>1. IsFiniteSet(Runs)
  BY PipelineAssumption, FS_Interval DEF Runs
<1> QED
  BY <1>1, FS_Subset, FS_CardinalityType

LEMMA FewerMay ==
  ASSUME NEW k, \A r \in Runs : May(r)' => May(r)
  PROVE  Cardinality(MayRuns(k)') <= Cardinality(MayRuns(k))
<1>1. MayRuns(k)' \subseteq MayRuns(k) /\ MayRuns(k) \subseteq Runs
  BY DEF MayRuns
<1> QED
  BY <1>1, RunsAreFinite, FS_Subset

\* Runs that may still complete work count against the cap.
LEMMA MayCount ==
  ASSUME Daily, NEW k PROVE Cardinality(MayRuns(k)) <= RunsToday(k)
<1> DEFINE S == {r \in Runs : KindOf[r] = k /\ CountsToday(r)}
<1>1. \A r \in Runs : May(r) => CountsToday(r)
  BY DEF Daily, Credited, May, CountsToday
<1>2. MayRuns(k) \subseteq S /\ S \subseteq Runs
  BY <1>1 DEF MayRuns
<1> HIDE DEF S
<1>3. Cardinality(MayRuns(k)) <= Cardinality(S)
  BY <1>2, RunsAreFinite, FS_Subset
<1> QED
  BY <1>3 DEF RunsToday, S

\* A request turns into q, and no run's row changes.
LEMMA DailyTurn ==
  ASSUME Shape, Daily, NEW w \in Workers, NEW q, req' = [req EXCEPT ![w] = q],
         UNCHANGED <<state, reason, tasksDone, landed>>, Closing(q),
         q.op = "complete" => (q.run \in Runs /\ state[q.run] = "active") \/ (req[w].op = "complete" /\ q.run = req[w].run),
         q.op = "start" => req[w].op = "start" \/ \A v \in Workers : req[v].op # "start",
         q.op = "start" /\ q.pc = "create" => Cardinality(MayRuns(q.kind)) < MaxRunsPerDay
  PROVE  Daily'
<1>1. req'[w] = q /\ \A v \in Workers \ {w} : req'[v] = req[v]
  BY DEF Shape, TypeOK
<1>2. OneStart'
  BY <1>1 DEF Daily, OneStart
<1>3. \A v \in Workers : Closing(req'[v])
  BY <1>1 DEF Daily
<1>4. \A v \in Workers : Closing(req[v])'
  BY <1>3 DEF Closing
<1>5. ASSUME NEW r \in Runs, Completing(r)' PROVE Completing(r) \/ state[r] = "active"
  BY <1>1, <1>5 DEF Completing
<1>6. \A r \in Runs : Credited(r)'
  BY <1>5 DEF Daily, Credited, CountsToday
<1>7. \A r \in Runs : May(r)' => May(r)
  BY <1>5 DEF May
<1>8. ASSUME NEW k \in Kinds
      PROVE  /\ Cardinality(MayRuns(k)') <= MaxRunsPerDay
             /\ \A v \in Workers : At(v, "start", "create")' /\ req'[v].kind = k => Cardinality(MayRuns(k)') < MaxRunsPerDay
  <2>1. /\ Cardinality(MayRuns(k)') \in Nat /\ Cardinality(MayRuns(k)) \in Nat
        /\ Cardinality(MayRuns(k)') <= Cardinality(MayRuns(k))
    BY <1>7, FewerMay, RunsAreFinite DEF MayRuns
  <2>2. ASSUME NEW v \in Workers, At(v, "start", "create")', req'[v].kind = k
        PROVE  Cardinality(MayRuns(k)) < MaxRunsPerDay
    BY <1>1, <2>2 DEF Daily, Capped, At
  <2> QED
    BY <2>1, <2>2, PipelineAssumption DEF Daily, Capped
<1> QED
  BY <1>2, <1>4, <1>6, <1>8 DEF Daily, Capped

\* A step that changes neither a run nor a request that matters here.
LEMMA DailySame ==
  ASSUME Daily, UNCHANGED <<state, reason, tasksDone, landed, req>> PROVE Daily'
<1>1. \A r \in Runs : May(r)' = May(r) /\ CountsToday(r)' = CountsToday(r)
  BY DEF May, Completing, CountsToday
<1>2. \A k : MayRuns(k)' = MayRuns(k)
  BY <1>1 DEF MayRuns
<1> QED
  BY <1>1, <1>2 DEF Daily, OneStart, Closing, Credited, Completing, Capped, At

LEMMA DailyLoad ==
  ASSUME "start" \in Exclusive, Shape, Daily, Counted, NEW w \in Workers, RunnerCalls(w) \/ AppCalls(w)
  PROVE  Daily'
<1> USE DEF Open, runVars
<1>1. ASSUME NEW r \in Runs, NEW t \in Tasks, NEW op \in TaskOps, LoadTaskCall(w, op, r, t) PROVE Daily'
  <2> DEFINE q == [Idle EXCEPT !.op = op, !.pc = "locked", !.run = r, !.task = t]
  <2>1. q.op = op /\ q.pc = "locked"
    BY DEF Idle
  <2>2. Closing(q) /\ q.op # "complete" /\ q.op # "start"
    BY <2>1 DEF Closing, TaskOps
  <2>3. req' = [req EXCEPT ![w] = q] /\ UNCHANGED <<state, reason, tasksDone, landed>>
    BY <1>1 DEF LoadTaskCall
  <2> HIDE DEF q
  <2> QED
    BY <2>2, <2>3, DailyTurn
<1>2. ASSUME NEW r \in Runs, NEW t \in Tasks, LoadComplete(w, r, t) PROVE Daily'
  <2> DEFINE q == [Idle EXCEPT !.op = "complete", !.pc = "locked", !.run = r, !.task = t]
  <2>1. q.op = "complete" /\ q.pc = "locked" /\ q.run = r
    BY DEF Idle
  <2>2. Closing(q)
    BY <2>1 DEF Closing
  <2>3. req' = [req EXCEPT ![w] = q] /\ UNCHANGED <<state, reason, tasksDone, landed>> /\ state[r] = "active"
    BY <1>2 DEF LoadComplete, Calls
  <2> HIDE DEF q
  <2> QED
    BY <2>1, <2>2, <2>3, DailyTurn
<1>3. ASSUME NEW r \in Runs, LoadClaim(w, r) PROVE Daily'
  <2> DEFINE q == [Idle EXCEPT !.op = "claim", !.pc = "admit", !.kind = KindOf[r], !.run = r, !.row = RowOf(r)]
  <2>1. q.op = "claim" /\ q.pc = "admit"
    BY DEF Idle
  <2>2. Closing(q)
    BY <2>1 DEF Closing
  <2>3. req' = [req EXCEPT ![w] = q] /\ UNCHANGED <<state, reason, tasksDone, landed>>
    BY <1>3 DEF LoadClaim
  <2> HIDE DEF q
  <2> QED
    BY <2>1, <2>2, <2>3, DailyTurn
<1>4. ASSUME NEW r \in Runs, NEW why \in {"idle", "stopped"}, LoadFinish(w, r, why) PROVE Daily'
  <2> DEFINE q == [Idle EXCEPT !.op = "finish", !.pc = "close", !.run = r, !.todo = {RowOf(r)}, !.why = why]
  <2>1. q.op = "finish" /\ q.pc = "close" /\ q.run = r /\ q.todo = {RowOf(r)}
    BY DEF Idle
  <2>2. RowOf(r).run = r /\ RowOf(r).done = landed[r]
    BY <1>4 DEF RowOf, LoadFinish, Calls, Counted
  <2>3. Closing(q)
    BY <2>1, <2>2 DEF Closing
  <2>4. req' = [req EXCEPT ![w] = q] /\ UNCHANGED <<state, reason, tasksDone, landed>>
    BY <1>4 DEF LoadFinish
  <2> HIDE DEF q
  <2> QED
    BY <2>1, <2>3, <2>4, DailyTurn
<1>5. ASSUME NEW op \in {"sweep", "start", "wanted"}, NEW k \in Kinds \union {"none"}, LoadSweep(w, op, k) PROVE Daily'
  <2> DEFINE q == [Idle EXCEPT !.op = op, !.pc = "close", !.kind = k,
                               !.todo = {RowOf(r) : r \in Abandoned}, !.why = "abandoned"]
  <2>1. q.op = op /\ q.pc = "close" /\ q.why = "abandoned"
    BY DEF Idle
  <2>2. Closing(q) /\ q.op # "complete"
    BY <2>1 DEF Closing
  <2>3. req' = [req EXCEPT ![w] = q] /\ UNCHANGED <<state, reason, tasksDone, landed>>
    BY <1>5 DEF LoadSweep
  <2>4. q.op = "start" => \A v \in Workers : req[v].op # "start"
    BY <1>5, <2>1 DEF LoadSweep, Takes
  <2> HIDE DEF q
  <2> QED
    BY <2>1, <2>2, <2>3, <2>4, DailyTurn
<1>6. ASSUME NEW k \in Kinds, LoadRequest(w, k) PROVE Daily'
  <2> DEFINE q == [Idle EXCEPT !.op = "request", !.pc = "create", !.kind = k]
  <2>1. q.op = "request" /\ q.pc = "create"
    BY DEF Idle
  <2>2. Closing(q)
    BY <2>1 DEF Closing
  <2>3. req' = [req EXCEPT ![w] = q] /\ UNCHANGED <<state, reason, tasksDone, landed>>
    BY <1>6 DEF LoadRequest
  <2> HIDE DEF q
  <2> QED
    BY <2>1, <2>2, <2>3, DailyTurn
<1>7. ASSUME NEW t \in Tasks, LoadRetry(w, t) PROVE Daily'
  <2> DEFINE q == [Idle EXCEPT !.op = "retry", !.pc = "save", !.task = t, !.row = [NoRow EXCEPT !.run = holder[t]]]
  <2>1. q.op = "retry" /\ q.pc = "save"
    BY DEF Idle
  <2>2. Closing(q)
    BY <2>1 DEF Closing
  <2>3. req' = [req EXCEPT ![w] = q] /\ UNCHANGED <<state, reason, tasksDone, landed>>
    BY <1>7 DEF LoadRetry
  <2> HIDE DEF q
  <2> QED
    BY <2>1, <2>2, <2>3, DailyTurn
<1> QED
  BY <1>1, <1>2, <1>3, <1>4, <1>5, <1>6, <1>7 DEF RunnerCalls, AppCalls

\* Work is completed by the only call of its run, which counted as one that may.
LEMMA DailyComplete ==
  ASSUME Shape, Daily, OneCall, NEW w \in Workers,
         NEW items \in SUBSET (Stems \union {"reel"}), NEW skip \in BOOLEAN, Complete(w, items, skip)
  PROVE  Daily'
<1> DEFINE r == req[w].run
<1>1. /\ r \in Runs /\ req[w].op = "complete" /\ req' = [req EXCEPT ![w] = Idle] /\ UNCHANGED <<state, reason>>
      /\ tasksDone' = [tasksDone EXCEPT ![r] = @ + 1] /\ landed' = [landed EXCEPT ![r] = @ + 1]
  BY DEF Complete, CountWork, Answer, At, Shape, ReqShape, RunOps
<1>2. req'[w] = Idle /\ \A v \in Workers \ {w} : req'[v] = req[v]
  BY <1>1 DEF Shape, TypeOK
<1>3. tasksDone \in [Runs -> Nat] /\ landed \in [Runs -> Nat] /\ r # NoRun
  BY <1>1, ConstantTypes DEF Shape, TypeOK
<1>4. /\ tasksDone'[r] # 0 /\ \A o \in Runs \ {r} : tasksDone'[o] = tasksDone[o] /\ landed'[o] = landed[o]
  BY <1>1, <1>3
<1>5. \A v \in Workers \ {w} : req[v].run # r
  BY <1>1, <1>3 DEF OneCall
<1> HIDE DEF r
<1>6. OneStart'
  BY <1>2, IdleNames DEF Daily, OneStart
<1>7. ASSUME NEW v \in Workers PROVE Closing(req[v])'
  <2>1. CASE v = w
    BY <1>2, <2>1, IdleNames DEF Closing
  <2>2. CASE v # w /\ req[v].op = "finish"
    <3>1. req[v].run \in Runs /\ req[v].run # r
      BY <1>5, <2>2 DEF Shape, ReqShape, RunOps
    <3>2. req'[v] = req[v] /\ landed'[req[v].run] = landed[req[v].run]
      BY <1>2, <1>4, <2>2, <3>1
    <3>3. Closing(req[v])
      BY DEF Daily
    <3> QED
      BY <2>2, <3>2, <3>3 DEF Closing
  <2>3. CASE v # w /\ req[v].op # "finish"
    BY <1>2, <2>3 DEF Daily, Closing
  <2> QED
    BY <2>1, <2>2, <2>3
<1>8. \A o \in Runs : Completing(o)' => Completing(o)
  BY <1>2, IdleNames DEF Completing
<1>9. Completing(r)
  BY <1>1 DEF Completing, r
<1>10. \A o \in Runs : May(o)' => May(o)
  <2> TAKE o \in Runs
  <2>1. CASE o = r
    BY <1>9, <2>1 DEF May
  <2>2. CASE o # r
    BY <1>1, <1>4, <1>8, <2>2 DEF May
  <2> QED
    BY <2>1, <2>2
<1>11. ASSUME NEW o \in Runs PROVE Credited(o)'
  <2>1. CASE o = r
    BY <1>1, <1>4, <1>8, <1>9, <2>1 DEF Daily, Credited, CountsToday
  <2>2. CASE o # r
    BY <1>1, <1>4, <1>8, <2>2 DEF Daily, Credited, CountsToday
  <2> QED
    BY <2>1, <2>2
<1>12. ASSUME NEW k \in Kinds
       PROVE  /\ Cardinality(MayRuns(k)') <= MaxRunsPerDay
              /\ \A v \in Workers : At(v, "start", "create")' /\ req'[v].kind = k => Cardinality(MayRuns(k)') < MaxRunsPerDay
  <2>1. /\ Cardinality(MayRuns(k)') \in Nat /\ Cardinality(MayRuns(k)) \in Nat
        /\ Cardinality(MayRuns(k)') <= Cardinality(MayRuns(k))
    BY <1>10, FewerMay, RunsAreFinite DEF MayRuns
  <2>2. ASSUME NEW v \in Workers, At(v, "start", "create")', req'[v].kind = k
        PROVE  Cardinality(MayRuns(k)) < MaxRunsPerDay
    BY <1>2, <2>2, IdleNames DEF Daily, Capped, At
  <2> QED
    BY <2>1, <2>2, PipelineAssumption DEF Daily, Capped
<1> QED
  BY <1>6, <1>7, <1>11, <1>12 DEF Daily, Capped

\* Closing a run writes what it has completed, or that it was abandoned.
LEMMA DailySave ==
  ASSUME Shape, Daily, OneCall, NEW w \in Workers, SaveClosedRun(w)
  PROVE  Daily'
<1> DEFINE row == req[w].row
<1> DEFINE q == [req[w] EXCEPT !.pc = "close", !.row = NoRow]
<1>1. req[w] \in Request /\ req[w].pc = "save run"
  BY DEF Shape, TypeOK, SaveClosedRun
<1>2. /\ q.op = req[w].op /\ q.pc = "close" /\ q.run = req[w].run /\ q.todo = req[w].todo
      /\ q.why = req[w].why /\ q.kind = req[w].kind
  BY <1>1 DEF Request
<1>3. req' = [req EXCEPT ![w] = q] /\ req'[w] = q /\ \A v \in Workers \ {w} : req'[v] = req[v]
  BY DEF Shape, TypeOK, SaveClosedRun
<1> HIDE DEF q
<1>4. /\ landed' = landed
      /\ state' = [state EXCEPT ![row.run] = "finished"]
      /\ reason' = [reason EXCEPT ![row.run] = req[w].why]
      /\ tasksDone' = [tasksDone EXCEPT ![row.run] = row.done]
  BY DEF SaveClosedRun
<1>5. /\ state \in [Runs -> {"absent", "active", "finished"}]
      /\ reason \in [Runs -> {"none", "idle", "stopped", "abandoned"}] /\ tasksDone \in [Runs -> Nat]
  BY DEF Shape, TypeOK
<1>6. \A o \in Runs : o # row.run => state'[o] = state[o] /\ reason'[o] = reason[o] /\ tasksDone'[o] = tasksDone[o]
  BY <1>4, <1>5
<1>7. row.run \in Runs => /\ state'[row.run] = "finished" /\ reason'[row.run] = req[w].why
                          /\ tasksDone'[row.run] = row.done
  BY <1>4, <1>5
<1>8. /\ req[w].op = "finish" => /\ \A x \in req[w].todo : x.run = req[w].run /\ x.done = landed[req[w].run]
                                 /\ row.run = req[w].run /\ row.done = landed[req[w].run]
      /\ req[w].op # "finish" => req[w].why = "abandoned"
  BY <1>1 DEF Daily, Closing
<1>9. OneStart'
  BY <1>2, <1>3 DEF Daily, OneStart
<1>10. ASSUME NEW v \in Workers PROVE Closing(req[v])'
  <2>1. CASE v = w
    BY <1>2, <1>3, <1>4, <1>8, <2>1 DEF Closing
  <2>2. CASE v # w
    <3>1. Closing(req[v]) /\ req'[v] = req[v]
      BY <1>3, <2>2 DEF Daily
    <3> QED
      BY <1>4, <3>1 DEF Closing
  <2> QED
    BY <2>1, <2>2
<1>11. \A o \in Runs : Completing(o)' => Completing(o)
  BY <1>2, <1>3 DEF Completing
<1>12. \A o \in Runs : May(o)' => May(o)
  <2> TAKE o \in Runs
  <2>1. state'[o] = "active" => state[o] = "active"
    BY <1>6, <1>7
  <2> QED
    BY <1>4, <1>11, <2>1 DEF May
<1>13. ASSUME NEW o \in Runs PROVE Credited(o)'
  <2>1. CASE o # row.run
    <3>1. Credited(o)
      BY DEF Daily
    <3> QED
      BY <1>4, <1>6, <1>11, <2>1, <3>1 DEF Credited, CountsToday
  <2>2. CASE o = row.run /\ req[w].op = "finish"
    <3>1. o = req[w].run /\ o # NoRun /\ tasksDone'[o] = landed'[o] /\ state'[o] = "finished"
      BY <1>4, <1>7, <1>8, <2>2, ConstantTypes
    <3>2. \A v \in Workers : req[v].run = o => v = w
      BY <3>1 DEF OneCall
    <3>3. ~Completing(o)'
      BY <1>2, <1>3, <2>2, <3>2 DEF Completing
    <3> QED
      BY <3>1, <3>3 DEF Credited, CountsToday
  <2>3. CASE o = row.run /\ req[w].op # "finish"
    <3>1. state'[o] = "finished" /\ reason'[o] = "abandoned"
      BY <1>7, <1>8, <2>3
    <3> QED
      BY <3>1 DEF Credited, CountsToday
  <2> QED
    BY <2>1, <2>2, <2>3
<1>14. ASSUME NEW k \in Kinds
       PROVE  /\ Cardinality(MayRuns(k)') <= MaxRunsPerDay
              /\ \A v \in Workers : At(v, "start", "create")' /\ req'[v].kind = k => Cardinality(MayRuns(k)') < MaxRunsPerDay
  <2>1. /\ Cardinality(MayRuns(k)') \in Nat /\ Cardinality(MayRuns(k)) \in Nat
        /\ Cardinality(MayRuns(k)') <= Cardinality(MayRuns(k))
    BY <1>12, FewerMay, RunsAreFinite DEF MayRuns
  <2>2. ASSUME NEW v \in Workers, At(v, "start", "create")', req'[v].kind = k
        PROVE  Cardinality(MayRuns(k)) < MaxRunsPerDay
    BY <1>2, <1>3, <2>2 DEF Daily, Capped, At
  <2> QED
    BY <2>1, <2>2, PipelineAssumption DEF Daily, Capped
<1> QED
  BY <1>9, <1>10, <1>13, <1>14 DEF Daily, Capped

\* A run is started by the only start request, which counted one run fewer.
LEMMA DailyCreate ==
  ASSUME Shape, Daily, NEW w \in Workers, CreateRun(w)
  PROVE  Daily'
<1> DEFINE k == req[w].kind
<1>1. At(w, "start", "create") /\ req' = [req EXCEPT ![w] = Idle] /\ UNCHANGED <<reason, tasksDone, landed>>
  BY DEF CreateRun, Answer
<1>2. PICK r \in First(NextRun(k)) : state' = [state EXCEPT ![r] = "active"]
  BY DEF CreateRun
<1>3. k \in Kinds /\ req[w].op = "start"
  BY <1>1 DEF At, Shape, ReqShape
<1>4. req'[w] = Idle /\ \A v \in Workers \ {w} : req'[v] = req[v]
  BY <1>1 DEF Shape, TypeOK
<1>5. r \in Runs /\ state[r] = "absent" /\ KindOf[r] = k
  BY <1>2 DEF First, NextRun
<1>6. state'[r] = "active" /\ \A o \in Runs \ {r} : state'[o] = state[o]
  BY <1>2, <1>5 DEF Shape, TypeOK
<1>7. Cardinality(MayRuns(k)) < MaxRunsPerDay
  BY <1>1, <1>3 DEF Daily, Capped
<1> HIDE DEF k
<1>8. OneStart'
  BY <1>4, IdleNames DEF Daily, OneStart
<1>9. ASSUME NEW v \in Workers PROVE Closing(req[v])'
  <2>1. CASE v = w
    BY <1>4, <2>1, IdleNames DEF Closing
  <2>2. CASE v # w
    <3>1. Closing(req[v]) /\ req'[v] = req[v]
      BY <1>4, <2>2 DEF Daily
    <3> QED
      BY <1>1, <3>1 DEF Closing
  <2> QED
    BY <2>1, <2>2
<1>10. \A o \in Runs : Completing(o)' => Completing(o)
  BY <1>4, IdleNames DEF Completing
<1>11. ASSUME NEW o \in Runs PROVE Credited(o)'
  <2>0. Credited(o)
    BY DEF Daily
  <2>1. CASE o = r
    <3>1. reason[o] # "idle"
      BY <1>5, <2>0, <2>1 DEF Credited
    <3> QED
      BY <1>1, <1>6, <2>1, <3>1 DEF Credited, CountsToday
  <2>2. CASE o # r
    BY <1>1, <1>6, <1>10, <2>0, <2>2 DEF Credited, CountsToday
  <2> QED
    BY <2>1, <2>2
<1>12. \A o \in Runs : o # r /\ May(o)' => May(o)
  BY <1>1, <1>6, <1>10 DEF May
<1>13. ASSUME NEW j \in Kinds
       PROVE  /\ Cardinality(MayRuns(j)') <= MaxRunsPerDay
              /\ \A v \in Workers : At(v, "start", "create")' /\ req'[v].kind = j => Cardinality(MayRuns(j)') < MaxRunsPerDay
  <2>1. \A v \in Workers : ~At(v, "start", "create")'
    <3>1. \A v \in Workers : req'[v].op # "start"
      BY <1>3, <1>4, IdleNames DEF Daily, OneStart
    <3> QED
      BY <3>1 DEF At
  <2>2. CASE j = k
    <3>1. MayRuns(j)' \subseteq MayRuns(j) \union {r}
      BY <1>12 DEF MayRuns
    <3>2. IsFiniteSet(MayRuns(j)) /\ Cardinality(MayRuns(j)) \in Nat /\ Cardinality(MayRuns(j)') \in Nat
      BY RunsAreFinite DEF MayRuns
    <3>3. /\ IsFiniteSet(MayRuns(j) \union {r})
          /\ Cardinality(MayRuns(j) \union {r}) \in {Cardinality(MayRuns(j)), Cardinality(MayRuns(j)) + 1}
      BY <3>2, FS_AddElement
    <3>4. Cardinality(MayRuns(j)') <= Cardinality(MayRuns(j) \union {r})
      BY <3>1, <3>3, FS_Subset
    <3> QED
      BY <1>7, <2>1, <2>2, <3>2, <3>3, <3>4, PipelineAssumption
  <2>3. CASE j # k
    <3>1. MayRuns(j)' \subseteq MayRuns(j)
      BY <1>5, <1>12, <2>3 DEF MayRuns
    <3>2. MayRuns(j) \subseteq Runs /\ MayRuns(j)' \subseteq Runs
      BY DEF MayRuns
    <3>3. /\ Cardinality(MayRuns(j)') \in Nat /\ Cardinality(MayRuns(j)) \in Nat
          /\ Cardinality(MayRuns(j)') <= Cardinality(MayRuns(j))
      BY <3>1, <3>2, RunsAreFinite, FS_Subset
    <3> QED
      BY <2>1, <3>3, PipelineAssumption DEF Daily, Capped
  <2> QED
    BY <2>2, <2>3
<1> QED
  BY <1>8, <1>9, <1>11, <1>13 DEF Daily, Capped

\* Serving a request: what matters is what it closes, starts and completes.
LEMMA DailyServe ==
  ASSUME Shape, Daily, OneCall, NEW w \in Workers, Serve(w)
  PROVE  Daily'
<1> USE DEF Answer, Goto, runVars
<1>a. req \in [Workers -> Request] /\ req[w] \in Request
  BY DEF Shape, TypeOK
<1>b. Closing(req[w])
  BY DEF Daily
<1>1. ASSUME req' = [req EXCEPT ![w] = Idle], UNCHANGED <<state, reason, tasksDone, landed>> PROVE Daily'
  <2>1. Closing(Idle) /\ Idle.op = "idle"
    BY IdleNames DEF Closing
  <2> QED
    BY <1>1, <2>1, DailyTurn
<1>2. ASSUME NEW q, req' = [req EXCEPT ![w] = q], UNCHANGED <<state, reason, tasksDone, landed>>,
             q.op = req[w].op, q.run = req[w].run, q.kind = req[w].kind, q.todo \subseteq req[w].todo,
             q.why = req[w].why, q.pc \in {"close", "save run"} => req[w].pc \in {"close", "save run"},
             q.pc = "save run" => q.row \in req[w].todo, q.op # "start" \/ q.pc # "create"
      PROVE  Daily'
  <2>1. Closing(q)
    BY <1>b, <1>2 DEF Closing
  <2> QED
    BY <1>2, <2>1, DailyTurn
<1>3. ASSUME NEW pc \in {"store", "plan", "decide"}, req' = [req EXCEPT ![w].pc = pc],
             UNCHANGED <<state, reason, tasksDone, landed>>
      PROVE  Daily'
  <2> DEFINE q == [req[w] EXCEPT !.pc = pc]
  <2>1. req' = [req EXCEPT ![w] = q]
    BY <1>a, <1>3
  <2>2. /\ q.op = req[w].op /\ q.run = req[w].run /\ q.kind = req[w].kind /\ q.todo = req[w].todo
        /\ q.why = req[w].why /\ q.pc = pc
    BY <1>a DEF Request
  <2> HIDE DEF q
  <2> QED
    BY <1>2, <1>3, <2>1, <2>2
<1>4. CASE Admit(w) \/ CheckMedia(w) \/ EndOfClosing(w)
  BY <1>1, <1>3, <1>4 DEF Admit, CheckMedia, EndOfClosing
<1>5. CASE PlanNew(w)
  <2>1. PICK c, pc : /\ pc \in {"insert chunk", "insert task"}
                     /\ req' = [req EXCEPT ![w].task = c, ![w].pc = pc]
                     /\ UNCHANGED <<state, reason, tasksDone, landed>>
    BY <1>5 DEF PlanNew
  <2> DEFINE q == [req[w] EXCEPT !.task = c, !.pc = pc]
  <2>2. req' = [req EXCEPT ![w] = q]
    BY <1>a, <2>1
  <2>3. /\ q.op = req[w].op /\ q.run = req[w].run /\ q.kind = req[w].kind /\ q.todo = req[w].todo
        /\ q.why = req[w].why /\ q.pc = pc
    BY <1>a DEF Request
  <2> HIDE DEF q
  <2> QED
    BY <1>2, <2>1, <2>2, <2>3
<1>6. CASE ReplanOnConflict(w)
  <2> DEFINE q == [req[w] EXCEPT !.pc = "plan", !.task = NoTask]
  <2>1. req' = [req EXCEPT ![w] = q] /\ UNCHANGED <<state, reason, tasksDone, landed>>
    BY <1>a, <1>6 DEF ReplanOnConflict
  <2>2. /\ q.op = req[w].op /\ q.run = req[w].run /\ q.kind = req[w].kind /\ q.todo = req[w].todo
        /\ q.why = req[w].why /\ q.pc = "plan"
    BY <1>a DEF Request
  <2> HIDE DEF q
  <2> QED
    BY <1>2, <2>1, <2>2
<1>7. CASE \E row \in req[w].todo : HandBack(w, row)
  <2>1. PICK row \in req[w].todo : HandBack(w, row)
    BY <1>7
  <2> DEFINE q == [req[w] EXCEPT !.pc = "save run", !.row = row, !.todo = @ \ {row}]
  <2>2. /\ req' = [req EXCEPT ![w] = q] /\ UNCHANGED <<state, reason, tasksDone, landed>>
        /\ req[w].pc = "close"
    BY <1>a, <2>1 DEF HandBack
  <2>3. /\ q.op = req[w].op /\ q.run = req[w].run /\ q.kind = req[w].kind /\ q.todo \subseteq req[w].todo
        /\ q.why = req[w].why /\ q.pc = "save run" /\ q.row = row
    BY <1>a DEF Request
  <2> HIDE DEF q
  <2> QED
    BY <1>2, <2>1, <2>2, <2>3
<1>8. CASE CountRuns(w)
  <2> DEFINE q == [req[w] EXCEPT !.pc = "create"]
  <2>1. /\ q.op = "start" /\ q.kind = req[w].kind /\ q.pc = "create" /\ req[w].op = "start"
    BY <1>a, <1>8 DEF Request, CountRuns, At
  <2>2. UNCHANGED <<state, reason, tasksDone, landed>>
    BY <1>8 DEF CountRuns
  <2>3. CASE UnderDailyCap(req[w].kind)
    <3>1. req' = [req EXCEPT ![w] = q]
      BY <1>a, <1>8, <2>3 DEF CountRuns
    <3>2. Closing(q)
      BY <2>1 DEF Closing
    <3>3. Cardinality(MayRuns(req[w].kind)) <= RunsToday(req[w].kind) /\ RunsToday(req[w].kind) < MaxRunsPerDay
      BY <2>3, MayCount DEF UnderDailyCap
    <3>4. Cardinality(MayRuns(req[w].kind)) \in Nat /\ RunsToday(req[w].kind) \in Nat
      BY RunsAreFinite DEF MayRuns, RunsToday
    <3>5. Cardinality(MayRuns(q.kind)) < MaxRunsPerDay
      BY <2>1, <3>3, <3>4, PipelineAssumption
    <3> HIDE DEF q
    <3> QED
      BY <2>1, <2>2, <3>1, <3>2, <3>5, DailyTurn
  <2>4. CASE ~UnderDailyCap(req[w].kind)
    BY <1>1, <1>8, <2>2, <2>4 DEF CountRuns
  <2> QED
    BY <2>3, <2>4
<1>9. CASE \/ RefuseCall(w) \/ Heartbeat(w) \/ \E testable \in BOOLEAN : SaveNotes(w, testable)
           \/ \E whole \in BOOLEAN : StoreMedia(w, whole)
           \/ RefuseReel(w) \/ \E retryable \in BOOLEAN : Fail(w, retryable)
           \/ ClaimWaiting(w) \/ NothingToDo(w) \/ CreateAndClaim(w) \/ RefuseStart(w) \/ DecideWanted(w)
           \/ CreateRequest(w) \/ SaveRetry(w)
  BY <1>1, <1>9 DEF RefuseCall, Heartbeat, SaveNotes, StoreMedia, RefuseReel, Fail, ClaimWaiting,
                    NothingToDo, CreateAndClaim, RefuseStart, DecideWanted, CreateRequest, SaveRetry
<1> QED
  BY <1>4, <1>5, <1>6, <1>7, <1>8, <1>9, DailyComplete, DailySave, DailyCreate DEF Serve

LEMMA DailyStep ==
  ASSUME "start" \in Exclusive, Shape, Daily, Counted, OneCall, [Next]_vars PROVE Daily'
<1>1. CASE SwitchPipeline \/ Passing \/ UNCHANGED vars
  <2>1. UNCHANGED <<state, reason, tasksDone, landed, req>>
    BY <1>1 DEF SwitchPipeline, Passing, LeaseExpires, FallsSilent, RunnerDies, RequestExpires, vars, runVars
  <2> QED
    BY <2>1, DailySame
<1> QED
  BY <1>1, DailyLoad, DailyServe DEF Next

\* With one start_run at a time, no more runs of a kind than the daily cap allows
\* complete work, although runs that found nothing to do are not counted and a
\* closing writes a run's counters from the row it loaded.
THEOREM DailyCapIsKept == "start" \in Exclusive /\ Sequential => (Spec => []DailyCapHolds)
<1> SUFFICES ASSUME "start" \in Exclusive, Sequential PROVE Spec => []DailyCapHolds
  OBVIOUS
<1>1. Init => Counted /\ OneCall /\ Daily
  <2> SUFFICES ASSUME Init PROVE Counted /\ OneCall /\ Daily
    OBVIOUS
  <2>1. \A v \in Workers : req[v] = Idle
    BY DEF Init
  <2>2. Counted /\ OneCall /\ OneStart
    BY <2>1 DEF Init, Counted, OneCall, OneStart, Idle
  <2>3. \A v \in Workers : Closing(req[v])
    BY <2>1, IdleNames DEF Closing
  <2>4. \A r \in Runs : ~Completing(r)
    BY <2>1, IdleNames DEF Completing
  <2>5. \A r \in Runs : Credited(r) /\ ~May(r)
    BY <2>4 DEF Init, Credited, May
  <2>6. ASSUME NEW k \in Kinds
        PROVE  /\ Cardinality(MayRuns(k)) <= MaxRunsPerDay
               /\ \A v \in Workers : ~At(v, "start", "create")
    <3>1. MayRuns(k) = {}
      BY <2>5 DEF MayRuns
    <3>2. \A v \in Workers : ~At(v, "start", "create")
      BY <2>1, IdleNames DEF At
    <3> QED
      BY <3>1, <3>2, FS_EmptySet, PipelineAssumption
  <2> QED
    BY <2>2, <2>3, <2>5, <2>6 DEF Daily, Capped
<1>2. Daily => DailyCapHolds
  <2> SUFFICES ASSUME Daily, NEW k \in Kinds
               PROVE  Cardinality({r \in Runs : KindOf[r] = k /\ landed[r] > 0}) <= MaxRunsPerDay
    BY DEF DailyCapHolds
  <2> DEFINE S == {r \in Runs : KindOf[r] = k /\ landed[r] > 0}
  <2>1. S \subseteq MayRuns(k) /\ MayRuns(k) \subseteq Runs /\ S \subseteq Runs
    BY DEF MayRuns, May
  <2> HIDE DEF S
  <2>2. /\ Cardinality(S) <= Cardinality(MayRuns(k))
        /\ Cardinality(S) \in Nat /\ Cardinality(MayRuns(k)) \in Nat
    BY <2>1, RunsAreFinite, FS_Subset
  <2> QED
    BY <2>2, PipelineAssumption DEF Daily, Capped, S
<1>3. Shape /\ Counted /\ OneCall /\ Daily /\ [Next]_vars => Counted' /\ OneCall' /\ Daily'
  BY CountedStep, OneCallStep, DailyStep
<1> QED
  BY <1>1, <1>2, <1>3, ShapeInvariant, PTL DEF Spec
=============================================================================
