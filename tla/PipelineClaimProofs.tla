------------------------ MODULE PipelineClaimProofs ------------------------
(* Types, claims, leases, attempts and outputs: what every interleaving of the *)
(* requests keeps, for every value of the constants.  The requests in flight   *)
(* are the hard part: a handler acts on what an earlier step loaded.           *)
EXTENDS PipelineLedger, FiniteSetTheorems, TLAPS

-----------------------------------------------------------------------------
(* What the requests in flight carry.                                          *)

RunOps    == TaskOps \union {"complete", "claim", "finish"}
Inserting(q) == q.pc \in {"insert task", "insert chunk"}

\* A request is about what its operation is about.
ReqShape(q) ==
    /\ q.op \in RunOps => q.run \in Runs
    /\ q.op \in TaskOps \union {"complete"} => q.task \in Tasks /\ q.task[2] = KindOf[q.run]
    /\ q.op = "claim" => q.kind = KindOf[q.run]
    /\ q.op \in {"start", "wanted", "request"} => q.kind \in Kinds
    /\ q.op = "retry" => q.task \in Tasks
    /\ Inserting(q) => q.op = "claim" /\ q.task \in Tasks /\ q.task[2] = q.kind

\* A runner is only ever handed tasks of its run's kind.
HandedShape == \A r \in Runs : \A t \in handed[r] : t[2] = KindOf[r]

Shape == TypeOK /\ (\A w \in Workers : ReqShape(req[w])) /\ HandedShape

LEMMA ConstantTypes == /\ Idle \in Request /\ ReqShape(Idle) /\ NoRow \in Row
                       /\ NoRun \notin Runs /\ NoTask \notin Tasks
  BY PipelineAssumption
  DEF Idle, Request, ReqShape, NoRow, Row, RunnerOps, AppOps, TaskOps, RunOps, NoRun, NoTask, Tasks,
      Kinds, Inserting, Runs, Chunks

LEMMA PrefixType == \A st : HandledPrefix(st) \in 0..NumChunks
<1> SUFFICES ASSUME NEW st PROVE HandledPrefix(st) \in 0..NumChunks
  OBVIOUS
<1> DEFINE S == {c \in Chunks : \A d \in 1..c : Handled(d, st)}
<1>1. IsFiniteSet(Chunks) /\ Cardinality(Chunks) = NumChunks
  BY PipelineAssumption, FS_Interval DEF Chunks
<1>2. IsFiniteSet(S) /\ Cardinality(S) <= Cardinality(Chunks)
  BY <1>1, FS_Subset
<1>3. Cardinality(S) \in Nat
  BY <1>2, FS_CardinalityType
<1> QED
  BY <1>1, <1>2, <1>3, PipelineAssumption DEF HandledPrefix

\* What a completion adds to a run's counters is a number.
LEMMA CreatedIsNat ==
  ASSUME NEW items \in SUBSET (Stems \union {"reel"}), NEW S
  PROVE  Cardinality(items \ S) \in Nat
<1>1. IsFiniteSet(Stems \union {"reel"})
  BY PipelineAssumption, FS_AddElement
<1>2. IsFiniteSet(items \ S)
  BY <1>1, FS_Subset
<1> QED
  BY <1>2, FS_CardinalityType

\* One worker's request may be replaced by any well-shaped one.
ReqsOK(f) == f \in [Workers -> Request] /\ \A v \in Workers : ReqShape(f[v])

LEMMA ReplaceRequest ==
  ASSUME NEW w \in Workers, NEW q \in Request, ReqShape(q), ReqsOK(req),
         req' = [req EXCEPT ![w] = q]
  PROVE  ReqsOK(req')
<1>1. req' \in [Workers -> Request]
  BY DEF ReqsOK
<1>2. ASSUME NEW v \in Workers PROVE ReqShape(req'[v])
  <2>1. CASE v = w
    BY <2>1 DEF ReqsOK
  <2>2. CASE v # w
    <3>1. req'[v] = req[v]
      BY <2>2 DEF ReqsOK
    <3> QED
      BY <3>1 DEF ReqsOK
  <2> QED
    BY <2>1, <2>2
<1> QED
  BY <1>1, <1>2 DEF ReqsOK

\* The rows alone.
RowsOK ==
    /\ enabled \in BOOLEAN
    /\ status \in [Tasks -> {"absent", "pending", "claimed", "done", "failed", "skipped"}]
    /\ holder \in [Tasks -> Runs \union {NoRun}]
    /\ lease \in [Tasks -> {"none", "live", "expired"}]
    /\ attempts \in [Tasks -> Nat]
    /\ output \in [Tasks -> SUBSET (Stems \union {"reel"})]
    /\ chunk \in [Chunks -> {"absent", "unread", "read", "unreadable"}]
    /\ video \in SUBSET Tasks
    /\ progress \in 0..NumChunks
    /\ state \in [Runs -> {"absent", "active", "finished"}]
    /\ reason \in [Runs -> {"none", "idle", "stopped", "abandoned"}]
    /\ silent \in [Runs -> BOOLEAN]
    /\ tasksDone \in [Runs -> Nat] /\ made \in [Runs -> Nat] /\ landed \in [Runs -> Nat]
    /\ openRequests \in [Kinds -> Nat]
    /\ handed \in [Runs -> SUBSET Tasks]
    /\ dead \in SUBSET Runs

LEMMA ShapeParts == Shape <=> RowsOK /\ ReqsOK(req) /\ HandedShape
  BY DEF Shape, TypeOK, RowsOK, ReqsOK

LEMMA RowType == ASSUME RowsOK, NEW r \in Runs PROVE RowOf(r) \in Row
  BY DEF RowsOK, RowOf, Row

LEMMA ShapeInit == Init => Shape
<1> SUFFICES ASSUME Init PROVE Shape
  OBVIOUS
<1>1. RowsOK
  BY PipelineAssumption DEF Init, RowsOK, NoRun
<1>2. ReqsOK(req)
  BY ConstantTypes DEF Init, ReqsOK
<1> QED
  BY <1>1, <1>2, ShapeParts DEF Init, HandedShape

\* Taking a request in changes at most who was last heard, besides the request.
LEMMA ShapeLoad ==
  ASSUME Shape, NEW w \in Workers, RunnerCalls(w) \/ AppCalls(w)
  PROVE  Shape'
<1> USE DEF Open, Takes, Calls
<1>a. RowsOK /\ ReqsOK(req) /\ HandedShape
  BY ShapeParts
<1>b. ASSUME NEW q \in Request, ReqShape(q), req' = [req EXCEPT ![w] = q], RowsOK', HandedShape'
      PROVE  Shape'
  <2>1. ReqsOK(req')
    BY <1>a, <1>b, ReplaceRequest
  <2> QED
    BY <1>b, <2>1 DEF Shape, TypeOK, RowsOK, ReqsOK
<1>1. ASSUME NEW r \in Runs, NEW t \in Tasks, NEW op \in TaskOps, LoadTaskCall(w, op, r, t)
      PROVE  Shape'
  <2> DEFINE q == [Idle EXCEPT !.op = op, !.pc = "locked", !.run = r, !.task = t]
  <2>1. q \in Request /\ ReqShape(q)
    BY <1>1, <1>a DEF LoadTaskCall, Idle, Request, ReqShape, NoRow, Row, RunnerOps, AppOps, TaskOps,
        RunOps, Inserting, HandedShape
  <2>2. RowsOK' /\ HandedShape'
    BY <1>1, <1>a DEF LoadTaskCall, Touch, RowsOK, HandedShape, taskVars, chunkVars, envVars
  <2> QED
    BY <1>1, <1>b, <2>1, <2>2 DEF LoadTaskCall
<1>2. ASSUME NEW r \in Runs, NEW t \in Tasks, LoadComplete(w, r, t)
      PROVE  Shape'
  <2> DEFINE q == [Idle EXCEPT !.op = "complete", !.pc = "locked", !.run = r, !.task = t]
  <2>1. q \in Request /\ ReqShape(q)
    BY <1>2, <1>a DEF LoadComplete, Idle, Request, ReqShape, NoRow, Row, RunnerOps, AppOps, TaskOps,
        RunOps, Inserting, HandedShape
  <2>2. RowsOK' /\ HandedShape'
    BY <1>2, <1>a DEF LoadComplete, RowsOK, HandedShape, taskVars, chunkVars, runVars, envVars
  <2> QED
    BY <1>2, <1>b, <2>1, <2>2 DEF LoadComplete
<1>3. ASSUME NEW r \in Runs, LoadClaim(w, r)
      PROVE  Shape'
  <2> DEFINE q == [Idle EXCEPT !.op = "claim", !.pc = "admit", !.kind = KindOf[r],
                               !.run = r, !.row = RowOf(r)]
  <2>1. q \in Request /\ ReqShape(q)
    BY <1>a, RowType, PipelineAssumption DEF Idle, Request, ReqShape, NoRow, RunnerOps, AppOps, TaskOps,
        RunOps, Inserting
  <2>2. RowsOK' /\ HandedShape'
    BY <1>3, <1>a DEF LoadClaim, Touch, RowsOK, HandedShape, taskVars, chunkVars, envVars
  <2> QED
    BY <1>3, <1>b, <2>1, <2>2 DEF LoadClaim
<1>4. ASSUME NEW r \in Runs, NEW why \in {"idle", "stopped"}, LoadFinish(w, r, why)
      PROVE  Shape'
  <2> DEFINE q == [Idle EXCEPT !.op = "finish", !.pc = "close", !.run = r,
                               !.todo = {RowOf(r)}, !.why = why]
  <2>1. q \in Request /\ ReqShape(q)
    <3>1. {RowOf(r)} \in SUBSET Row
      BY <1>a, RowType
    <3> QED
      BY <3>1, ConstantTypes DEF Idle, Request, ReqShape, RunnerOps, AppOps, TaskOps, RunOps, Inserting
  <2>2. RowsOK' /\ HandedShape'
    BY <1>4, <1>a DEF LoadFinish, RowsOK, HandedShape, taskVars, chunkVars, runVars, envVars
  <2> QED
    BY <1>4, <1>b, <2>1, <2>2 DEF LoadFinish
<1>5. ASSUME NEW op \in {"sweep", "start", "wanted"}, NEW k \in Kinds \union {"none"},
             LoadSweep(w, op, k)
      PROVE  Shape'
  <2> DEFINE q == [Idle EXCEPT !.op = op, !.pc = "close", !.kind = k,
                               !.todo = {RowOf(r) : r \in Abandoned}, !.why = "abandoned"]
  <2>1. q \in Request /\ ReqShape(q)
    <3>1. {RowOf(r) : r \in Abandoned} \in SUBSET Row
      BY <1>a, RowType DEF Abandoned
    <3> QED
      BY <1>5, <3>1, ConstantTypes DEF LoadSweep, Idle, Request, ReqShape, RunnerOps, AppOps, TaskOps,
          RunOps, Inserting
  <2>2. RowsOK' /\ HandedShape'
    BY <1>5, <1>a DEF LoadSweep, RowsOK, HandedShape, taskVars, chunkVars, runVars, envVars
  <2> QED
    BY <1>5, <1>b, <2>1, <2>2 DEF LoadSweep
<1>6. ASSUME NEW k \in Kinds, LoadRequest(w, k)
      PROVE  Shape'
  <2> DEFINE q == [Idle EXCEPT !.op = "request", !.pc = "create", !.kind = k]
  <2>1. q \in Request /\ ReqShape(q)
    BY ConstantTypes DEF Idle, Request, ReqShape, RunnerOps, AppOps, TaskOps, RunOps, Inserting
  <2>2. RowsOK' /\ HandedShape'
    BY <1>6, <1>a DEF LoadRequest, RowsOK, HandedShape, taskVars, chunkVars, runVars, envVars
  <2> QED
    BY <1>6, <1>b, <2>1, <2>2 DEF LoadRequest
<1>7. ASSUME NEW t \in Tasks, LoadRetry(w, t)
      PROVE  Shape'
  <2> DEFINE row == [NoRow EXCEPT !.run = holder[t]]
             q   == [Idle EXCEPT !.op = "retry", !.pc = "save", !.task = t, !.row = row]
  <2>1. q \in Request /\ ReqShape(q)
    <3>1. row \in Row
      BY <1>a DEF NoRow, Row, RowsOK
    <3> HIDE DEF row
    <3> QED
      BY <3>1, ConstantTypes DEF Idle, Request, ReqShape, RunnerOps, AppOps, TaskOps, RunOps, Inserting
  <2>2. RowsOK' /\ HandedShape'
    BY <1>7, <1>a DEF LoadRetry, RowsOK, HandedShape, taskVars, chunkVars, runVars, envVars
  <2> QED
    BY <1>7, <1>b, <2>1, <2>2 DEF LoadRetry
<1> QED
  BY <1>1, <1>2, <1>3, <1>4, <1>5, <1>6, <1>7 DEF RunnerCalls, AppCalls

\* So does every step of a request being served.
LEMMA ShapeServe ==
  ASSUME Shape, NEW w \in Workers, Serve(w)
  PROVE  Shape'
<1> USE DEF taskVars, chunkVars, runVars, envVars
<1>a. RowsOK /\ ReqsOK(req) /\ HandedShape
  BY ShapeParts
<1>b. ASSUME NEW q \in Request, ReqShape(q), req' = [req EXCEPT ![w] = q], RowsOK', HandedShape'
      PROVE  Shape'
  <2>1. ReqsOK(req')
    BY <1>a, <1>b, ReplaceRequest
  <2> QED
    BY <1>b, <2>1 DEF Shape, TypeOK, RowsOK, ReqsOK
<1>c. req[w] \in Request /\ ReqShape(req[w])
  BY <1>a DEF ReqsOK
<1>d. ASSUME Answer(w), RowsOK', HandedShape'
      PROVE  Shape'
  BY <1>b, <1>d, ConstantTypes DEF Answer
<1>e. ASSUME NEW pc \in {"store", "plan", "create", "decide"}, Goto(w, pc), RowsOK', HandedShape'
      PROVE  Shape'
  <2> DEFINE q == [req[w] EXCEPT !.pc = pc]
  <2>1. q \in Request /\ ReqShape(q)
    <3>1. q \in Request
      BY <1>c DEF Request
    <3>2. /\ q.op = req[w].op /\ q.run = req[w].run /\ q.task = req[w].task /\ q.kind = req[w].kind
          /\ ~Inserting(q)
      BY <1>c DEF Request, Inserting
    <3> HIDE DEF q
    <3> QED
      BY <1>c, <3>1, <3>2 DEF ReqShape
  <2>2. req' = [req EXCEPT ![w] = q]
    BY <1>e DEF Goto
  <2> QED
    BY <1>b, <1>e, <2>1, <2>2
<1>1. CASE RefuseCall(w)
  BY <1>1, <1>a, <1>d DEF RefuseCall, RowsOK, HandedShape
<1>2. CASE Heartbeat(w)
  BY <1>2, <1>a, <1>d DEF Heartbeat, RowsOK, HandedShape
<1>3. ASSUME NEW testable \in BOOLEAN, SaveNotes(w, testable)
      PROVE  Shape'
  <2>1. chunk' \in [Chunks -> {"absent", "unread", "read", "unreadable"}]
    BY <1>3, <1>a DEF SaveNotes, RowsOK
  <2>2. lease' \in [Tasks -> {"none", "live", "expired"}]
    BY <1>3, <1>a DEF SaveNotes, RowsOK
  <2>3. RowsOK' /\ HandedShape'
    BY <1>3, <1>a, <2>1, <2>2 DEF SaveNotes, RowsOK, HandedShape
  <2> QED
    BY <1>3, <1>d, <2>3 DEF SaveNotes
<1>4. CASE CheckMedia(w)
  BY <1>4, <1>a, <1>e DEF CheckMedia, RowsOK, HandedShape
<1>5. CASE \E whole \in BOOLEAN : StoreMedia(w, whole)
  BY <1>5, <1>a, <1>c, <1>d, ConstantTypes
  DEF StoreMedia, At, RowsOK, HandedShape, ReqShape, TaskOps
<1>6. ASSUME NEW items \in SUBSET (Stems \union {"reel"}), NEW skip \in BOOLEAN, Complete(w, items, skip)
      PROVE  Shape'
  <2> DEFINE t == req[w].task
             r == req[w].run
  <2>1. t \in Tasks /\ r \in Runs
    BY <1>6, <1>c DEF Complete, At, ReqShape, RunOps
  <2>2. Outcome(t, items, skip) \in {"done", "skipped"}
    BY DEF Outcome
  <2>3. Cardinality(items \ output[t]) \in Nat
    BY CreatedIsNat
  <2>4. status' \in [Tasks -> {"absent", "pending", "claimed", "done", "failed", "skipped"}]
    BY <1>6, <1>a, <2>2 DEF Complete, RowsOK
  <2>5. lease' \in [Tasks -> {"none", "live", "expired"}]
    BY <1>6, <1>a DEF Complete, RowsOK
  <2>6. output' \in [Tasks -> SUBSET (Stems \union {"reel"})]
    BY <1>6, <1>a, <2>1 DEF Complete, RowsOK
  <2>7. tasksDone' \in [Runs -> Nat] /\ made' \in [Runs -> Nat] /\ landed' \in [Runs -> Nat]
    BY <1>6, <1>a, <2>1, <2>3 DEF Complete, CountWork, RowsOK
  <2>8. progress' \in 0..NumChunks
    BY <1>6, <1>a, PrefixType DEF Complete, RowsOK
  <2>9. silent' \in [Runs -> BOOLEAN]
    BY <1>6, <1>a DEF Complete, Touch, RowsOK
  <2>10. /\ RowsOK' /\ HandedShape'
    BY <1>6, <1>a, <2>4, <2>5, <2>6, <2>7, <2>8, <2>9 DEF Complete, RowsOK, HandedShape
  <2> QED
    BY <1>6, <1>d, <2>10 DEF Complete
<1>7. CASE RefuseReel(w)
  BY <1>7, <1>a, <1>d DEF RefuseReel, RowsOK, HandedShape
<1>8. ASSUME NEW retryable \in BOOLEAN, Fail(w, retryable)
      PROVE  Shape'
  <2>1. attempts' \in [Tasks -> Nat]
    <3>1. req[w].task \in Tasks
      BY <1>8, <1>c DEF Fail, At, ReqShape, TaskOps
    <3>2. attempts[req[w].task] + 1 \in Nat
      BY <3>1, <1>a DEF RowsOK
    <3>3. attempts' = [attempts EXCEPT ![req[w].task] = attempts[req[w].task] + 1]
      BY <1>8 DEF Fail
    <3> QED
      BY <3>2, <3>3, <1>a DEF RowsOK
  <2>2. status' \in [Tasks -> {"absent", "pending", "claimed", "done", "failed", "skipped"}]
    BY <1>8, <1>a DEF Fail, RowsOK
  <2>3. lease' \in [Tasks -> {"none", "live", "expired"}]
    BY <1>8, <1>a DEF Fail, RowsOK
  <2>4. RowsOK' /\ HandedShape'
    BY <1>8, <1>a, <2>1, <2>2, <2>3 DEF Fail, RowsOK, HandedShape
  <2> QED
    BY <1>8, <1>d, <2>4 DEF Fail
<1>9. CASE Admit(w)
  BY <1>9, <1>a, <1>d, <1>e DEF Admit, RowsOK, HandedShape
<1>10. ASSUME NEW t \in Tasks, NEW r \in Runs, t[2] = KindOf[r], GiveTo(t, r), Answer(w),
              chunk' \in [Chunks -> {"absent", "unread", "read", "unreadable"}],
              UNCHANGED <<attempts, output, video, progress, runVars, enabled, openRequests, dead>>
       PROVE  Shape'
  <2>1. RowsOK'
    BY <1>10, <1>a DEF GiveTo, RowsOK
  <2>2. HandedShape'
    BY <1>10, <1>a DEF GiveTo, RowsOK, HandedShape
  <2> QED
    BY <1>10, <1>d, <2>1, <2>2
<1>11. CASE ClaimWaiting(w)
  <2>1. PICK c \in First(Waiting(req[w].kind)) : GiveTo(<<c, req[w].kind>>, req[w].run)
    BY <1>11 DEF ClaimWaiting
  <2>2. req[w].run \in Runs /\ req[w].kind = KindOf[req[w].run]
    BY <1>11, <1>c DEF ClaimWaiting, At, ReqShape, RunOps
  <2>3. <<c, req[w].kind>> \in Tasks /\ <<c, req[w].kind>>[2] = req[w].kind
    BY <2>2, PipelineAssumption DEF First, Waiting, Tasks
  <2> QED
    BY <1>11, <1>a, <1>10, <2>1, <2>2, <2>3 DEF ClaimWaiting, RowsOK
<1>12. CASE PlanNew(w)
  <2>1. PICK c \in First(NewWork(req[w].kind)) :
          req' = [req EXCEPT ![w].task = <<c, req[w].kind>>,
                             ![w].pc = IF c \in Uncovered THEN "insert chunk" ELSE "insert task"]
    BY <1>12 DEF PlanNew
  <2>2. req[w].op = "claim" /\ req[w].run \in Runs /\ req[w].kind = KindOf[req[w].run]
    BY <1>12, <1>c DEF PlanNew, At, ReqShape, RunOps
  <2>3. c \in Chunks /\ req[w].kind \in Kinds
    BY <2>2, PipelineAssumption DEF First, NewWork, ForOtherKind, Uncovered
  <2> DEFINE pc == IF c \in Uncovered THEN "insert chunk" ELSE "insert task"
             q == [req[w] EXCEPT !.task = <<c, req[w].kind>>, !.pc = pc]
  <2>4. q \in Request
    BY <1>c, <2>3 DEF Request, Tasks
  <2>5. ReqShape(q)
    BY <1>c, <2>2, <2>3 DEF Request, ReqShape, Tasks, Inserting, RunOps, TaskOps
  <2>6. req' = [req EXCEPT ![w] = q]
    BY <2>1, <1>a DEF ReqsOK
  <2>7. RowsOK' /\ HandedShape'
    BY <1>12, <1>a DEF PlanNew, RowsOK, HandedShape
  <2> QED
    BY <1>b, <2>4, <2>5, <2>6, <2>7
<1>13. CASE NothingToDo(w)
  BY <1>13, <1>a, <1>d DEF NothingToDo, RowsOK, HandedShape
<1>14. CASE CreateAndClaim(w)
  <2> DEFINE t == req[w].task
             r == req[w].run
  <2>1. t \in Tasks /\ r \in Runs /\ t[2] = KindOf[r]
    BY <1>14, <1>c DEF CreateAndClaim, ReqShape, RunOps, Inserting
  <2>2. chunk' \in [Chunks -> {"absent", "unread", "read", "unreadable"}]
    <3>1. CASE chunk' = chunk
      BY <3>1, <1>a DEF RowsOK
    <3>2. CASE chunk' = [chunk EXCEPT ![t[1]] = "unread"]
      BY <3>2, <1>a DEF RowsOK
    <3> QED
      BY <1>14, <3>1, <3>2 DEF CreateAndClaim
  <2> QED
    BY <1>14, <1>10, <2>1, <2>2 DEF CreateAndClaim
<1>15. CASE ReplanOnConflict(w)
  <2> DEFINE q == [req[w] EXCEPT !.pc = "plan", !.task = NoTask]
  <2>1. q \in Request /\ ReqShape(q)
    BY <1>15, <1>c DEF ReplanOnConflict, At, Request, ReqShape, RunOps, TaskOps, Inserting
  <2>2. req' = [req EXCEPT ![w] = q]
    BY <1>15, <1>a DEF ReplanOnConflict, ReqsOK
  <2>3. RowsOK' /\ HandedShape'
    BY <1>15, <1>a DEF ReplanOnConflict, RowsOK, HandedShape
  <2> QED
    BY <1>b, <2>1, <2>2, <2>3
<1>16. ASSUME NEW row \in req[w].todo, HandBack(w, row)
       PROVE  Shape'
  <2> DEFINE q == [req[w] EXCEPT !.pc = "save run", !.row = row, !.todo = @ \ {row}]
  <2>1. q \in Request /\ ReqShape(q)
    BY <1>16, <1>c DEF Request, ReqShape, Inserting
  <2>2. req' = [req EXCEPT ![w] = q]
    BY <1>16, <1>a DEF HandBack, ReqsOK
  <2>3. RowsOK' /\ HandedShape'
    BY <1>16, <1>a DEF HandBack, RowsOK, HandedShape
  <2> QED
    BY <1>b, <2>1, <2>2, <2>3
<1>17. CASE SaveClosedRun(w)
  <2> DEFINE q == [req[w] EXCEPT !.pc = "close", !.row = NoRow]
  <2>1. q \in Request /\ ReqShape(q)
    <3>1. q \in Request
      BY <1>c, ConstantTypes DEF Request
    <3>2. /\ q.op = req[w].op /\ q.run = req[w].run /\ q.task = req[w].task /\ q.kind = req[w].kind
          /\ ~Inserting(q)
      BY <1>c DEF Request, Inserting
    <3> HIDE DEF q
    <3> QED
      BY <1>c, <3>1, <3>2 DEF ReqShape
  <2>2. req' = [req EXCEPT ![w] = q]
    BY <1>17, <1>a DEF SaveClosedRun, ReqsOK
  <2>3. req[w].row \in Row /\ req[w].why \in {"none", "idle", "stopped", "abandoned"}
    BY <1>c DEF Request
  <2>4. RowsOK' /\ HandedShape'
    BY <1>17, <1>a, <2>3 DEF SaveClosedRun, RowsOK, HandedShape, Row
  <2> QED
    BY <1>b, <2>1, <2>2, <2>4
<1>18. CASE EndOfClosing(w)
  BY <1>18, <1>a, <1>d, <1>e DEF EndOfClosing, RowsOK, HandedShape
<1>19. CASE CountRuns(w)
  BY <1>19, <1>a, <1>d, <1>e DEF CountRuns, RowsOK, HandedShape
<1>20. CASE CreateRun(w)
  <2>a. state' \in [Runs -> {"absent", "active", "finished"}]
    <3>1. PICK r \in First(NextRun(req[w].kind)) : state' = [state EXCEPT ![r] = "active"]
      BY <1>20 DEF CreateRun
    <3> QED
      BY <3>1, <1>a DEF RowsOK
  <2>1. openRequests' \in [Kinds -> Nat]
    <3> DEFINE k == req[w].kind
               n == IF openRequests[k] > 0 THEN openRequests[k] - 1 ELSE 0
    <3>1. openRequests[k] \in Nat
      BY <1>20, <1>a, <1>c DEF CreateRun, At, ReqShape, RowsOK
    <3>2. n \in Nat
      BY <3>1
    <3>3. openRequests' = [openRequests EXCEPT ![k] = n]
      BY <1>20 DEF CreateRun
    <3> QED
      BY <3>2, <3>3, <1>a DEF RowsOK
  <2>2. RowsOK' /\ HandedShape'
    BY <1>20, <1>a, <2>1, <2>a DEF CreateRun, RowsOK, HandedShape
  <2> QED
    BY <1>20, <1>d, <2>2 DEF CreateRun
<1>21. CASE RefuseStart(w)
  BY <1>21, <1>a, <1>d DEF RefuseStart, RowsOK, HandedShape
<1>22. CASE DecideWanted(w)
  <2>1. openRequests' \in [Kinds -> Nat]
    <3> DEFINE k == req[w].kind
    <3>1. openRequests[k] \in Nat
      BY <1>22, <1>a, <1>c DEF DecideWanted, At, ReqShape, RowsOK
    <3>2. \/ openRequests' = [openRequests EXCEPT ![k] = openRequests[k] - 1] /\ openRequests[k] > 0
          \/ openRequests' = [openRequests EXCEPT ![k] = openRequests[k]]
      BY <1>22 DEF DecideWanted
    <3>3. openRequests[k] > 0 => openRequests[k] - 1 \in Nat
      BY <3>1
    <3> QED
      BY <3>1, <3>2, <3>3, <1>a DEF RowsOK
  <2>2. RowsOK' /\ HandedShape'
    BY <1>22, <1>a, <2>1 DEF DecideWanted, RowsOK, HandedShape
  <2> QED
    BY <1>22, <1>d, <2>2 DEF DecideWanted
<1>23. CASE CreateRequest(w)
  <2>1. openRequests' \in [Kinds -> Nat]
    <3> DEFINE k == req[w].kind
               n == openRequests[k] + 1
    <3>1. openRequests[k] \in Nat
      BY <1>23, <1>a, <1>c DEF CreateRequest, At, ReqShape, RowsOK
    <3>2. n \in Nat
      BY <3>1
    <3>3. openRequests' = [openRequests EXCEPT ![k] = n]
      BY <1>23 DEF CreateRequest
    <3> QED
      BY <3>2, <3>3, <1>a DEF RowsOK
  <2>2. RowsOK' /\ HandedShape'
    BY <1>23, <1>a, <2>1 DEF CreateRequest, RowsOK, HandedShape
  <2> QED
    BY <1>23, <1>d, <2>2 DEF CreateRequest
<1>24. CASE SaveRetry(w)
  <2>1. req[w].row.run \in Runs \union {NoRun}
    BY <1>c DEF Request, Row
  <2>2. RowsOK' /\ HandedShape'
    BY <1>24, <1>a, <2>1 DEF SaveRetry, RowsOK, HandedShape
  <2> QED
    BY <1>24, <1>d, <2>2 DEF SaveRetry
<1> QED
  BY <1>1, <1>2, <1>3, <1>4, <1>5, <1>6, <1>7, <1>8, <1>9, <1>11, <1>12, <1>13, <1>14, <1>15, <1>16,
     <1>17, <1>18, <1>19, <1>20, <1>21, <1>22, <1>23, <1>24 DEF Serve

\* Nothing else touches a request.
LEMMA ShapeStep == Shape /\ [Next]_vars => Shape'
<1> SUFFICES ASSUME Shape, [Next]_vars PROVE Shape'
  OBVIOUS
<1> USE DEF taskVars, chunkVars, runVars, envVars
<1>a. RowsOK /\ ReqsOK(req) /\ HandedShape
  BY ShapeParts
<1>b. ASSUME RowsOK', HandedShape', req' = req PROVE Shape'
  BY <1>a, <1>b DEF Shape, TypeOK, RowsOK, ReqsOK
<1>1. CASE \E w \in Workers : RunnerCalls(w) \/ AppCalls(w)
  BY <1>1, ShapeLoad
<1>2. CASE \E w \in Workers : Serve(w)
  BY <1>2, ShapeServe
<1>3. CASE SwitchPipeline
  BY <1>3, <1>a, <1>b DEF SwitchPipeline, RowsOK, HandedShape
<1>4. CASE \E t \in Tasks : LeaseExpires(t)
  BY <1>4, <1>a, <1>b DEF LeaseExpires, RowsOK, HandedShape
<1>5. CASE \E r \in Runs : FallsSilent(r)
  BY <1>5, <1>a, <1>b DEF FallsSilent, RowsOK, HandedShape
<1>6. CASE \E r \in Runs : RunnerDies(r)
  BY <1>6, <1>a, <1>b DEF RunnerDies, RowsOK, HandedShape
<1>7. CASE \E k \in Kinds : RequestExpires(k)
  <2>1. RowsOK' /\ HandedShape' /\ req' = req
    BY <1>7, <1>a DEF RequestExpires, RowsOK, HandedShape
  <2> QED
    BY <1>b, <2>1
<1>8. CASE UNCHANGED vars
  <2>1. RowsOK' /\ HandedShape' /\ req' = req
    BY <1>8, <1>a DEF vars, RowsOK, HandedShape
  <2> QED
    BY <1>b, <2>1
<1> QED
  BY <1>1, <1>2, <1>3, <1>4, <1>5, <1>6, <1>7, <1>8 DEF Next, Passing

LEMMA ShapeInvariant == Spec => []Shape
  BY ShapeInit, ShapeStep, PTL DEF Spec

\* Every row and request keeps its type, for any number of runs, chunks and
\* workers: no handler stores a value its column does not admit.
THEOREM TypeCorrectness == Spec => []TypeOK
<1>1. Shape => TypeOK
  BY DEF Shape
<1> QED
  BY <1>1, ShapeInvariant, PTL

-----------------------------------------------------------------------------
(* The inductive invariant.                                                    *)

\* A task's row is created untried, and after its chunk's.
Fresh      == \A t \in Tasks : status[t] = "absent" => attempts[t] = 0
ChunkFirst == \A c \in Chunks, k \in Kinds : chunk[c] = "absent" => status[<<c, k>>] = "absent"

TaskRows == Fresh /\ ChunkFirst /\ AttemptsLeft /\ LeaseIffClaimed

\* What a request in flight relies on between its steps: the task it will insert
\* does not exist yet, a chunk it counts on does, and so do the run it claims for and
\* the task it retries.
ReqFits(q) ==
    /\ Inserting(q) => status[q.task] = "absent"
    /\ q.pc = "insert task" => chunk[q.task[1]] # "absent"
    /\ q.op = "claim" => state[q.run] # "absent"
    /\ q.op = "retry" => status[q.task] # "absent"

\* The advisory lock: one creation of a kind at a time.
Alone == \A v, w \in Workers :
            Inserting(req[v]) /\ Inserting(req[w]) /\ v # w => req[v].kind # req[w].kind

Flight == (\A w \in Workers : ReqFits(req[w])) /\ Alone

ClaimInv == Shape /\ TaskRows /\ Flight

\* The same of the rows as the step leaves them.
FitsNext(q) ==
    /\ Inserting(q) => status'[q.task] = "absent"
    /\ q.op = "claim" => state'[q.run] # "absent"
    /\ q.op = "retry" => status'[q.task] # "absent"

\* No row is ever deleted.
Kept ==
    /\ \A t \in Tasks : status[t] # "absent" => status'[t] # "absent"
    /\ \A c \in Chunks : chunk[c] # "absent" => chunk'[c] # "absent"
    /\ \A r \in Runs : state[r] # "absent" => state'[r] # "absent"

\* No task's row is created by the step.
NoneMade == \A t \in Tasks : status[t] = "absent" => status'[t] = "absent"

LEMMA ClaimInit == Init => ClaimInv
<1> SUFFICES ASSUME Init PROVE ClaimInv
  OBVIOUS
<1>1. TaskRows
  BY PipelineAssumption DEF Init, TaskRows, Fresh, ChunkFirst, AttemptsLeft, LeaseIffClaimed, Tasks
<1>2. Flight
  BY DEF Init, Flight, ReqFits, Alone, Inserting, Idle
<1> QED
  BY <1>1, <1>2, ShapeInit DEF ClaimInv

\* Replacing a request by one that fits and inserts nothing, while rows stay.
LEMMA FlightStep ==
  ASSUME ClaimInv, Kept, NoneMade, NEW w \in Workers, NEW q,
         req' = [req EXCEPT ![w] = q], FitsNext(q), ~Inserting(q)
  PROVE  Flight'
<1>1. req'[w] = q /\ \A v \in Workers \ {w} : req'[v] = req[v]
  BY DEF ClaimInv, Shape, TypeOK
<1>2. ASSUME NEW v \in Workers PROVE ReqFits(req[v])'
  <2>1. CASE v = w
    BY <1>1, <2>1 DEF ReqFits, FitsNext, Inserting
  <2>2. CASE v # w
    <3>1. ReqFits(req[v]) /\ ReqShape(req[v])
      BY DEF ClaimInv, Flight, Shape
    <3>2. req'[v] = req[v]
      BY <1>1, <2>2
    <3> QED
      BY <3>1, <3>2 DEF ReqFits, ReqShape, Kept, NoneMade, RunOps, Inserting, Tasks
  <2> QED
    BY <2>1, <2>2
<1>3. Alone'
  BY <1>1 DEF ClaimInv, Flight, Alone, Inserting
<1> QED
  BY <1>2, <1>3 DEF Flight

LEMMA IdleFits == FitsNext(Idle) /\ ~Inserting(Idle)
  BY DEF FitsNext, Inserting, Idle

LEMMA IdleNames == Idle.op = "idle" /\ Idle.pc = "idle"
  BY DEF Idle

\* Taking a request in: it is the only thing that changes, and it fits.
LEMMA ClaimLoad ==
  ASSUME ClaimInv, NEW w \in Workers, RunnerCalls(w) \/ AppCalls(w)
  PROVE  TaskRows' /\ Flight'
<1> USE DEF Open, Takes, Calls, taskVars, chunkVars, runVars, envVars
<1>1. UNCHANGED <<taskVars, chunk, state>>
  BY DEF RunnerCalls, AppCalls, LoadTaskCall, LoadComplete, LoadClaim, LoadFinish, LoadSweep,
         LoadRequest, LoadRetry
<1>2. TaskRows' /\ Kept /\ NoneMade
  BY <1>1 DEF ClaimInv, TaskRows, Fresh, ChunkFirst, AttemptsLeft, LeaseIffClaimed, Kept, NoneMade
<1>3. ASSUME NEW q, req' = [req EXCEPT ![w] = q], q.pc \notin {"insert task", "insert chunk"},
             q.op = "claim" => state[q.run] # "absent",
             q.op = "retry" => status[q.task] # "absent"
      PROVE  Flight'
  <2>1. FitsNext(q) /\ ~Inserting(q)
    BY <1>1, <1>3 DEF FitsNext, Inserting
  <2> QED
    BY <1>2, <1>3, <2>1, FlightStep
<1>4. ASSUME NEW r \in Runs, NEW t \in Tasks, NEW op \in TaskOps, LoadTaskCall(w, op, r, t)
      PROVE  Flight'
  BY <1>3, <1>4 DEF LoadTaskCall, Idle, TaskOps
<1>5. ASSUME NEW r \in Runs, NEW t \in Tasks, LoadComplete(w, r, t)
      PROVE  Flight'
  BY <1>3, <1>5 DEF LoadComplete, Idle
<1>6. ASSUME NEW r \in Runs, LoadClaim(w, r)
      PROVE  Flight'
  BY <1>3, <1>6 DEF LoadClaim, Idle
<1>7. ASSUME NEW r \in Runs, NEW why \in {"idle", "stopped"}, LoadFinish(w, r, why)
      PROVE  Flight'
  BY <1>3, <1>7 DEF LoadFinish, Idle
<1>8. ASSUME NEW op \in {"sweep", "start", "wanted"}, NEW k \in Kinds \union {"none"},
             LoadSweep(w, op, k)
      PROVE  Flight'
  BY <1>3, <1>8 DEF LoadSweep, Idle
<1>9. ASSUME NEW k \in Kinds, LoadRequest(w, k)
      PROVE  Flight'
  BY <1>3, <1>9 DEF LoadRequest, Idle
<1>10. ASSUME NEW t \in Tasks, LoadRetry(w, t)
       PROVE  Flight'
  BY <1>3, <1>10 DEF LoadRetry, Idle
<1> QED
  BY <1>2, <1>4, <1>5, <1>6, <1>7, <1>8, <1>9, <1>10 DEF RunnerCalls, AppCalls

\* Serving a request.
LEMMA ClaimServe ==
  ASSUME ClaimInv, NEW w \in Workers, Serve(w)
  PROVE  TaskRows' /\ Flight'
<1> USE DEF taskVars, chunkVars, runVars, envVars
<1>a. /\ Shape /\ RowsOK /\ TaskRows /\ Flight
      /\ req[w] \in Request /\ ReqShape(req[w]) /\ ReqFits(req[w])
  BY ShapeParts DEF ClaimInv, Flight, ReqsOK
<1>b. ASSUME Answer(w), Kept, NoneMade PROVE Flight'
  BY <1>b, IdleFits, FlightStep DEF Answer
<1>c. ASSUME UNCHANGED <<taskVars, chunk, state>> PROVE TaskRows' /\ Kept /\ NoneMade
  BY <1>a, <1>c DEF TaskRows, Fresh, ChunkFirst, AttemptsLeft, LeaseIffClaimed, Kept, NoneMade
<1>d. ASSUME NEW q, req' = [req EXCEPT ![w] = q], ~Inserting(q), Kept, NoneMade,
             q.op = req[w].op, q.run = req[w].run, q.op = "retry" => q.task = req[w].task
      PROVE  Flight'
  <2>1. FitsNext(q)
    BY <1>a, <1>d DEF FitsNext, ReqFits, ReqShape, Kept, RunOps
  <2> QED
    BY <1>d, <2>1, FlightStep
<1>e. ASSUME NEW pc \in {"store", "plan", "create", "decide"}, Goto(w, pc), Kept, NoneMade
      PROVE  Flight'
  <2> DEFINE q == [req[w] EXCEPT !.pc = pc]
  <2>1. ~Inserting(q) /\ q.op = req[w].op /\ q.run = req[w].run /\ q.task = req[w].task
    BY <1>a DEF Request, Inserting
  <2>2. req' = [req EXCEPT ![w] = q]
    BY <1>e DEF Goto
  <2> HIDE DEF q
  <2> QED
    BY <1>d, <1>e, <2>1, <2>2
<1>1. CASE RefuseCall(w)
  BY <1>1, <1>b, <1>c DEF RefuseCall
<1>2. CASE Heartbeat(w)
  <2>1. TaskRows'
    BY <1>2, <1>a DEF Heartbeat, Held, TaskRows, Fresh, ChunkFirst, AttemptsLeft, LeaseIffClaimed, RowsOK
  <2>2. Kept /\ NoneMade
    BY <1>2 DEF Heartbeat, Kept, NoneMade
  <2> QED
    BY <1>2, <1>b, <2>1, <2>2 DEF Heartbeat
<1>3. ASSUME NEW testable \in BOOLEAN, SaveNotes(w, testable)
      PROVE  TaskRows' /\ Flight'
  <2>1. TaskRows'
    <3>1. ChunkFirst'
      BY <1>3, <1>a DEF SaveNotes, TaskRows, ChunkFirst, RowsOK
    <3>2. LeaseIffClaimed'
      BY <1>3, <1>a DEF SaveNotes, Held, TaskRows, LeaseIffClaimed, RowsOK
    <3> QED
      BY <1>3, <1>a, <3>1, <3>2 DEF SaveNotes, TaskRows, Fresh, AttemptsLeft
  <2>2. Kept /\ NoneMade
    BY <1>3 DEF SaveNotes, Kept, NoneMade
  <2> QED
    BY <1>3, <1>b, <2>1, <2>2 DEF SaveNotes
<1>4. CASE CheckMedia(w)
  BY <1>4, <1>c, <1>e DEF CheckMedia
<1>5. CASE \E whole \in BOOLEAN : StoreMedia(w, whole)
  BY <1>5, <1>b, <1>c DEF StoreMedia
<1>6. ASSUME NEW items \in SUBSET (Stems \union {"reel"}), NEW skip \in BOOLEAN, Complete(w, items, skip)
      PROVE  TaskRows' /\ Flight'
  <2>1. Outcome(req[w].task, items, skip) \in {"done", "skipped"}
    BY DEF Outcome
  <2>2. \E s \in {"done", "skipped"} : status' = [status EXCEPT ![req[w].task] = s]
    BY <1>6, <2>1 DEF Complete
  <2>3. TaskRows'
    BY <1>6, <1>a, <2>2 DEF Complete, Held, TaskRows, Fresh, ChunkFirst, AttemptsLeft, LeaseIffClaimed,
       RowsOK, Tasks
  <2>4. Kept /\ NoneMade
    BY <1>6, <1>a, <2>2 DEF Complete, Held, Kept, NoneMade, RowsOK
  <2> QED
    BY <1>6, <1>b, <2>3, <2>4 DEF Complete
<1>7. CASE RefuseReel(w)
  BY <1>7, <1>b, <1>c DEF RefuseReel
<1>8. ASSUME NEW retryable \in BOOLEAN, Fail(w, retryable)
      PROVE  TaskRows' /\ Flight'
  <2> DEFINE t == req[w].task
  <2>0. t \in Tasks /\ Held(t, req[w].run) /\ attempts[t] \in Nat
    BY <1>8, <1>a DEF Fail, At, ReqShape, TaskOps, RowsOK
  <2>1. attempts' = [attempts EXCEPT ![t] = attempts[t] + 1] /\ lease' = [lease EXCEPT ![t] = "none"]
    BY <1>8 DEF Fail
  <2>2. \/ status' = [status EXCEPT ![t] = "pending"] /\ attempts[t] + 1 < MaxAttempts
        \/ status' = [status EXCEPT ![t] = "failed"]
    BY <1>8 DEF Fail, TriesLeft
  <2>3. Fresh' /\ ChunkFirst'
    BY <1>8, <1>a, <2>0, <2>1, <2>2 DEF Fail, TaskRows, Fresh, ChunkFirst, RowsOK, Held, Tasks
  <2>4. AttemptsLeft'
    BY <1>a, <2>0, <2>1, <2>2 DEF TaskRows, AttemptsLeft, RowsOK
  <2>5. LeaseIffClaimed'
    BY <1>8, <1>a, <2>0, <2>1, <2>2 DEF Fail, TaskRows, LeaseIffClaimed, RowsOK
  <2>6. Kept /\ NoneMade
    BY <1>8, <1>a, <2>0, <2>2 DEF Fail, Held, Kept, NoneMade, RowsOK
  <2> QED
    BY <1>8, <1>b, <2>3, <2>4, <2>5, <2>6 DEF Fail, TaskRows
<1>9. CASE Admit(w)
  BY <1>9, <1>b, <1>c, <1>e DEF Admit
<1>10. ASSUME NEW t \in Tasks, NEW r \in Runs, t[2] = KindOf[r], GiveTo(t, r), Answer(w),
              attempts[t] < MaxAttempts, state[r] # "absent", UNCHANGED <<attempts, state>>,
              \/ UNCHANGED chunk
              \/ chunk[t[1]] = "absent" /\ chunk' = [chunk EXCEPT ![t[1]] = "unread"],
              \/ status[t] # "absent"
              \/ Inserting(req[w]) /\ req[w].task = t
              ,
              chunk'[t[1]] # "absent"
       PROVE  TaskRows' /\ Flight'
  <2>1. Fresh' /\ AttemptsLeft'
    BY <1>10, <1>a DEF GiveTo, TaskRows, Fresh, AttemptsLeft, RowsOK
  <2>2. LeaseIffClaimed'
    BY <1>10, <1>a DEF GiveTo, TaskRows, LeaseIffClaimed, RowsOK
  <2>3. ChunkFirst'
    BY <1>10, <1>a DEF GiveTo, TaskRows, ChunkFirst, RowsOK, Tasks
  <2>4. Kept
    BY <1>10, <1>a DEF GiveTo, Kept, RowsOK
  <2>5. req'[w] = Idle /\ \A v \in Workers \ {w} : req'[v] = req[v]
    BY <1>10 DEF Answer, ClaimInv, Shape, TypeOK
  <2>6. ASSUME NEW v \in Workers PROVE ReqFits(req[v])'
    <3>1. CASE v = w
      BY <2>5, <3>1, IdleNames DEF ReqFits, Inserting
    <3>2. CASE v # w
      <4>1. ReqFits(req[v]) /\ ReqShape(req[v]) /\ req'[v] = req[v]
        BY <2>5, <3>2 DEF ClaimInv, Flight, Shape
      <4>2. Inserting(req[v]) => req[v].task # t
        BY <1>10, <1>a, <3>2, <4>1 DEF Flight, Alone, ReqFits, ReqShape
      <4>3. Inserting(req[v]) => req[v].task \in Tasks /\ req[v].task[1] \in Chunks
        BY <4>1 DEF ReqShape, Tasks
      <4>4. \A u \in Tasks : u # t => status'[u] = status[u]
        BY <1>10, <1>a DEF GiveTo, RowsOK
      <4>5. Inserting(req[v]) => status'[req[v].task] = "absent"
        BY <4>1, <4>2, <4>3, <4>4 DEF ReqFits
      <4>6. req[v].pc = "insert task" => chunk'[req[v].task[1]] # "absent"
        BY <2>4, <4>1, <4>3 DEF ReqFits, Kept, Inserting
      <4>7. /\ req[v].op = "claim" => state'[req[v].run] # "absent"
            /\ req[v].op = "retry" => status'[req[v].task] # "absent"
        BY <2>4, <4>1 DEF ReqFits, ReqShape, Kept, RunOps
      <4> QED
        BY <4>1, <4>5, <4>6, <4>7 DEF ReqFits, Inserting
    <3> QED
      BY <3>1, <3>2
  <2>7. Alone'
    BY <1>a, <2>5, IdleNames DEF Flight, Alone, Inserting
  <2> QED
    BY <2>1, <2>2, <2>3, <2>6, <2>7 DEF TaskRows, Flight
<1>11. CASE ClaimWaiting(w)
  <2> DEFINE k == req[w].kind
             r == req[w].run
  <2>1. PICK c \in First(Waiting(k)) : GiveTo(<<c, k>>, r)
    BY <1>11 DEF ClaimWaiting
  <2>2. r \in Runs /\ k = KindOf[r] /\ state[r] # "absent" /\ k \in Kinds
    BY <1>11, <1>a, PipelineAssumption DEF ClaimWaiting, At, ReqShape, ReqFits, RunOps
  <2>3. /\ c \in Chunks /\ <<c, k>> \in Tasks /\ <<c, k>>[2] = k /\ <<c, k>>[1] = c
        /\ status[<<c, k>>] \in {"pending", "claimed"}
    BY <2>1, <2>2 DEF First, Waiting, Tasks
  <2>4. attempts[<<c, k>>] < MaxAttempts /\ chunk[c] # "absent"
    BY <1>a, <2>2, <2>3 DEF TaskRows, AttemptsLeft, ChunkFirst
  <2> HIDE DEF k, r
  <2> QED
    BY <1>11, <1>10, <2>1, <2>2, <2>3, <2>4 DEF ClaimWaiting
<1>12. CASE PlanNew(w)
  <2> DEFINE k == req[w].kind
  <2>1. PICK c \in First(NewWork(k)) :
          req' = [req EXCEPT ![w].task = <<c, k>>,
                             ![w].pc = IF c \in Uncovered THEN "insert chunk" ELSE "insert task"]
    BY <1>12 DEF PlanNew
  <2>2. req[w].op = "claim" /\ k \in Kinds /\ c \in Chunks
    BY <1>12, <1>a, <2>1, PipelineAssumption
    DEF PlanNew, At, ReqShape, RunOps, First, NewWork, ForOtherKind, Uncovered
  <2>3. status[<<c, k>>] = "absent"
    BY <1>a, <2>1, <2>2 DEF First, NewWork, ForOtherKind, Uncovered, TaskRows, ChunkFirst
  <2>4. /\ \A v \in Workers \ {w} : req'[v] = req[v]
        /\ req'[w].op = "claim" /\ req'[w].run = req[w].run /\ req'[w].kind = k /\ req'[w].task = <<c, k>>
    BY <1>a, <2>1, <2>2 DEF Shape, TypeOK, Request
  <2>5. UNCHANGED <<taskVars, chunk, state>>
    BY <1>12 DEF PlanNew
  <2>6. ASSUME NEW v \in Workers PROVE ReqFits(req[v])'
    <3>1. CASE v = w
      <4>1. req'[w].pc = "insert task" => chunk[c] # "absent"
        BY <1>a, <2>1, <2>2 DEF Shape, TypeOK, Request, Uncovered
      <4>2. status[<<c, k>>] = "absent" /\ state[req[w].run] # "absent"
        BY <1>a, <2>2, <2>3 DEF ReqFits
      <4>3. status'[req'[w].task] = "absent" /\ state'[req'[w].run] # "absent"
        BY <2>4, <2>5, <4>2
      <4>4. req'[w].pc = "insert task" => chunk'[req'[w].task[1]] # "absent"
        <5>1. req'[w].task[1] = c
          BY <2>4
        <5>2. chunk' = chunk
          BY <2>5
        <5> QED
          BY <4>1, <5>1, <5>2
      <4>5. req'[w].op # "retry"
        BY <2>4
      <4> QED
        BY <3>1, <4>3, <4>4, <4>5 DEF ReqFits
    <3>2. CASE v # w
      BY <1>a, <2>4, <2>5, <3>2 DEF ReqFits, Inserting, Flight
    <3> QED
      BY <3>1, <3>2
  <2>7. \A v \in Workers \ {w} : Inserting(req[v]) => req[v].kind # k
    BY <1>12 DEF PlanNew, Inserting
  <2>8. Alone'
    BY <1>a, <2>4, <2>7 DEF Flight, Alone, Inserting
  <2> QED
    BY <1>c, <2>5, <2>6, <2>8 DEF Flight
<1>13. CASE NothingToDo(w)
  BY <1>13, <1>b, <1>c DEF NothingToDo
<1>14. CASE CreateAndClaim(w)
  <2> DEFINE t == req[w].task
             r == req[w].run
  <2>1. Inserting(req[w]) /\ req[w].op = "claim"
    BY <1>14 DEF CreateAndClaim, Inserting
  <2>2. t \in Tasks /\ r \in Runs /\ t[2] = KindOf[r] /\ status[t] = "absent" /\ state[r] # "absent"
    BY <1>a, <2>1 DEF ReqShape, ReqFits, RunOps
  <2>3. attempts[t] < MaxAttempts
    BY <1>a, <2>2, PipelineAssumption DEF TaskRows, Fresh
  <2>4. chunk'[t[1]] # "absent"
    <3>1. t[1] \in Chunks
      BY <2>2 DEF Tasks
    <3>2. CASE req[w].pc = "insert task" /\ UNCHANGED chunk
      BY <1>a, <3>2 DEF ReqFits
    <3>3. CASE chunk' = [chunk EXCEPT ![t[1]] = "unread"]
      BY <1>a, <3>1, <3>3 DEF RowsOK
    <3> QED
      BY <1>14, <3>2, <3>3 DEF CreateAndClaim
  <2> HIDE DEF t, r
  <2> QED
    BY <1>14, <1>10, <2>1, <2>2, <2>3, <2>4 DEF CreateAndClaim, t, r
<1>15. CASE ReplanOnConflict(w)
  <2> DEFINE q == [req[w] EXCEPT !.pc = "plan", !.task = NoTask]
  <2>1. ~Inserting(q) /\ q.op = req[w].op /\ q.run = req[w].run /\ q.op # "retry"
    BY <1>15, <1>a DEF ReplanOnConflict, At, Request, Inserting
  <2>2. req' = [req EXCEPT ![w] = q]
    BY <1>15, <1>a DEF ReplanOnConflict, Shape, TypeOK
  <2> HIDE DEF q
  <2> QED
    BY <1>15, <1>c, <1>d, <2>1, <2>2 DEF ReplanOnConflict
<1>16. ASSUME NEW row \in req[w].todo, HandBack(w, row)
       PROVE  TaskRows' /\ Flight'
  <2> DEFINE q == [req[w] EXCEPT !.pc = "save run", !.row = row, !.todo = @ \ {row}]
  <2>1. ~Inserting(q) /\ q.op = req[w].op /\ q.run = req[w].run /\ q.task = req[w].task
    BY <1>a DEF Request, Inserting
  <2>2. req' = [req EXCEPT ![w] = q]
    BY <1>16, <1>a DEF HandBack, Shape, TypeOK
  <2>3. TaskRows'
    <3>1. \A t \in Tasks :
             \/ status'[t] = status[t] /\ lease'[t] = lease[t]
             \/ status[t] = "claimed" /\ status'[t] = "pending" /\ lease'[t] = "none"
      BY <1>16 DEF HandBack, ClaimedBy
    <3>2. Fresh' /\ ChunkFirst'
      BY <1>16, <1>a, <3>1 DEF HandBack, TaskRows, Fresh, ChunkFirst, Tasks
    <3>3. AttemptsLeft'
      BY <1>16, <1>a, <3>1 DEF HandBack, TaskRows, AttemptsLeft
    <3>4. LeaseIffClaimed'
      BY <1>16, <1>a, <3>1 DEF HandBack, TaskRows, LeaseIffClaimed
    <3> QED
      BY <3>2, <3>3, <3>4 DEF TaskRows
  <2>4. Kept /\ NoneMade
    BY <1>16 DEF HandBack, ClaimedBy, Kept, NoneMade
  <2> HIDE DEF q
  <2> QED
    BY <1>d, <2>1, <2>2, <2>3, <2>4
<1>17. CASE SaveClosedRun(w)
  <2> DEFINE q == [req[w] EXCEPT !.pc = "close", !.row = NoRow]
  <2>1. ~Inserting(q) /\ q.op = req[w].op /\ q.run = req[w].run /\ q.task = req[w].task
    BY <1>a DEF Request, Inserting
  <2>2. req' = [req EXCEPT ![w] = q]
    BY <1>17, <1>a DEF SaveClosedRun, Shape, TypeOK
  <2>3. TaskRows' /\ Kept /\ NoneMade
    <3>1. Kept /\ NoneMade
      BY <1>17, <1>a DEF SaveClosedRun, RowsOK, Kept, NoneMade
    <3>2. LeaseIffClaimed'
      BY <1>17, <1>a, <3>1 DEF SaveClosedRun, TaskRows, LeaseIffClaimed, Kept
    <3> QED
      BY <1>17, <1>a, <3>1, <3>2 DEF SaveClosedRun, TaskRows, Fresh, ChunkFirst, AttemptsLeft
  <2> HIDE DEF q
  <2> QED
    BY <1>d, <2>1, <2>2, <2>3
<1>18. CASE EndOfClosing(w)
  BY <1>18, <1>b, <1>c, <1>e DEF EndOfClosing
<1>19. CASE CountRuns(w)
  BY <1>19, <1>b, <1>c, <1>e DEF CountRuns
<1>20. CASE CreateRun(w)
  <2>1. PICK r \in First(NextRun(req[w].kind)) : state' = [state EXCEPT ![r] = "active"]
    BY <1>20 DEF CreateRun
  <2>2. TaskRows' /\ Kept /\ NoneMade
    BY <1>20, <1>a, <2>1 DEF CreateRun, TaskRows, Fresh, ChunkFirst, AttemptsLeft, LeaseIffClaimed, RowsOK,
       Kept, NoneMade
  <2> QED
    BY <1>20, <1>b, <2>2 DEF CreateRun
<1>21. CASE RefuseStart(w)
  BY <1>21, <1>b, <1>c DEF RefuseStart
<1>22. CASE DecideWanted(w)
  BY <1>22, <1>b, <1>c DEF DecideWanted
<1>23. CASE CreateRequest(w)
  BY <1>23, <1>b, <1>c DEF CreateRequest
<1>24. CASE SaveRetry(w)
  <2> DEFINE t == req[w].task
  <2>1. t \in Tasks /\ status[t] # "absent"
    BY <1>24, <1>a DEF SaveRetry, At, ReqShape, ReqFits
  <2>2. TaskRows'
    BY <1>24, <1>a, <2>1, PipelineAssumption DEF SaveRetry, TaskRows, Fresh, ChunkFirst, AttemptsLeft,
       LeaseIffClaimed, RowsOK, Tasks
  <2>3. Kept /\ NoneMade
    BY <1>24, <1>a, <2>1 DEF SaveRetry, Kept, NoneMade, RowsOK
  <2> QED
    BY <1>24, <1>b, <2>2, <2>3 DEF SaveRetry
<1> QED
  BY <1>1, <1>2, <1>3, <1>4, <1>5, <1>6, <1>7, <1>8, <1>9, <1>11, <1>12, <1>13, <1>14, <1>15, <1>16,
     <1>17, <1>18, <1>19, <1>20, <1>21, <1>22, <1>23, <1>24 DEF Serve

LEMMA ClaimStep == ClaimInv /\ [Next]_vars => ClaimInv'
<1> SUFFICES ASSUME ClaimInv, [Next]_vars PROVE TaskRows' /\ Flight'
  BY ShapeStep DEF ClaimInv
<1> USE DEF taskVars, chunkVars, runVars, envVars
<1>a. TaskRows /\ Flight /\ RowsOK
  BY ShapeParts DEF ClaimInv
<1>b. ASSUME UNCHANGED <<status, holder, attempts, chunk, state, req>>, LeaseIffClaimed'
      PROVE  TaskRows' /\ Flight'
  BY <1>a, <1>b DEF TaskRows, Fresh, ChunkFirst, AttemptsLeft, Flight, ReqFits, Alone
<1>c. ASSUME UNCHANGED <<status, holder, lease, state>> PROVE LeaseIffClaimed'
  BY <1>a, <1>c DEF TaskRows, LeaseIffClaimed
<1>1. CASE \E w \in Workers : RunnerCalls(w) \/ AppCalls(w)
  BY <1>1, ClaimLoad
<1>2. CASE \E w \in Workers : Serve(w)
  BY <1>2, ClaimServe
<1>3. CASE SwitchPipeline
  BY <1>3, <1>b, <1>c DEF SwitchPipeline
<1>4. ASSUME NEW t \in Tasks, LeaseExpires(t)
      PROVE  TaskRows' /\ Flight'
  <2>1. LeaseIffClaimed'
    BY <1>4, <1>a DEF LeaseExpires, TaskRows, LeaseIffClaimed, RowsOK
  <2> QED
    BY <1>4, <1>b, <2>1 DEF LeaseExpires
<1>5. CASE \E r \in Runs : FallsSilent(r)
  BY <1>5, <1>b, <1>c DEF FallsSilent
<1>6. CASE \E r \in Runs : RunnerDies(r)
  BY <1>6, <1>b, <1>c DEF RunnerDies
<1>7. CASE \E k \in Kinds : RequestExpires(k)
  BY <1>7, <1>b, <1>c DEF RequestExpires
<1>8. CASE UNCHANGED vars
  BY <1>8, <1>b, <1>c DEF vars
<1> QED
  BY <1>1, <1>2, <1>3, <1>4, <1>5, <1>6, <1>7, <1>8 DEF Next, Passing

LEMMA ClaimInvariant == Spec => []ClaimInv
  BY ClaimInit, ClaimStep, PTL DEF Spec

\* Exactly the claimed tasks carry a lease, and a claim belongs to a started run of
\* the task's kind, whatever closes, reclaims and retries interleave.
THEOREM ClaimsAndLeases == Spec => []LeaseIffClaimed
<1>1. ClaimInv => LeaseIffClaimed
  BY DEF ClaimInv, TaskRows
<1> QED
  BY <1>1, ClaimInvariant, PTL

\* No task is offered or worked on with its attempts used up.
THEOREM AttemptsAreLimited == Spec => []AttemptsLeft
<1>1. ClaimInv => AttemptsLeft
  BY DEF ClaimInv, TaskRows
<1> QED
  BY <1>1, ClaimInvariant, PTL
=============================================================================
