----------------------------- MODULE ReelEngine -----------------------------
(* The reel step engine (pipeline/kl/reels/engine.py): script, script review,   *)
(* narration, scene, render, visual review, upload.                             *)
EXTENDS StepEngine

CONSTANTS
    ScriptRounds,   \* SCRIPT_ROUNDS
    FixRounds,      \* FIX_ROUNDS
    VisualRounds    \* VISUAL_ROUNDS

NewReel   == [script |-> 0, fix |-> 0, visual |-> 0, attempt |-> 0]
BegunReel == [NewReel EXCEPT !.script = 1]

ASSUME ReelEngineAssumption ==
    /\ ScriptRounds \in Nat \ {0} /\ FixRounds \in Nat /\ VisualRounds \in Nat
    /\ NewWork = NewReel /\ BegunWork = BegunReel /\ FirstStage = "script"

\* The file with one field of the reel's work changed.
With(s, work) == [s EXCEPT !.work = work]

\* Calls of fail() inside a command load the file again.
GiveUpFromFile == Go("give up", disk) /\ Local /\ UNCHANGED disk

SubmitScript == AtStage("script") /\ Enter(disk, "script_review", "beat")

\* Mutant: the limit is checked after the round was counted.
ReviewScript_OneMore(passed) ==
    LET w == disk.work IN
    /\ AtStage("script_review")
    /\ IF passed THEN Enter(disk, "tts", "tts beat")
       ELSE IF w.script > ScriptRounds THEN GiveUpFromFile
       ELSE Enter(With(disk, [w EXCEPT !.script = @ + 1]), "script", "beat")

\* Mutant: a failed review is not counted.
ReviewScript_Uncounted(passed) ==
    /\ AtStage("script_review")
    /\ IF passed THEN Enter(disk, "tts", "tts beat")
       ELSE IF disk.work.script >= ScriptRounds THEN GiveUpFromFile
       ELSE Enter(disk, "script", "beat")

\* A failed script review starts another round while rounds are left.
ReviewScript(passed) ==
    LET w == disk.work IN
    /\ AtStage("script_review")
    /\ IF passed THEN Enter(disk, "tts", "tts beat")
       ELSE IF w.script >= ScriptRounds THEN GiveUpFromFile
       ELSE Enter(With(disk, [w EXCEPT !.script = @ + 1]), "script", "beat")

\* The heartbeats before narration and before the render, which take minutes.
LongBeat ==
    /\ \/ pc = "tts beat" /\ Go("record", st)
       \/ pc = "render beat" /\ Go("rendering", st)
    /\ Holds /\ Renews /\ UNCHANGED disk

Record == pc = "record" /\ Enter(st, "scene", "beat")

\* Mutant: one fix more than the budget.
Fixable_OneMore(s, saved) ==
    LET n == With(s, [s.work EXCEPT !.fix = @ + 1]) IN
    IF n.work.fix > FixRounds + 1 THEN SaveAndGo("give up", saved) ELSE Enter(n, "scene", "beat")

\* _fixable: another fix, unless this visual round has used them up (then fail()
\* goes on from the file as it was saved).
Fixable(s, saved) ==
    LET n == With(s, [s.work EXCEPT !.fix = @ + 1]) IN
    IF n.work.fix > FixRounds THEN SaveAndGo("give up", saved) ELSE Enter(n, "scene", "beat")

\* render: lint, then the heartbeat that says rendering.
Render(clean) ==
    LET s == With(disk, [disk.work EXCEPT !.attempt = @ + 1]) IN
    /\ AtStage("scene")
    /\ IF clean THEN Enter(s, "render", "render beat") ELSE Fixable(s, disk)

\* Whatever the render does short of ending the process, the file goes back to the
\* scene step first.
Rendered(ok) ==
    LET s == [st EXCEPT !.stage = "scene"] IN
    /\ pc = "rendering"
    /\ IF ok THEN Enter(s, "visual", "beat") ELSE Fixable(s, s)

RenderRaises ==
    /\ pc = "rendering" /\ faults < MaxFaults
    /\ disk' = [st EXCEPT !.stage = "scene"] /\ End
    /\ faults' = faults + 1 /\ UNCHANGED serverVars

\* A failed visual review gives the scene a fresh budget of render fixes.
ReviewVisual(passed) ==
    LET w == disk.work IN
    /\ AtStage("visual")
    /\ IF passed THEN Go("upload", [disk EXCEPT !.keep = {"reel"}]) /\ Local /\ UNCHANGED disk
       ELSE IF w.visual >= VisualRounds THEN GiveUpFromFile
       ELSE Enter(With(disk, [w EXCEPT !.visual = @ + 1, !.fix = 0]), "scene", "beat")

\* The video, then (whatever comes of it) the poster, then the completion.
Upload ==
    /\ pc = "upload" /\ Holds
    /\ Go("complete", st) /\ Local /\ UNCHANGED disk

\* What the driver does when it follows NEXT.
FollowNext ==
    \/ SubmitNotes \/ SubmitScript
    \/ \E passed \in BOOLEAN : ReviewScript(passed) \/ ReviewVisual(passed)
    \/ \E clean \in BOOLEAN : Render(clean)
    \/ \E stage \in {"read", "script", "script_review", "visual"} : Invalid(stage)

ReelProceed ==
    \/ Proceed \/ LongBeat \/ Record
    \/ \E ok \in BOOLEAN : Rendered(ok)
    \/ Upload

Next == Command \/ FollowNext \/ ReelProceed \/ RenderRaises \/ Crash \/ Around

Spec == Init /\ [][Next]_vars

(* A command that runs goes on, and the driver keeps following NEXT; it may run  *)
(* status or start again and again in between.                                   *)
FairSpec == Spec /\ WF_vars(ReelProceed) /\ SF_vars(FollowNext)

-----------------------------------------------------------------------------

Stages == {"none", "read", "script", "script_review", "tts", "scene", "render", "visual"}
State  == [run : OwnRuns \union {NoRun}, task : Tasks \union {NoTask}, stage : Stages,
           invalid : 0..(MaxInvalid + faults), seen : {"unread", "read", "unreadable"}, paged : BOOLEAN,
           keep : SUBSET {"reel"},
           work : [script : 0..ScriptRounds, fix : 0..FixRounds, visual : 0..VisualRounds, attempt : Nat]]

\* The file never goes past a budget of its own: rounds, fixes and revisions stay in
\* range whatever fails, is retried or is interrupted.
TypeOK ==
    /\ disk \in State /\ st \in State
    /\ disk.keep = {}
    /\ (pc = "idle" => st = NoState) /\ (disk.task = NoTask => disk = NewState(disk.run))

\* "render fixes per visual round", "revisions after a failed visual review"
\* (reels/engine.py): one claim is rendered (FixRounds + 1) * (VisualRounds + 1)
\* times at most, attempts cut short by a fault aside.
RendersAreBudgeted ==
    disk.work.attempt <= (FixRounds + 1) * (VisualRounds + 1) + faults

\* A run whose driver follows NEXT ends, whatever reviewers, renders and the server
\* answer, or a fault has left it in one of these dead ends.
DeadEnd  == LostItsTask \/ (pc = "idle" /\ disk.stage \in {"tts", "render"})
RunEnds  == disk # NoState ~> (disk = NoState \/ DeadEnd)
=============================================================================
