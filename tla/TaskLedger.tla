----------------------------- MODULE TaskLedger -----------------------------
(* What the pipeline server promises its runners about a task, whatever the    *)
(* requests, workers and crashes behind it do: services.py's opening comment   *)
(* ("Every call from a runner proves it still holds its claim.  A claim is     *)
(* lost when the lease expired and another run re-claimed the task") and the   *)
(* status diagram in docs/PIPELINE_DB.md.                                      *)
EXTENDS Integers

CONSTANTS Tasks, Runs, NoRun, MaxAttempts

VARIABLES
    phase,      \* none, waiting, held, done, skipped or failed
    owner,      \* the run that holds the task, NoRun unless it is held
    lapsed,     \* the owner let its lease run out
    credit,     \* completions accepted from each run
    tries       \* failures reported since the task was created or retried

vars == <<phase, owner, lapsed, credit, tries>>

Init ==
    /\ phase = [t \in Tasks |-> "none"]
    /\ owner = [t \in Tasks |-> NoRun]
    /\ lapsed = [t \in Tasks |-> FALSE]
    /\ credit = [r \in Runs |-> 0]
    /\ tries = [t \in Tasks |-> 0]

\* A task leaves its owner's hands for phase p.
Leave(t, p) ==
    /\ phase' = [phase EXCEPT ![t] = p]
    /\ owner' = [owner EXCEPT ![t] = NoRun]
    /\ lapsed' = [lapsed EXCEPT ![t] = FALSE]

\* A run gets a task that is new, waiting, or held under a lease that ran out.
Give(t, r) ==
    /\ phase[t] \in {"none", "waiting"} \/ (phase[t] = "held" /\ lapsed[t])
    /\ phase' = [phase EXCEPT ![t] = "held"]
    /\ owner' = [owner EXCEPT ![t] = r]
    /\ lapsed' = [lapsed EXCEPT ![t] = FALSE]
    /\ UNCHANGED <<credit, tries>>

Renew(t) ==
    /\ phase[t] = "held"
    /\ lapsed' = [lapsed EXCEPT ![t] = FALSE]
    /\ UNCHANGED <<phase, owner, credit, tries>>

Lapse(t) ==
    /\ phase[t] = "held"
    /\ lapsed' = [lapsed EXCEPT ![t] = TRUE]
    /\ UNCHANGED <<phase, owner, credit, tries>>

\* The owner's output lands, or there was nothing worth making; it and no other
\* run is credited.
Land(t) ==
    /\ phase[t] = "held"
    /\ \E p \in {"done", "skipped"} : Leave(t, p)
    /\ credit' = [credit EXCEPT ![owner[t]] = @ + 1]
    /\ UNCHANGED tries

\* The owner reports a failure: the last allowed one is final.
GiveUp(t) ==
    /\ phase[t] = "held"
    /\ \/ tries[t] + 1 < MaxAttempts /\ Leave(t, "waiting")
       \/ Leave(t, "failed")
    /\ tries' = [tries EXCEPT ![t] = @ + 1]
    /\ UNCHANGED credit

\* Everything a run holds goes back to the queue when the run is closed.
HandBackAll(r) ==
    LET held == {t \in Tasks : phase[t] = "held" /\ owner[t] = r} IN
    /\ phase' = [t \in Tasks |-> IF t \in held THEN "waiting" ELSE phase[t]]
    /\ owner' = [t \in Tasks |-> IF t \in held THEN NoRun ELSE owner[t]]
    /\ lapsed' = [t \in Tasks |-> IF t \in held THEN FALSE ELSE lapsed[t]]
    /\ UNCHANGED <<credit, tries>>

\* The learner asks for another go: a task that failed or made nothing starts over.
Reopen(t) ==
    /\ phase[t] \in {"failed", "skipped"}
    /\ Leave(t, "waiting")
    /\ tries' = [tries EXCEPT ![t] = 0]
    /\ UNCHANGED credit

Next ==
    \/ \E t \in Tasks : \/ \E r \in Runs : Give(t, r)
                        \/ Renew(t) \/ Lapse(t) \/ Land(t) \/ GiveUp(t) \/ Reopen(t)
    \/ \E r \in Runs : HandBackAll(r)

Spec == Init /\ [][Next]_vars
=============================================================================
