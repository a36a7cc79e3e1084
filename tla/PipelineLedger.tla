--------------------------- MODULE PipelineLedger ---------------------------
(* Pipeline implements TaskLedger: the rows of generation_tasks, whatever      *)
(* requests interleave over them, change only as the ledger allows.            *)
EXTENDS Pipeline

PhaseOf(s) == CASE s = "absent"  -> "none"
                [] s = "pending" -> "waiting"
                [] s = "claimed" -> "held"
                [] OTHER         -> s

Ledger == INSTANCE TaskLedger WITH
            phase  <- [t \in Tasks |-> PhaseOf(status[t])],
            owner  <- [t \in Tasks |-> IF status[t] = "claimed" THEN holder[t] ELSE NoRun],
            lapsed <- [t \in Tasks |-> lease[t] = "expired"],
            credit <- landed,
            tries  <- attempts

\* Every step of the server is a step of the ledger or leaves it alone: a live
\* claim is never taken from its run, a done task never reopens, an open task
\* has attempts left.
ImplementsLedger == Ledger!Spec
=============================================================================
