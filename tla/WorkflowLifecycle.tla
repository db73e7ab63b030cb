------------------------- MODULE WorkflowLifecycle -------------------------
(***************************************************************************)
(* What a workflow promises to whoever watches it from outside: the plan's *)
(* steps settle one by one, each at most once unless the plan repeats it;  *)
(* a step is ok only after everything it depends on; the workflow waits    *)
(* for one step at a time; it says "completed" only when every required    *)
(* step is ok; and a cancelled workflow never moves again.                 *)
(*                                                                         *)
(* How steps are scheduled, approved, corrected and how calls fail is left *)
(* open: WorkflowEngine is shown to implement this.                        *)
(***************************************************************************)
CONSTANTS Steps, Deps, Required, Repeat, None

VARIABLES
    phase,     \* the workflow's status
    outcome,   \* outcome[s]: "open" until the step settles
    waiting    \* the step the workflow waits for, or None

vars == <<phase, outcome, waiting>>

AllOk(S) == \A s \in S : outcome[s] = "ok"

Init ==
    /\ phase = "running"
    /\ outcome = [s \in Steps |-> "open"]
    /\ waiting = None

\* A running workflow gives its verdict: it may say so at any time, but it says
\* "completed" exactly when no required step is missing.
VerdictOn(result) ==
    IF \A s \in Required : result[s] = "ok" THEN "completed" ELSE "failed"

\* A step settles while the workflow runs, or gives up the correction it waits
\* for; the workflow may end with it.
Settle(s, result) ==
    /\ outcome[s] = "open"
    /\ \/ phase = "running"
       \/ phase = "awaiting_correction" /\ waiting = s /\ result = "failed"
    /\ result = "ok" => AllOk(Deps[s])
    /\ result = "skipped" => ~AllOk(Deps[s])
    /\ outcome' = [outcome EXCEPT ![s] = result]
    /\ phase' \in {"running", VerdictOn(outcome')}
    /\ waiting' = None

\* The workflow starts to wait for a step, or waits for it in another way.
Wait(s) ==
    /\ outcome[s] = "open" /\ AllOk(Deps[s])
    /\ phase = "running" \/ (phase \in {"awaiting_approval", "awaiting_correction"}
                             /\ waiting = s)
    /\ phase' \in {"awaiting_approval", "awaiting_correction"}
    /\ waiting' = s
    /\ UNCHANGED outcome

Approve ==
    /\ phase = "awaiting_approval"
    /\ phase' = "running" /\ waiting' = None
    /\ UNCHANGED outcome

Cancel ==
    /\ phase = "awaiting_approval"
    /\ phase' = "cancelled" /\ waiting' = None
    /\ outcome' = [outcome EXCEPT ![waiting] = "skipped"]

Finish ==
    /\ phase = "running"
    /\ phase' = VerdictOn(outcome)
    /\ UNCHANGED <<outcome, waiting>>

\* The workflow is run again: only completed steps marked for it are reopened.
RunAgain ==
    /\ phase \in {"running", "completed", "failed"}
    /\ phase' = "running" /\ waiting' = None
    /\ outcome' = [s \in Steps |-> IF outcome[s] = "ok" /\ s \in Repeat
                                   THEN "open" ELSE outcome[s]]

Next ==
    \/ \E s \in Steps : \/ \E result \in {"ok", "failed", "partial", "skipped"} :
                              Settle(s, result)
                        \/ Wait(s)
    \/ Approve \/ Cancel \/ Finish \/ RunAgain

Spec == Init /\ [][Next]_vars
=============================================================================
