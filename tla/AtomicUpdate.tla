---------------------------- MODULE AtomicUpdate ----------------------------
(***************************************************************************)
(* What ChangeTransaction promises: the files of a proposal change         *)
(* together in one step, or not at all, or the call says "rollback_failed" *)
(* (or was interrupted) and any of them may have changed.  The promise     *)
(* ends where somebody else writes one of them.                            *)
(***************************************************************************)
CONSTANTS Files, Original(_)

VARIABLES
    files, result,
    disturbed      \* has somebody else written?

vars == <<files, result, disturbed>>

Init ==
    /\ files = [f \in Files |-> Original(f)]
    /\ result = "none" /\ ~disturbed

\* All the files, from the validated content.
Commit ==
    /\ files = [f \in Files |-> Original(f)]
    /\ files' = [f \in Files |-> "new"]
    /\ result' = "applied"

Fail ==
    /\ result' \in {"precondition", "apply_error", "duplicate"}
    /\ UNCHANGED files

\* What could not be undone shows.
Uncertain ==
    /\ result' \in {"rollback_failed", "interrupted"}
    /\ \E undone \in SUBSET Files :
          files' = [f \in Files |-> IF f \in undone THEN files[f] ELSE "new"]

Others == disturbed'

Next == Others \/ (~disturbed' /\ (Commit \/ Fail \/ Uncertain))

Spec == Init /\ [][Next]_vars
=============================================================================
