------------------------- MODULE ChangeTransaction -------------------------
(***************************************************************************)
(* The application of one validated proposal to the working tree:          *)
(* ChangeTransaction.apply (brain/change_transaction), file by file, while *)
(* something else (an editor, another process) may touch the same files.   *)
(*                                                                         *)
(* apply checks and snapshots every file, publishes the files in order     *)
(* (check again, then replace), and undoes what it published when one of   *)
(* them fails.  Each check and each replacement is a step of its own: the  *)
(* hazard is what happens in between.                                      *)
(*                                                                         *)
(* Contents are abstracted to where they come from; the authenticity and   *)
(* integrity checks on the proposal, which touch no file, and modes and    *)
(* fsync are left out.  The cleanup after a complete publication is not an *)
(* action: every temporary has been renamed by then (NoTemporaryForgotten).*)
(***************************************************************************)
EXTENDS Naturals

CONSTANTS
    N,         \* number of files in the proposal
    Op,        \* Op[f]: "replace" or "create"
    MaxEdits,  \* bound on edits by others
    MaxCalls   \* bound on calls of apply

Files == 1..N

ASSUME ProposalAssumption ==
    /\ N \in Nat /\ MaxEdits \in Nat /\ MaxCalls \in Nat
    /\ Op \in [Files -> {"replace", "create"}]

VARIABLES
    content,    \* content[f]: what the file holds now
    pc,         \* where apply is
    pos,        \* the file it is at
    published,  \* how many files it has replaced: the list `published`
    temps,      \* the files whose temporary is still on disk: `temporaries`
    cause,      \* what began the rollback
    errors,     \* has the rollback failed anywhere?
    outcome,    \* how the last call ended
    report,     \* the paths declared uncertain by failed rollbacks
    applied,    \* the proposal is in _applied_proposal_ids
    raced,      \* history: files edited by others since apply last checked them
    edits, calls

vars == <<content, pc, pos, published, temps, cause, errors, outcome, report,
          applied, raced, edits, calls>>

\* What the file holds, for the transaction: "old" is the validated content.
Contents == {"absent", "old", "new", "other"}
Original(f) == IF Op[f] = "replace" THEN "old" ELSE "absent"

Init ==
    /\ content = [f \in Files |-> Original(f)]
    /\ pc = "idle" /\ pos = 1 /\ published = 0
    /\ temps = {} /\ cause = "none" /\ errors = FALSE
    /\ outcome = "none" /\ report = {} /\ applied = FALSE
    /\ raced = {} /\ edits = 0 /\ calls = 0

End(result) ==
    /\ pc' = "idle"
    /\ outcome' = result

\* Mutation: the list of published files survives the call.
BeginKeepsPublished ==
    /\ pc = "idle" /\ calls < MaxCalls /\ outcome # "interrupted"
    /\ calls' = calls + 1
    /\ IF applied
       THEN End("duplicate") /\ UNCHANGED <<pos, published, temps, errors>>
       ELSE /\ pc' = "snapshot" /\ pos' = 1
            /\ temps' = {} /\ errors' = FALSE
            /\ UNCHANGED <<outcome, published>>
    /\ UNCHANGED <<content, cause, report, applied, raced, edits>>

\* A proposal is applied once; an interrupted process does not call again.
Begin ==
    /\ pc = "idle" /\ calls < MaxCalls /\ outcome # "interrupted"
    /\ calls' = calls + 1
    /\ IF applied
       THEN End("duplicate") /\ UNCHANGED <<pos, published, temps, errors>>
       ELSE /\ pc' = "snapshot" /\ pos' = 1 /\ published' = 0
            /\ temps' = {} /\ errors' = FALSE
            /\ UNCHANGED outcome
    /\ UNCHANGED <<content, cause, report, applied, raced, edits>>

\* The file is still what the validation saw.
Valid(f) == content[f] = Original(f)

\* _revalidate_and_snapshot: all files, before any is touched.
Snapshot ==
    /\ pc = "snapshot" /\ pos <= N /\ Valid(pos)
    /\ pos' = pos + 1
    /\ raced' = raced \ {pos}
    /\ UNCHANGED <<content, pc, published, temps, cause, errors, outcome, report,
                   applied, edits, calls>>

\* A file is stale, or cannot be read: nothing to undo.
SnapshotRefused ==
    /\ pc = "snapshot" /\ pos <= N
    /\ End("precondition")
    /\ UNCHANGED <<content, pos, published, temps, cause, errors, report, applied,
                   raced, edits, calls>>

StartPublishing ==
    /\ pc = "snapshot" /\ pos = N + 1
    /\ pc' = "check" /\ pos' = 1
    /\ UNCHANGED <<content, published, temps, cause, errors, outcome, report,
                   applied, raced, edits, calls>>

\* Mutation: only the snapshot looks at the content.
CheckTrustsSnapshot ==
    /\ pc = "check" /\ pos <= N
    /\ pc' = "replace"
    /\ raced' = raced \ {pos}
    /\ UNCHANGED <<content, pos, published, temps, cause, errors, outcome, report,
                   applied, edits, calls>>

\* _revalidate_before_publication.
Check ==
    /\ pc = "check" /\ pos <= N /\ Valid(pos)
    /\ pc' = "replace"
    /\ raced' = raced \ {pos}
    /\ UNCHANGED <<content, pos, published, temps, cause, errors, outcome, report,
                   applied, edits, calls>>

StartRollback(why) ==
    /\ pc' = "rollback" /\ pos' = published
    /\ cause' = why

\* ... refused: TransactionPreconditionError after some files were published.
CheckRefused ==
    /\ pc = "check" /\ pos <= N
    /\ StartRollback("precondition")
    /\ UNCHANGED <<content, published, temps, errors, outcome, report, applied,
                   raced, edits, calls>>

\* The temporary is renamed over the target, whatever the target holds by now.
Replace ==
    /\ pc = "replace"
    /\ content' = [content EXCEPT ![pos] = "new"]
    /\ published' = published + 1
    /\ pc' = "check" /\ pos' = pos + 1
    /\ UNCHANGED <<temps, cause, errors, outcome, report, applied, raced, edits, calls>>

\* An OSError, before or after the temporary exists.
ReplaceFails ==
    /\ pc = "replace"
    /\ temps' \in {temps, temps \cup {pos}}
    /\ StartRollback("os")
    /\ UNCHANGED <<content, published, errors, outcome, report, applied, raced,
                   edits, calls>>

Commit ==
    /\ pc = "check" /\ pos = N + 1
    /\ End("applied")
    /\ applied' = TRUE
    /\ UNCHANGED <<content, pos, published, temps, cause, errors, report, raced,
                   edits, calls>>

\* _ensure_rollback_owns_path: only what this transaction wrote is undone.
RestoreCheck ==
    /\ pc = "rollback" /\ pos > 0 /\ content[pos] = "new"
    /\ pc' = "restore"
    /\ raced' = raced \ {pos}
    /\ UNCHANGED <<content, pos, published, temps, cause, errors, outcome, report,
                   applied, edits, calls>>

\* Mutation: the failure is not remembered.
RestoreRefusedSilently ==
    /\ pc = "rollback" /\ pos > 0
    /\ pos' = pos - 1
    /\ UNCHANGED <<content, pc, published, temps, cause, errors, outcome, report,
                   applied, raced, edits, calls>>

\* Mutation: the rollback does not get past the file.
RestoreRefusedStays ==
    /\ pc = "rollback" /\ pos > 0
    /\ errors' = TRUE
    /\ UNCHANGED <<content, pc, pos, published, temps, cause, outcome, report,
                   applied, raced, edits, calls>>

\* Somebody else's content, or it cannot be read: an error, and on to the next.
RestoreRefused ==
    /\ pc = "rollback" /\ pos > 0
    /\ errors' = TRUE
    /\ pos' = pos - 1
    /\ UNCHANGED <<content, pc, published, temps, cause, outcome, report, applied,
                   raced, edits, calls>>

Restore ==
    /\ pc = "restore"
    /\ content' = [content EXCEPT ![pos] = Original(pos)]
    /\ pc' = "rollback" /\ pos' = pos - 1
    /\ UNCHANGED <<published, temps, cause, errors, outcome, report, applied, raced,
                   edits, calls>>

\* An OSError of unlink, or while the snapshot is written and renamed.
RestoreFails ==
    /\ pc = "restore"
    /\ temps' \in {temps, temps \cup {pos}}
    /\ errors' = TRUE
    /\ pc' = "rollback" /\ pos' = pos - 1
    /\ UNCHANGED <<content, published, cause, outcome, report, applied, raced,
                   edits, calls>>

\* Mutation: temporaries that could not be removed are no error.
ConcludeIgnoringTemporaries ==
    /\ pc = "rollback" /\ pos = 0
    /\ temps' \in SUBSET temps
    /\ End(IF errors THEN "rollback_failed"
           ELSE IF cause = "os" THEN "apply_error" ELSE "precondition")
    /\ report' = report \cup (IF errors THEN 1..published ELSE {})
    /\ UNCHANGED <<content, pos, published, cause, errors, applied, raced, edits, calls>>

\* The temporaries are removed, or some are not, which is an error too; a failed
\* rollback declares every published path uncertain.
Conclude ==
    /\ pc = "rollback" /\ pos = 0
    /\ temps' \in SUBSET temps
    /\ LET failed == errors \/ temps' # {}
       IN  /\ End(IF failed THEN "rollback_failed"
                  ELSE IF cause = "os" THEN "apply_error" ELSE "precondition")
           /\ report' = report \cup (IF failed THEN 1..published ELSE {})
    /\ UNCHANGED <<content, pos, published, cause, errors, applied, raced, edits, calls>>

\* KeyboardInterrupt and SystemExit are not Exceptions: no rollback.
Interrupt ==
    /\ pc # "idle"
    /\ End("interrupted")
    /\ UNCHANGED <<content, pos, published, temps, cause, errors, report, applied,
                   raced, edits, calls>>

\* Somebody else writes or deletes a file.
Edit(f) ==
    /\ edits < MaxEdits
    /\ \E c \in {"absent", "other"} : content[f] # c /\ content' = [content EXCEPT ![f] = c]
    /\ raced' = raced \cup {f}
    /\ edits' = edits + 1
    /\ UNCHANGED <<pc, pos, published, temps, cause, errors, outcome, report, applied,
                   calls>>

\* The steps of apply itself.
Step ==
    \/ Snapshot \/ SnapshotRefused \/ StartPublishing
    \/ Check \/ CheckRefused \/ Replace \/ ReplaceFails \/ Commit
    \/ RestoreCheck \/ RestoreRefused \/ Restore \/ RestoreFails \/ Conclude

Next == Begin \/ Step \/ Interrupt \/ \E f \in Files : Edit(f)

Spec == Init /\ [][Next]_vars

\* apply runs on the caller's thread until it returns.
FairSpec == Spec /\ WF_vars(Step)

-----------------------------------------------------------------------------
(* Properties.                                                             *)

\* Type of the state.
TypeOK ==
    /\ content \in [Files -> Contents]
    /\ pc \in {"idle", "snapshot", "check", "replace", "rollback", "restore"}
    /\ pos \in 0..(N + 1) /\ published \in 0..N
    /\ temps \subseteq Files /\ report \subseteq Files /\ raced \subseteq Files
    /\ cause \in {"none", "precondition", "os"}
    /\ errors \in BOOLEAN /\ applied \in BOOLEAN
    /\ outcome \in {"none", "applied", "duplicate", "precondition", "apply_error",
                    "rollback_failed", "interrupted"}
    /\ edits \in 0..MaxEdits /\ calls \in 0..MaxCalls

Traces == {f \in Files : content[f] = "new"}

\* A call that failed leaves none of the proposal's contents behind, except in
\* the paths that a failed rollback has declared uncertain: those are what the
\* correction runtime charges to its budget.
EveryTraceIsReported ==
    pc = "idle" /\ ~applied /\ outcome # "interrupted" => Traces \subseteq report

\* When the proposal is reported applied, every file was published, and holds the
\* new content unless somebody edited it afterwards.
AppliedIsWhole ==
    [][ ~applied /\ applied' => /\ published = N
                                /\ \A f \in Files : content[f] = "new" \/ f \in raced ]_vars

\* The transaction never overwrites somebody else's content that it could have
\* seen: what it loses was written after its last check of that very file.
OthersEditsSurvive ==
    [][ \A f \in Files :
          content[f] = "other" /\ content'[f] \in {"new", Original(f)} => f \in raced ]_vars

\* A call that says that nothing is left to clean up left no temporary file.
NoTemporaryForgotten ==
    pc = "idle" /\ outcome \in {"applied", "precondition", "apply_error"} => temps = {}

\* apply always returns: neither the publication nor the rollback can hang.
ApplyReturns == pc # "idle" ~> pc = "idle"

\* The logical file set: what has been published is not part of it until all of it
\* is, or until apply gives up and declares it uncertain.
Logical ==
    [f \in Files |-> IF pc # "idle" /\ f <= published /\ content[f] = "new"
                     THEN Original(f) ELSE content[f]]

Atomic == INSTANCE AtomicUpdate
              WITH files <- Logical, result <- outcome, disturbed <- edits > 0

\* Until somebody else writes, the file set changes as AtomicUpdate says.
AtomicSpec == Atomic!Spec
=============================================================================
