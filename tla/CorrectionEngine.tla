-------------------------- MODULE CorrectionEngine --------------------------
(***************************************************************************)
(* The correction loop: CorrectionEngine (brain/correction_engine) over    *)
(* CorrectionRuntimeState (brain/correction_runtime).  A proposal is       *)
(* validated, approved, applied and tested; a failed test asks for a       *)
(* correction, which goes the same way, within limits on the rounds, on    *)
(* what is written and on repeated failures.                               *)
(*                                                                         *)
(* Validation and the transaction may fail at any time (files are edited   *)
(* by others); a test is green, red with some fingerprint, or its result   *)
(* is not acceptable and the call ends in an exception.  resume() is       *)
(* several steps, one per effect; the other calls are one.  Calls that the *)
(* engine refuses without effect are left out, and so are goals, reasons   *)
(* and identifiers, changed lines (accounted as bytes are), new files (a   *)
(* subset of the modified ones, under the same limit), and exceptions that *)
(* a validator does not declare.                                           *)
(*                                                                         *)
(* Approvals go through InMemoryCorrectionApprovalService, the only one    *)
(* that CorrectionWorkflowController accepts.                              *)
(*                                                                         *)
(* Definitions whose comment starts with "Mutation" are not part of the    *)
(* model: each is the definition after it with a mistake, and some         *)
(* property must notice it.                                                *)
(***************************************************************************)
EXTENDS Naturals, Sequences, FiniteSets

CONSTANTS
    Proposals,      \* proposals that may be submitted
    Files,          \* paths that they may change
    Prints,         \* failure fingerprints
    Changes,        \* Changes[p]: the files that p changes
    Cost,           \* Cost[p]: the bytes that p writes
    Focused, Full,  \* number of tests of each scope that p declares
    MaxIterations, MaxFiles, MaxBytes, MaxRepeated,  \* WorkflowLimits
    MaxRuntimes     \* bound on the runtimes of one engine

ASSUME LimitsAssumption ==
    /\ MaxIterations \in Nat \ {0} /\ MaxFiles \in Nat \ {0}
    /\ MaxBytes \in Nat \ {0} /\ MaxRepeated \in Nat \ {0}
    /\ MaxRuntimes \in Nat

ASSUME ProposalAssumption ==
    /\ IsFiniteSet(Files)
    /\ Changes \in [Proposals -> SUBSET Files]
    /\ Cost \in [Proposals -> Nat]
    /\ Focused \in [Proposals -> Nat] /\ Full \in [Proposals -> Nat]

VARIABLES
    status,      \* of the runtime, "none" before there is one
    busy,        \* resume() is applying or testing
    current,     \* current_proposal, validated whenever a request is pending
    correction,  \* _current_is_correction
    iterations,  \* correction_iterations
    modified,    \* modified_files
    bytes,       \* total_write_bytes
    failures,    \* failure_counts
    runs,        \* test_runs since the last application: was each green?
    applied,     \* applied_proposal_ids of the runtime
    pending,     \* _pending_approval_request, as its snapshot; {} or one
    asked,       \* requests that the approval service would still decide
    landed,      \* applied_proposal_ids of the transaction
    granted,     \* history: the request whose approval is being carried out
    runtimes     \* number of runtimes started

vars == <<status, busy, current, correction, iterations, modified, bytes, failures,
          runs, applied, pending, asked, landed, granted, runtimes>>

budget == <<iterations, modified, bytes>>
approval == <<pending, asked>>

None == "none"
Terminal == {"completed", "failed", "cancelled", "rollback_failed",
             "correction_limit_reached", "repeated_failure_limit_reached"}
Testing == {"testing_focused", "testing_full"}
Active == {"awaiting_approval", "applying", "awaiting_correction"} \cup Testing

Init ==
    /\ status = "none" /\ busy = FALSE
    /\ current = None /\ correction = FALSE
    /\ iterations = 0 /\ modified = {} /\ bytes = 0
    /\ failures = [f \in Prints |-> 0] /\ runs = <<>>
    /\ applied = {} /\ pending = {} /\ asked = {} /\ landed = {} /\ granted = {}
    /\ runtimes = 0

-----------------------------------------------------------------------------
(* Validation and approval requests.                                       *)

\* Mutation: each proposal is measured alone.
FitsAlone(p, files, total) == Cardinality(Changes[p]) <= MaxFiles /\ Cost[p] <= MaxBytes

\* _check_accumulated_limits.
Fits(p, files, total) ==
    /\ Cardinality(files \cup Changes[p]) <= MaxFiles
    /\ total + Cost[p] <= MaxBytes

\* _validate_test_contract.
DeclaresFull(p) == Full[p] >= 1

\* What an approval is bound to: _build_approval_snapshot.
Snapshot(p, i, files, total, n) ==
    [proposal |-> p, iterations |-> i, modified |-> files, bytes |-> total,
     runtime |-> n]

Now == Snapshot(current, iterations, modified, bytes, runtimes)

\* _request_approval.
Ask(request) ==
    /\ pending' = {request}
    /\ asked' = asked \cup {request}

\* The request is decided or cancelled: neither the engine nor the service keeps it.
Settle ==
    /\ pending' = {}
    /\ asked' = asked \ pending

-----------------------------------------------------------------------------
(* Calls that start a runtime.                                             *)

MayStart == ~busy /\ status \in Terminal \cup {"none"} /\ runtimes < MaxRuntimes

\* start: an initial proposal, with nothing spent.
Start(p) ==
    /\ MayStart
    /\ runtimes' = runtimes + 1
    /\ current' = p /\ correction' = FALSE
    /\ iterations' = 0 /\ modified' = {} /\ bytes' = 0
    /\ failures' = [f \in Prints |-> 0] /\ runs' = <<>> /\ applied' = {}
    /\ \/ /\ DeclaresFull(p) /\ Fits(p, {}, 0)
          /\ status' = "awaiting_approval"
          /\ Ask(Snapshot(p, 0, {}, 0, runtimes + 1))
       \/ /\ status' = "awaiting_correction"
          /\ UNCHANGED approval
    /\ UNCHANGED <<busy, landed, granted>>

\* register_failure.
Failed(count) ==
    IF count >= MaxRepeated THEN "repeated_failure_limit_reached"
    ELSE "awaiting_correction"

\* start_from_test_failure: one red test of a workflow, with what the workflow has
\* spent already, which its own limits bound.
StartFromTestFailure(f, i, files, total) ==
    /\ MayStart
    /\ i <= MaxIterations /\ Cardinality(files) <= MaxFiles /\ total <= MaxBytes
    /\ runtimes' = runtimes + 1
    /\ current' = None /\ correction' = FALSE
    /\ iterations' = i /\ modified' = files /\ bytes' = total
    /\ failures' = [g \in Prints |-> IF g = f THEN 1 ELSE 0]
    /\ runs' = <<FALSE>> /\ applied' = {}
    /\ status' = Failed(1)
    /\ UNCHANGED <<busy, approval, landed, granted>>

-----------------------------------------------------------------------------
(* submit_correction, cancel, and the decision in resume.                  *)

MaySubmit == ~busy /\ status = "awaiting_correction"

\* Mutation: one round too many is accepted.
RoundsLeftOffByOne == iterations <= MaxIterations

RoundsLeft == iterations < MaxIterations

\* A correction is validated and its approval requested.
Submit(p) ==
    /\ MaySubmit /\ RoundsLeft
    /\ p \notin applied
    /\ DeclaresFull(p) /\ Fits(p, modified, bytes)
    /\ current' = p /\ correction' = TRUE
    /\ status' = "awaiting_approval"
    /\ IF pending = {} THEN Ask(Snapshot(p, iterations, modified, bytes, runtimes))
       ELSE UNCHANGED approval
    /\ UNCHANGED <<busy, budget, failures, runs, applied, landed, granted, runtimes>>

\* ... or refused because no round is left (accept_proposal).
SubmitAtLimit(p) ==
    /\ MaySubmit /\ ~RoundsLeft
    /\ p \notin applied
    /\ DeclaresFull(p) /\ Fits(p, modified, bytes)
    /\ status' = "correction_limit_reached"
    /\ UNCHANGED <<busy, current, correction, budget, failures, runs, applied,
                   approval, landed, granted, runtimes>>

Decidable == ~busy /\ status = "awaiting_approval" /\ pending # {}

\* The request is for this proposal in this state, and it fits the limits.
StillValid == pending = {Now} /\ Fits(current, modified, bytes)

\* Whatever the decision, the request and the proposal are validated again first, and
\* the runtime is cancelled if they are not what they were.
ResumeInvalid ==
    /\ Decidable
    /\ status' = "cancelled"
    /\ Settle
    /\ UNCHANGED <<busy, current, correction, budget, failures, runs, applied, landed,
                   granted, runtimes>>

\* Mutation: the service still has the request.
RejectKeepsRequest ==
    /\ Decidable /\ StillValid
    /\ status' = "awaiting_correction"
    /\ pending' = {}
    /\ UNCHANGED <<busy, current, correction, budget, failures, runs, applied, asked,
                   landed, granted, runtimes>>

\* Mutation: the answer is not looked at.
RejectApplies ==
    /\ Decidable /\ StillValid
    /\ status' = "applying" /\ busy' = TRUE
    /\ Settle
    /\ UNCHANGED <<current, correction, budget, failures, runs, applied, landed, granted,
                   runtimes>>

\* Rejected: another proposal may be submitted.
Reject ==
    /\ Decidable /\ StillValid
    /\ status' = "awaiting_correction"
    /\ Settle
    /\ UNCHANGED <<busy, current, correction, budget, failures, runs, applied, landed,
                   granted, runtimes>>

Approve ==
    /\ Decidable /\ StillValid
    /\ status' = "applying" /\ busy' = TRUE
    /\ granted' = pending
    /\ Settle
    /\ UNCHANGED <<current, correction, budget, failures, runs, applied, landed,
                   runtimes>>

Cancel ==
    /\ ~busy /\ status \in Active
    /\ status' = "cancelled"
    /\ Settle
    /\ UNCHANGED <<busy, current, correction, budget, failures, runs, applied, landed,
                   granted, runtimes>>

-----------------------------------------------------------------------------
(* What an approved resume does next: the transaction and the tests.       *)

\* Mutation: passing the focused tests is enough.
PassedFocusedOnly(p, n) ==
    IF n >= Focused[p] THEN "completed" ELSE "testing_focused"

\* The status once n of the declared tests have passed.
Passed(p, n) ==
    IF n = Focused[p] + Full[p] THEN "completed"
    ELSE IF n >= Focused[p] THEN "testing_full" ELSE "testing_focused"

Applying == busy /\ status = "applying" /\ current \notin landed

\* The transaction succeeds.  record_future_application counts the correction, and
\* would refuse one that the limit no longer allows.
Apply ==
    /\ Applying
    /\ landed' = landed \cup {current}
    /\ granted' = {}
    /\ IF correction /\ iterations >= MaxIterations
       THEN /\ status' = "correction_limit_reached" /\ busy' = FALSE
            /\ UNCHANGED <<budget, runs, applied>>
       ELSE /\ iterations' = IF correction THEN iterations + 1 ELSE iterations
            /\ applied' = applied \cup {current}
            /\ modified' = modified \cup Changes[current]
            /\ bytes' = bytes + Cost[current]
            /\ runs' = <<>>
            /\ status' = Passed(current, 0)
            /\ busy' = (status' \notin Terminal)
    /\ UNCHANGED <<current, correction, failures, approval, runtimes>>

\* It fails and leaves nothing behind, or refuses a proposal it has applied before.
ApplyFails ==
    /\ busy /\ status = "applying"
    /\ status' = "failed" /\ busy' = FALSE
    /\ granted' = {}
    /\ UNCHANGED <<current, correction, budget, failures, runs, applied, approval,
                   landed, runtimes>>

\* It fails and so does its rollback: the uncertain files are charged.
RollbackFails(files, cost) ==
    /\ Applying /\ files \subseteq Changes[current] /\ cost <= Cost[current]
    /\ modified' = modified \cup files /\ bytes' = bytes + cost
    /\ status' = "rollback_failed" /\ busy' = FALSE
    /\ granted' = {}
    /\ UNCHANGED <<current, correction, iterations, failures, runs, applied, approval,
                   landed, runtimes>>

\* Mutation: a red test does not end the round.
TestRedGoesOn(f) ==
    /\ busy /\ status \in Testing
    /\ runs' = Append(runs, FALSE)
    /\ status' = Passed(current, Len(runs) + 1)
    /\ busy' = (status' \notin Terminal)
    /\ failures' = [failures EXCEPT ![f] = @ + 1]
    /\ UNCHANGED <<current, correction, budget, applied, approval, landed, granted,
                   runtimes>>

\* Mutation: each full test but the last sends back to the focused ones.
TestGreenStartsOver ==
    /\ busy /\ status \in Testing
    /\ LET next == Passed(current, Len(runs) + 1)
       IN  IF status = "testing_full" /\ next = "testing_full"
           THEN runs' = <<>> /\ status' = Passed(current, 0) /\ UNCHANGED busy
           ELSE /\ runs' = Append(runs, TRUE)
                /\ status' = next
                /\ busy' = (next \notin Terminal)
    /\ UNCHANGED <<current, correction, budget, failures, applied, approval, landed,
                   granted, runtimes>>

TestGreen ==
    /\ busy /\ status \in Testing
    /\ runs' = Append(runs, TRUE)
    /\ status' = Passed(current, Len(runs) + 1)
    /\ busy' = (status' \notin Terminal)
    /\ UNCHANGED <<current, correction, budget, failures, applied, approval, landed,
                   granted, runtimes>>

\* A red test ends the round, and the same failure too many times ends the runtime.
TestRed(f) ==
    /\ busy /\ status \in Testing
    /\ runs' = Append(runs, FALSE)
    /\ failures' = [failures EXCEPT ![f] = @ + 1]
    /\ status' = Failed(failures[f] + 1)
    /\ busy' = FALSE
    /\ UNCHANGED <<current, correction, budget, applied, approval, landed, granted,
                   runtimes>>

\* Mutation: after an exception another correction may be tried.
RaiseGoesOn ==
    /\ busy
    /\ status' = "awaiting_correction" /\ busy' = FALSE
    /\ granted' = {}
    /\ UNCHANGED <<current, correction, budget, failures, runs, applied, approval, landed,
                   runtimes>>

\* An exception leaves resume: an unacceptable test result, or anything that the
\* transaction does not turn into a result.  The runtime stays where it is.
Raise ==
    /\ busy
    /\ busy' = FALSE
    /\ granted' = {}
    /\ UNCHANGED <<status, current, correction, budget, failures, runs, applied,
                   approval, landed, runtimes>>

\* What a call of resume does once it is under way.
Step ==
    \/ Apply \/ ApplyFails \/ TestGreen \/ Raise
    \/ \E files \in SUBSET Files, cost \in 0..MaxBytes : RollbackFails(files, cost)
    \/ \E f \in Prints : TestRed(f)

Next ==
    \/ \E p \in Proposals : Start(p) \/ Submit(p) \/ SubmitAtLimit(p)
    \/ \E f \in Prints, i \in 0..MaxIterations, files \in SUBSET Files,
          total \in 0..MaxBytes : StartFromTestFailure(f, i, files, total)
    \/ ResumeInvalid \/ Reject \/ Approve \/ Cancel
    \/ Step

Spec == Init /\ [][Next]_vars

\* resume runs on the caller's thread: the transaction returns (ApplyReturns of
\* ChangeTransaction), and every test has a time limit.
FairSpec == Spec /\ WF_vars(Step)

-----------------------------------------------------------------------------
(* Properties.                                                             *)

Requests == [proposal : Proposals, iterations : 0..MaxIterations,
             modified : SUBSET Files, bytes : 0..MaxBytes, runtime : 0..MaxRuntimes]

\* Type of the state.
TypeOK ==
    /\ status \in Terminal \cup Active \cup {"none"}
    /\ busy \in BOOLEAN /\ correction \in BOOLEAN
    /\ current \in Proposals \cup {None}
    /\ iterations \in Nat /\ modified \subseteq Files /\ bytes \in Nat
    /\ failures \in [Prints -> Nat] /\ runs \in Seq(BOOLEAN)
    /\ applied \subseteq Proposals /\ landed \subseteq Proposals
    /\ pending \subseteq Requests /\ asked \subseteq Requests
    /\ granted \subseteq Requests
    /\ runtimes \in 0..MaxRuntimes

\* Over all rounds together, and also after a rollback that failed, the runtime stays
\* within its limits: the limits are checked before, the spending recorded after.
WithinLimits ==
    /\ iterations <= MaxIterations
    /\ Cardinality(modified) <= MaxFiles
    /\ bytes <= MaxBytes

\* A runtime that awaits an approval has exactly one request, for the proposal and the
\* budget as they are now, and the service would decide no other; no request survives
\* the wait.
OneRequest ==
    /\ asked = pending
    /\ pending = IF status = "awaiting_approval" THEN {Now} ELSE {}

\* "completed" means that the current proposal is applied and that each of the tests it
\* declares, a full one among them, has passed since.
CompletedIsVerified ==
    status = "completed" =>
        /\ current \in applied \cap landed
        /\ Len(runs) = Focused[current] + Full[current] /\ Full[current] >= 1
        /\ \A i \in 1..Len(runs) : runs[i]

\* While another correction may come, no failure has been seen too often.
RepeatedFailureStops ==
    status # "repeated_failure_limit_reached" =>
        \A f \in Prints : failures[f] < MaxRepeated

\* What the transaction writes was approved, and approved for the state in which it is
\* applied.
ApprovedIsApplied ==
    [][ landed' # landed => Now \in granted /\ landed' = landed \cup {current} ]_vars

\* What the transaction writes is recorded: the proposal as applied, and the correction
\* against the limit, which may not refuse what is already on disk.
EveryApplicationCounts ==
    [][ landed' # landed => /\ applied' \ applied = landed' \ landed
                            /\ correction => iterations' = iterations + 1 ]_vars

\* resume returns.
ResumeReturns == busy ~> ~busy

\* The phase of ApprovedRounds that the runtime is in.
Phase ==
    IF status \in Terminal \cup {"none"} THEN "closed"
    ELSE IF status = "awaiting_correction" THEN "drafting"
    ELSE IF status = "awaiting_approval" THEN "asking"
    ELSE IF ~busy THEN "broken"
    ELSE IF status = "applying" THEN "acting" ELSE "judging"

Rounds ==
    INSTANCE ApprovedRounds WITH phase <- Phase, effects <- landed,
        rounds <- Cardinality(applied), Limit <- MaxIterations, Effects <- Proposals

\* The runtime implements ApprovedRounds.
RoundsSpec == Rounds!Spec
=============================================================================
