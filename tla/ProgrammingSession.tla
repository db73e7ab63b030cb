------------------------- MODULE ProgrammingSession -------------------------
(***************************************************************************)
(* ControlledProgrammingSession: from a request to a plan, its review, its *)
(* run, the approvals it asks for, and the corrections that a model        *)
(* proposes after a red test.  The conversation has the same review        *)
(* controller and the same engine, with an approval slot of its own, and   *)
(* runs plans that the session knows nothing of.                           *)
(*                                                                         *)
(* A message is answered before the next: `owner` is who it was for, `at`  *)
(* the place in the handler, `cur` the record or run it is about.  The     *)
(* review controller is also called from other threads meanwhile.          *)
(*                                                                         *)
(* Abstracted: a call of the engine ends with the status of the run, and   *)
(* returns or raises (WorkflowEngine); the steps of plans made by a model  *)
(* read, propose a patch or run tests, so that only a red test opens a     *)
(* correction.  A draft that repeats an earlier one is an invalid draft.   *)
(*                                                                         *)
(* Definitions whose comment starts with "Mutation" are not part of the    *)
(* model: each is the definition after it with a mistake, and some         *)
(* property must notice it.                                                *)
(***************************************************************************)
EXTENDS PlanReview

CONSTANTS
    MaxGenerations, MaxInvalidDrafts, MaxRejected   \* ModelCorrectionGenerationPolicy

ASSUME PolicyAssumption ==
    MaxGenerations \in Nat /\ MaxInvalidDrafts \in Nat /\ MaxRejected \in Nat

VARIABLES
    assisted,    \* is there a model_correction_service?
    state,       \* the session: its state,
    plan,        \*    plan,
    mine,        \*    run,
    bound,       \*    whether it has a _PendingModelCorrection,
    tried, invalid, rejected,   \*    and what was generated for the request
    asked,       \* history: how often the model was asked since the request
    slot,        \* slot[o]: the operation that the ApprovalController of o holds
    changed,     \* did the files of the pending correction change?
    run,         \* run[r]: status of the runtime of run r
    starter,     \* starter[r], history: whose message started run r
    traced,      \* traced[r]: does the executor of run r have a binding to the session?
    lastRun,     \* ExecutionEngine.last_workflow_runtime
    owner, at, cur

session == <<state, plan, mine, bound, tried, invalid, rejected, asked>>
engine == <<run, starter, traced, lastRun>>
handler == <<owner, at, cur>>
vars == <<review, assisted, session, slot, changed, engine, handler>>

Nobody == "nobody"
Owners == {"session", "conversation"}
Ended == {"completed", "failed", "rejected", "cancelled"}
Asks(r, kind) == [run |-> r, kind |-> kind, claimed |-> FALSE]
NoPause == Asks(None, "none")

Idle == owner = Nobody
Done == owner' = Nobody /\ at' = "done" /\ cur' = None
GoOn(place) == at' = place /\ UNCHANGED <<owner, cur>>
Ends(r, status) == run' = [run EXCEPT ![r] = status] /\ UNCHANGED <<starter, traced, lastRun>>
Frees(o) == slot' = [slot EXCEPT ![o] = NoPause]
Holds(o, r, kind) == slot' = [slot EXCEPT ![o] = Asks(r, kind)]
Mine == owner = "session"

\* What _reset_runtime_fields forgets.
Reset ==
    /\ mine' = None /\ bound' = FALSE
    /\ tried' = 0 /\ invalid' = 0 /\ rejected' = 0 /\ asked' = 0

\* The session turns to a state, if the message is one of its own.
Turns(target) ==
    /\ state' = IF Mine THEN target ELSE state
    /\ UNCHANGED <<plan, mine, tried, invalid, rejected, asked>>

Init ==
    /\ ReviewInit
    /\ assisted \in BOOLEAN
    /\ state = "idle" /\ plan = NoPlan /\ mine = None /\ bound = FALSE
    /\ tried = 0 /\ invalid = 0 /\ rejected = 0 /\ asked = 0
    /\ slot = [o \in Owners |-> NoPause] /\ changed = FALSE
    /\ run = [r \in Records |-> "none"] /\ starter = [r \in Records |-> Nobody]
    /\ traced = [r \in Records |-> FALSE] /\ lastRun = None
    /\ owner = Nobody /\ at = "done" /\ cur = None

-----------------------------------------------------------------------------
(* A plan, and what is decided about it.                                   *)

Submittable == Idle /\ state \in {"idle"} \cup Ended

\* submit.
Submit(p) ==
    /\ Submittable
    /\ Register(p)
    /\ state' = "pending_plan" /\ plan' = p
    /\ Reset
    /\ UNCHANGED <<assisted, slot, changed, engine, handler>>

PlanningFails ==
    /\ Submittable
    /\ state' = "failed" /\ plan' = NoPlan
    /\ Reset
    /\ UNCHANGED <<review, assisted, slot, changed, engine, handler>>

Close ==
    /\ Submittable
    /\ state' = "idle" /\ plan' = NoPlan
    /\ Reset
    /\ UNCHANGED <<review, assisted, slot, changed, engine, handler>>

\* reject_plan and cancel_plan; if the plan no longer waits, the session goes on waiting.
DropPlan ==
    /\ Idle /\ state = "pending_plan" /\ Waits(plan)
    /\ \E verdict \in {"rejected", "cancelled"} : Decide(verdict) /\ state' = verdict
    /\ UNCHANGED <<assisted, plan, mine, bound, tried, invalid, rejected, asked,
                   slot, changed, engine, handler>>

\* approve_plan, up to the lock of the review controller.
ApprovePlan ==
    /\ Idle /\ state = "pending_plan"
    /\ state' = "running"
    /\ owner' = "session" /\ at' = "claim" /\ cur' = None
    /\ UNCHANGED <<review, assisted, plan, mine, bound, tried, invalid, rejected, asked,
                   slot, changed, engine>>

\* The other callers: plan_with_model, reject_model_plan and cancel_model_plan, on any thread,
PlanWithModel(p) ==
    /\ Register(p)
    /\ UNCHANGED <<assisted, session, slot, changed, engine, handler>>

DropModelPlan ==
    /\ pending # None
    /\ \E verdict \in {"rejected", "cancelled"} : Decide(verdict)
    /\ UNCHANGED <<assisted, session, slot, changed, engine, handler>>

\* and approve_model_plan, in answer to a message.
ApproveModelPlan ==
    /\ Idle /\ pending # None
    /\ Decide("executing")
    /\ owner' = "conversation" /\ at' = "start" /\ cur' = pending
    /\ UNCHANGED <<assisted, session, slot, changed, engine>>

\* approve: the session's plan still waits ...
Claim ==
    /\ at = "claim" /\ Waits(plan)
    /\ Decide("executing")
    /\ at' = "start" /\ cur' = pending
    /\ UNCHANGED <<assisted, session, slot, changed, engine, owner>>

\* ... or was replaced or decided on, or it is no longer the plan that was shown.
ClaimFails ==
    /\ at = "claim"
    /\ \/ ~Waits(plan) /\ UNCHANGED review
       \/ Waits(plan) /\ Decide("revalidation_failed")
    /\ Turns("failed") /\ bound' = bound
    /\ Done
    /\ UNCHANGED <<assisted, slot, changed, engine>>

RevalidationFails ==
    /\ Idle /\ pending # None
    /\ Decide("revalidation_failed")
    /\ UNCHANGED <<assisted, session, slot, changed, engine, handler>>

-----------------------------------------------------------------------------
(* The run of a plan.                                                      *)

\* bind_pending: the capability that approve_plan authorised is for its plan, before it has a
\* run, and is discarded with the handler.
Authorised(r) == Mine /\ state = "running" /\ records[r].plan = plan /\ mine = None

\* run_workflow makes its runtime the last one.
StartRun ==
    /\ at = "start"
    /\ run' = [run EXCEPT ![cur] = "running"] /\ lastRun' = cur
    /\ starter' = [starter EXCEPT ![cur] = owner]
    /\ traced' = [traced EXCEPT ![cur] = Authorised(cur)]
    /\ GoOn("run")
    /\ UNCHANGED <<review, assisted, session, slot, changed>>

\* The session takes the run that the engine started last (approve_plan).
TakesRun(r) == mine' = IF Mine THEN r ELSE mine

\* validate_plan refuses the plan: the last run is still the one before.
StartFails ==
    /\ at = "start"
    /\ Note(cur, lastRun, "failed")
    /\ TakesRun(lastRun) /\ state' = IF Mine THEN "failed" ELSE state
    /\ Done
    /\ UNCHANGED <<assisted, plan, bound, tried, invalid, rejected, asked,
                   slot, changed, engine>>

\* The run ends, or a tool raised and it is left as it is.
RunEnds(status) ==
    /\ at = "run"
    /\ status \in {"completed", "failed", "running"}
    /\ Ends(cur, status)
    /\ Note(cur, cur, Verdict(status))
    /\ TakesRun(cur) /\ state' = IF Mine THEN Verdict(status) ELSE state
    /\ Done
    /\ UNCHANGED <<assisted, plan, bound, tried, invalid, rejected, asked, slot, changed>>

\* The pause becomes an operation of the caller's slot, unless something else is there.
RunPauses ==
    /\ at = "run"
    /\ Ends(cur, "awaiting_approval")
    /\ Note(cur, cur, "awaiting_operation_approval")
    /\ IF slot[owner] = NoPause THEN Holds(owner, cur, "tool") ELSE UNCHANGED slot
    /\ TakesRun(cur) /\ state' = IF Mine THEN "awaiting_approval" ELSE state
    /\ Done
    /\ UNCHANGED <<assisted, plan, bound, tried, invalid, rejected, asked, changed>>

-----------------------------------------------------------------------------
(* Operations that wait for an approval.                                   *)

\* An operation can be decided on; of the session's, only while it says so.
Decidable(o) ==
    /\ Idle /\ slot[o] # NoPause
    /\ o = "session" => state = "awaiting_approval"

\* approve takes the gate of the pause and resumes the run.
Approve(o) ==
    /\ Decidable(o)
    /\ ~(o = "session" /\ bound /\ changed)
    /\ slot' = [slot EXCEPT ![o].claimed = TRUE]
    /\ Ends(slot[o].run, "running")
    /\ owner' = o /\ at' = slot[o].kind /\ cur' = slot[o].run
    /\ state' = IF o = "session" THEN "running" ELSE state
    /\ UNCHANGED <<review, assisted, plan, mine, bound, tried, invalid, rejected, asked,
                   changed>>

\* Mutation: the operation stays where it is.
InvalidateStaleKeepingIt ==
    /\ Decidable("session")
    /\ bound /\ changed
    /\ slot' = slot
    /\ Ends(mine, "cancelled")
    /\ state' = "cancelled" /\ bound' = FALSE
    /\ UNCHANGED <<review, assisted, plan, mine, tried, invalid, rejected, asked,
                   changed, handler>>

\* The files are no longer those of the proposal: the approval is void and so is the run
\* (_validate_pending_model_correction).
InvalidateStale ==
    /\ Decidable("session")
    /\ bound /\ changed
    /\ Frees("session")
    /\ Ends(mine, "cancelled")
    /\ state' = "cancelled" /\ bound' = FALSE
    /\ UNCHANGED <<review, assisted, plan, mine, tried, invalid, rejected, asked,
                   changed, handler>>

\* The observers of a resumed run note the run that is the engine's last.
Last(status) == IF lastRun = cur THEN status ELSE run[lastRun]

\* The approved tool ran, and the rest of the run, to the end ...
ToolReturns(status) ==
    /\ at = "tool"
    /\ status \in {"completed", "failed"}
    /\ Ends(cur, status)
    /\ Note(cur, lastRun, Verdict(Last(status)))
    /\ Frees(owner)
    /\ Turns(status) /\ bound' = IF Mine THEN FALSE ELSE bound
    /\ Done
    /\ UNCHANGED <<assisted, changed>>

\* ... or a tool raised, after which a run that was not finished stays as it is.
ToolRaises(status) ==
    /\ at = "tool"
    /\ status \in {"failed", "running"}
    /\ Ends(cur, status)
    /\ Note(cur, lastRun, "failed")
    /\ Frees(owner)
    /\ Turns("failed") /\ bound' = IF Mine THEN FALSE ELSE bound
    /\ Done
    /\ UNCHANGED <<assisted, changed>>

\* ... or another step asks.
ToolPauses ==
    /\ at = "tool"
    /\ Ends(cur, "awaiting_approval")
    /\ Note(cur, lastRun, "awaiting_operation_approval")
    /\ Holds(owner, cur, "tool")
    /\ Turns("awaiting_approval") /\ bound' = bound
    /\ Done
    /\ UNCHANGED <<assisted, changed>>

\* Mutation: a red test is enough.
TrustedForAll(r) == TRUE

\* issue_test_event and consume_red_test_event ask for the binding of the session's own run.
Trusted(r) == traced[r] /\ Mine /\ state = "running" /\ mine = r

\* Where the handler goes when the session comes to await a correction.
AwaitsCorrection == IF assisted THEN GoOn("generate") ELSE Done

\* ... or the red test of the session's run opens a correction.
ToolOpensCorrection ==
    /\ at = "tool"
    /\ Trusted(cur)
    /\ Ends(cur, "awaiting_correction")
    /\ Note(cur, lastRun, Verdict(Last("awaiting_correction")))
    /\ Frees(owner)
    /\ Turns("awaiting_correction") /\ bound' = FALSE
    /\ AwaitsCorrection
    /\ UNCHANGED <<assisted, changed>>

\* The approved correction was applied and tested.  Nothing of it is noted in the record.
CorrectionReturns(status) ==
    /\ at = "correction"
    /\ status \in {"completed", "failed"}
    /\ Ends(cur, status)
    /\ Frees("session")
    /\ Turns(status) /\ bound' = FALSE
    /\ Done
    /\ UNCHANGED <<review, assisted, changed>>

\* It raised, or a later step did, or a later step asks and the question is lost.
CorrectionRaises(status) ==
    /\ at = "correction"
    /\ status \in {"failed", "running", "awaiting_approval"}
    /\ Ends(cur, status)
    /\ Frees("session")
    /\ Turns("failed") /\ bound' = FALSE
    /\ Done
    /\ UNCHANGED <<review, assisted, changed>>

\* Mutation: a new round has a new budget.
CorrectionStaysRedAfresh ==
    /\ at = "correction"
    /\ Ends(cur, "awaiting_correction")
    /\ Frees("session")
    /\ state' = "awaiting_correction" /\ bound' = FALSE
    /\ tried' = 0 /\ invalid' = 0
    /\ AwaitsCorrection
    /\ UNCHANGED <<review, assisted, plan, mine, rejected, asked, changed>>

\* The tests are still red.
CorrectionStaysRed ==
    /\ at = "correction"
    /\ Ends(cur, "awaiting_correction")
    /\ Frees("session")
    /\ Turns("awaiting_correction") /\ bound' = FALSE
    /\ AwaitsCorrection
    /\ UNCHANGED <<review, assisted, changed>>

\* reject and cancel of a tool's operation.
DeclineTool(o) ==
    LET r == slot[o].run
        last == IF lastRun = r THEN "cancelled" ELSE run[lastRun]
    IN  /\ Decidable(o)
        /\ slot[o].kind = "tool"
        /\ Ends(r, "cancelled")
        /\ NoteDeclined(r, lastRun, last)
        /\ Frees(o)
        /\ state' = IF o = "session" THEN "cancelled" ELSE state
        /\ bound' = IF o = "session" THEN FALSE ELSE bound
        /\ UNCHANGED <<assisted, plan, mine, tried, invalid, rejected, asked,
                       changed, handler>>

\* Mutation: there is no gate.
DeclineLateAnyway ==
    LET r == slot["conversation"].run
    IN  /\ slot["conversation"].claimed
        /\ Frees("conversation")
        /\ Ends(r, "cancelled")
        /\ NoteDeclined(r, lastRun, IF lastRun = r THEN "cancelled" ELSE run[lastRun])
        /\ UNCHANGED <<assisted, session, changed, handler>>

\* From another thread, while the operation is executed: it leaves the slot, but the gate of
\* the pause is taken, and nothing is cancelled.
DeclineLate ==
    /\ slot["conversation"].claimed
    /\ Frees("conversation")
    /\ UNCHANGED <<review, assisted, session, changed, engine, handler>>

DecidesCorrection == Decidable("session") /\ slot["session"].kind = "correction"

\* cancel of a correction ends the run.
CancelCorrection ==
    /\ DecidesCorrection
    /\ Frees("session")
    /\ Ends(mine, "cancelled")
    /\ state' = "cancelled" /\ bound' = FALSE
    /\ UNCHANGED <<review, assisted, plan, mine, tried, invalid, rejected, asked,
                   changed, handler>>

\* reject returns to the correction, which is given up if the model proposed it.
RejectCorrection ==
    /\ DecidesCorrection
    /\ Frees("session")
    /\ Ends(mine, "awaiting_correction")
    /\ bound' = FALSE
    /\ IF bound
       THEN /\ rejected' = rejected + 1 /\ state' = state
            /\ owner' = "session" /\ at' = "abort" /\ cur' = mine
       ELSE rejected' = rejected /\ state' = "awaiting_correction" /\ UNCHANGED handler
    /\ UNCHANGED <<review, assisted, plan, mine, tried, invalid, asked, changed>>

\* Either revalidates first, and raises if the files changed: the operation is gone.
DeclineStale ==
    /\ DecidesCorrection /\ changed
    /\ Frees("session")
    /\ state' = "failed"
    /\ UNCHANGED <<review, assisted, plan, mine, bound, tried, invalid, rejected, asked,
                   changed, engine, handler>>

FilesChange ==
    /\ slot["session"].kind = "correction" /\ ~changed
    /\ changed' = TRUE
    /\ UNCHANGED <<review, assisted, session, slot, engine, handler>>

-----------------------------------------------------------------------------
(* Corrections.                                                            *)

\* submit_correction, by the user.
SubmitCorrection ==
    /\ Idle /\ state = "awaiting_correction"
    /\ state' = "running"
    /\ owner' = "session" /\ at' = "submit" /\ cur' = mine
    /\ UNCHANGED <<review, assisted, plan, mine, bound, tried, invalid, rejected, asked,
                   slot, changed, engine>>

\* _generate_model_correction goes round until the budget is spent ...
Exhausted ==
    tried >= MaxGenerations \/ invalid >= MaxInvalidDrafts \/ rejected >= MaxRejected

GiveUp ==
    /\ at = "generate" /\ Exhausted
    /\ GoOn("abort")
    /\ UNCHANGED <<review, assisted, session, slot, changed, engine>>

\* Mutation: an attempt is counted only when its draft is not valid.
AskModelUncounted ==
    /\ at = "generate" /\ ~Exhausted
    /\ tried' = tried /\ asked' = asked

AskModel ==
    /\ at = "generate" /\ ~Exhausted
    /\ tried' = tried + 1 /\ asked' = asked + 1

\* ... by drafts that are not valid,
DraftInvalid ==
    /\ AskModel
    /\ invalid' = invalid + 1
    /\ UNCHANGED <<review, assisted, state, plan, mine, bound, rejected, slot, changed,
                   engine, handler>>

\* ... until something breaks, of which the caller learns,
DraftBreaks ==
    /\ AskModel
    /\ state' = "failed"
    /\ Done
    /\ UNCHANGED <<review, assisted, plan, mine, bound, invalid, rejected, slot, changed,
                   engine>>

\* ... or a proposal can be submitted.
DraftAccepted ==
    /\ AskModel
    /\ bound' = TRUE
    /\ state' = "running"
    /\ GoOn("submit")
    /\ UNCHANGED <<review, assisted, plan, mine, invalid, rejected, slot, changed, engine>>

\* Mutation: the correction that was generated is forgotten once it was submitted.
SubmitPausesForgetting ==
    /\ at = "submit"
    /\ Ends(cur, "awaiting_approval")
    /\ Holds("session", cur, "correction")
    /\ changed' = FALSE
    /\ Turns("awaiting_approval") /\ bound' = FALSE
    /\ Done
    /\ UNCHANGED <<review, assisted>>

\* submit_workflow_correction asks for its approval,
SubmitPauses ==
    /\ at = "submit"
    /\ Ends(cur, "awaiting_approval")
    /\ Holds("session", cur, "correction")
    /\ changed' = FALSE
    /\ Turns("awaiting_approval") /\ bound' = bound
    /\ Done
    /\ UNCHANGED <<review, assisted>>

\* ... or refuses the proposal,
SubmitRefused ==
    /\ at = "submit"
    /\ Ends(cur, "awaiting_correction")
    /\ Turns("awaiting_correction") /\ bound' = bound
    /\ AwaitsCorrection
    /\ UNCHANGED <<review, assisted, slot, changed>>

\* ... or raises.
SubmitRaises ==
    /\ at = "submit"
    /\ Ends(cur, "failed")
    /\ Turns("failed") /\ bound' = bound
    /\ Done
    /\ UNCHANGED <<review, assisted, slot, changed>>

\* abort_workflow_correction fails the step and goes on with the rest of the run; if that asks
\* or raises, the session fails.
Abort(status) ==
    /\ at = "abort"
    /\ status \in {"completed", "failed", "running", "awaiting_approval"}
    /\ Ends(cur, status)
    /\ Turns(IF status = "completed" THEN "completed" ELSE "failed") /\ bound' = bound
    /\ Done
    /\ UNCHANGED <<review, assisted, slot, changed>>

-----------------------------------------------------------------------------
Work ==
    \/ Claim \/ ClaimFails \/ StartRun \/ StartFails \/ RunPauses
    \/ ToolPauses \/ ToolOpensCorrection \/ CorrectionStaysRed
    \/ GiveUp \/ DraftInvalid \/ DraftBreaks \/ DraftAccepted
    \/ SubmitPauses \/ SubmitRefused \/ SubmitRaises
    \/ \E status \in {"completed", "failed", "running", "awaiting_approval"} :
          \/ RunEnds(status) \/ ToolReturns(status) \/ ToolRaises(status)
          \/ CorrectionReturns(status) \/ CorrectionRaises(status) \/ Abort(status)

User ==
    \/ PlanningFails \/ Close \/ DropPlan \/ ApprovePlan
    \/ DropModelPlan \/ ApproveModelPlan \/ RevalidationFails
    \/ \E p \in Plans : Submit(p) \/ PlanWithModel(p)
    \/ \E o \in Owners : Approve(o) \/ DeclineTool(o)
    \/ InvalidateStale \/ DeclineLate \/ CancelCorrection \/ RejectCorrection \/ DeclineStale
    \/ SubmitCorrection \/ FilesChange

Next == Work \/ User

Spec == Init /\ [][Next]_vars

\* A handler, once started, is executed as long as it can go on.
FairSpec == Spec /\ WF_vars(Work)

-----------------------------------------------------------------------------
(* Properties.                                                             *)

SessionStates == {"idle", "pending_plan", "running", "awaiting_approval",
                  "awaiting_correction"} \cup Ended
RunStatuses == {"none", "running", "awaiting_approval", "awaiting_correction",
                "completed", "failed", "cancelled"}
Places == {"done", "claim", "start", "run", "tool", "correction", "generate", "submit",
           "abort"}

\* The variables have their types.
TypeOK ==
    /\ ReviewTypeOK
    /\ assisted \in BOOLEAN /\ bound \in BOOLEAN /\ changed \in BOOLEAN
    /\ state \in SessionStates /\ plan \in Plans \cup {NoPlan}
    /\ mine \in Records \cup {None} /\ lastRun \in Records \cup {None}
    /\ tried \in Nat /\ invalid \in Nat /\ rejected \in Nat /\ asked \in Nat
    /\ slot \in [Owners -> [run: Records \cup {None}, kind: {"none", "tool", "correction"},
                            claimed: BOOLEAN]]
    /\ run \in [Records -> RunStatuses] /\ starter \in [Records -> Owners \cup {Nobody}]
    /\ traced \in [Records -> BOOLEAN]
    /\ owner \in Owners \cup {Nobody} /\ at \in Places /\ cur \in Records \cup {None}

\* Between two messages the session says of its run what is true of it: what it asks the user
\* to approve is in its slot, what it waits to be corrected waits for a correction, it succeeded
\* only if its run did.  What is in a slot waits to be resumed, and is asked in one place; no
\* approval outlives the session (_synchronize_runtime, _accept_operational_pause, _fail).
SessionAgreesWithRun ==
    Idle =>
        /\ state # "running"
        /\ state = "awaiting_approval" => slot["session"].run = mine /\ mine # None
        /\ state = "awaiting_correction" =>
              mine # None /\ run[mine] = "awaiting_correction" /\ ~assisted
        /\ state = "completed" => mine # None /\ run[mine] = "completed"
        /\ state = "cancelled" /\ mine # None => run[mine] = "cancelled"
        /\ \A o \in Owners : slot[o] # NoPause => run[slot[o].run] = "awaiting_approval"
        /\ slot["session"] # NoPause =>
              state = "awaiting_approval" /\ slot["conversation"].run # mine

\* A correction that the model proposed and the user is asked about is bound, so that it is
\* revalidated before it is approved; and nothing else is (_accept_model_correction,
\* process_operational_command).
ProposalsAreBound ==
    Idle /\ state = "awaiting_approval" =>
        bound = (assisted /\ slot["session"].kind = "correction")

\* Only the run of the session, which can submit a correction, comes to wait for one
\* (authorize, bind_pending, consume_red_test_event).
CorrectionsBelongToTheSession ==
    \A r \in Records : run[r] = "awaiting_correction" => starter[r] = "session"

\* The model is asked a bounded number of times for a request, however many rounds its
\* corrections take (_generate_model_correction).
BudgetPerRequest == asked <= MaxGenerations

\* Every message is answered in the end, although a correction may lead to another one.
HandlersEnd == ~Idle ~> Idle

\* What the review controller says of a plan of the conversation whose run has ended is how
\* that ended.
RecordsFollowTheirRuns ==
    \A r \in Records :
        /\ starter[r] = "conversation" /\ records[r].finished
        /\ run[r] \in {"completed", "failed", "cancelled"}
        => records[r].status = run[r]
=============================================================================
