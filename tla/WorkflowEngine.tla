--------------------------- MODULE WorkflowEngine ---------------------------
(***************************************************************************)
(* The execution of one declarative plan: ExecutionEngine.run_workflow and *)
(* the loop, pauses and continuations behind it (brain/execution_engine),  *)
(* over a WorkflowRuntimeState (brain/workflow_runtime), with the one slot *)
(* of ApprovalController that holds the operation waiting for the user.    *)
(*                                                                         *)
(* Everything runs on one thread: a call (run_workflow, an approved        *)
(* continuation, an abort) visits the steps one by one until it returns or *)
(* raises, and the user acts only between calls.  `call` is the call on    *)
(* the stack; how it was entered decides what an exception does to it.     *)
(*                                                                         *)
(* Abstracted: arguments, result payloads and usage limits (a step's tool  *)
(* answers any status), the action log, which never raises, and the        *)
(* correction engine, of which only the status at the moment each of its   *)
(* methods returns or raises is kept.                                      *)
(*                                                                         *)
(* An operator whose comment begins with "Mutation:" is used by no action: *)
(* it is the definition after it with a bug the properties must notice.    *)
(***************************************************************************)
EXTENDS Naturals, FiniteSets

CONSTANTS
    N,              \* number of steps, numbered in execution order
    Kind,           \* Kind[s]: "tool", "test" (has a test_id) or "correction"
    Deps,           \* Deps[s]: depends_on and the sources of the bindings
    Bound,          \* the steps with bindings
    Gated,          \* the steps whose tool must be approved before it runs
    Required,       \* the steps with required = True
    Repeat,         \* the steps with repeat_completed = True
    OtherRequests   \* may the controller also hold a request of another command?

Steps == 1..N
None == 0

ASSUME PlanAssumption ==
    /\ N \in Nat
    /\ Kind \in [Steps -> {"tool", "test", "correction"}]
    /\ Deps \in [Steps -> SUBSET Steps]
    /\ \A s \in Steps : \A d \in Deps[s] : d < s
    /\ Bound \subseteq Steps /\ Gated \subseteq Steps
    /\ Required \subseteq Steps /\ Repeat \subseteq Steps
    /\ OtherRequests \in BOOLEAN

VARIABLES
    wf,        \* runtime.status
    st,        \* st[s]: status of the step
    appr,      \* appr[s]: approval_status of the step
    awaiting,  \* runtime.awaiting_step_id
    request,   \* the step whose request id runtime.approval_request_id holds
    ctl,       \* the steps that keep a correction_controller
    corr,      \* corr[s]: status of the step's correction_runtime
    op,        \* the PendingOperation of the ApprovalController
    call       \* the engine call being executed

vars == <<wf, st, appr, awaiting, request, ctl, corr, op, call>>

StepStatuses == {"pending", "running", "ok", "failed", "partial", "skipped",
                 "awaiting_approval", "awaiting_correction"}
WorkflowStatuses == {"running", "awaiting_approval", "awaiting_correction",
                     "completed", "failed", "cancelled"}
ApprovalStatuses == {"not_required", "pending", "approved", "denied", "cancelled"}
CorrectionStatuses == {"none", "awaiting_approval", "awaiting_correction",
                       "applying", "testing", "completed", "failed", "cancelled",
                       "rollback_failed", "correction_limit_reached",
                       "repeated_failure_limit_reached"}

Settled == {"ok", "failed", "partial", "skipped"}
Terminal == {"completed", "failed", "cancelled"}

(* A pending operation: the step it resumes, whether a rejection reopens   *)
(* the correction, and whether its executor carries provenance.            *)
Operations == [kind : {"none", "other", "tool", "correction"},
               step : Steps \cup {None}, reopens : BOOLEAN, traced : BOOLEAN]
NoOp == [kind |-> "none", step |-> None, reopens |-> FALSE, traced |-> FALSE]
OtherOp == [kind |-> "other", step |-> None, reopens |-> FALSE, traced |-> FALSE]
ToolOp(s, traced) ==
    [kind |-> "tool", step |-> s, reopens |-> FALSE, traced |-> traced]
CorrectionOp(s, reopens, traced) ==
    [kind |-> "correction", step |-> s, reopens |-> reopens, traced |-> traced]

(* A call on the stack: its entry point, whether it executes the approved  *)
(* effect of `step` or visits the steps from `pos` on, and its executor.   *)
Calls == [kind : {"none", "run", "tool", "correction", "abort"},
          at : {"loop", "effect"}, step : Steps \cup {None},
          pos : 1..(N + 1), traced : BOOLEAN]
Idle == [kind |-> "none", at |-> "loop", step |-> None, pos |-> 1, traced |-> FALSE]
LoopOf(kind, traced) ==
    [kind |-> kind, at |-> "loop", step |-> None, pos |-> 1, traced |-> traced]
EffectOf(o) ==
    [kind |-> o.kind, at |-> "effect", step |-> o.step, pos |-> 1, traced |-> o.traced]

-----------------------------------------------------------------------------
(* Helpers: what a call does to the runtime.                               *)

\* Mutation: a partial result counts as ok.
VerdictCountsPartial(status) ==
    IF \A s \in Required : status[s] \in {"ok", "partial"} THEN "completed" ELSE "failed"

\* runtime.finish: the verdict counts the required steps only.
Verdict(status) ==
    IF \A s \in Required : status[s] = "ok" THEN "completed" ELSE "failed"

Blocked(s) == \E d \in Deps[s] : st[d] # "ok"

Visiting(s) == call.kind # "none" /\ call.at = "loop" /\ call.pos = s

\* Mutation: the operation stays in the slot.
LeaveKeepsOperation == call' = Idle /\ UNCHANGED op

\* ApprovalController.approve pops the operation in its finally clause.
Leave ==
    /\ call' = Idle
    /\ op' = IF call.kind \in {"tool", "correction"} THEN NoOp ELSE op

\* Mutation: the loop looks at the same step again.
AdvanceStays == UNCHANGED <<call, op>>

\* The next iteration of the loop over the execution order.
Advance == call' = [call EXCEPT !.pos = @ + 1] /\ UNCHANGED op

\* WorkflowRuntimeState.record_result, inside the loop or after an effect.
Record(s, status) ==
    /\ st' = [st EXCEPT ![s] = status]
    /\ wf' = "running"
    /\ awaiting' = None
    /\ request' = None

\* Mutation: the controller survives the exception.
RecordExceptionKeepsController(s) ==
    LET after == [st EXCEPT ![s] = "failed"]
    IN  /\ st' = after
        /\ wf' = Verdict(after)
        /\ awaiting' = None
        /\ request' = None
        /\ UNCHANGED ctl

\* ExecutionEngine._record_correction_exception: the step fails, its controller
\* goes, and the workflow is finished.
RecordException(s) ==
    LET after == [st EXCEPT ![s] = "failed"]
    IN  /\ st' = after
        /\ wf' = Verdict(after)
        /\ awaiting' = None
        /\ request' = None
        /\ ctl' = ctl \ {s}

\* runtime.mark_awaiting_correction.
AwaitCorrection(s) ==
    /\ st' = [st EXCEPT ![s] = "awaiting_correction"]
    /\ wf' = "awaiting_correction"
    /\ awaiting' = s
    /\ request' = None

\* Mutation: a chained pause is not turned into an operation.
DeliverFirstOnly(s, newOp) ==
    IF call.kind = "run" /\ op = NoOp
    THEN op' = newOp /\ request' = s
    ELSE /\ op' = IF call.kind \in {"tool", "correction"} THEN NoOp ELSE op
         /\ UNCHANGED request

(* Who turns the ApprovalRequiredError of a pause into a pending operation:  *)
(* the caller of run_workflow, unless its slot is taken; approve itself for  *)
(* a chained pause.  The continuation of a correction catches the error (the *)
(* step it would fail is already recorded, so only the error is lost), and   *)
(* the callers of abort_workflow_correction do not expect one.               *)
Deliver(s, newOp) ==
    IF call.kind = "tool" \/ (call.kind = "run" /\ op = NoOp)
    THEN op' = newOp /\ request' = s
    ELSE /\ op' = IF call.kind = "correction" THEN NoOp ELSE op
         /\ UNCHANGED request

\* mark_awaiting_approval on the step and on the runtime.
Pause(s) ==
    /\ st' = [st EXCEPT ![s] = "awaiting_approval"]
    /\ appr' = [appr EXCEPT ![s] = "pending"]
    /\ wf' = "awaiting_approval"
    /\ awaiting' = s

-----------------------------------------------------------------------------
(* The loop of _continue_workflow, one action per way an iteration goes.   *)

Init ==
    /\ wf = "running"
    /\ st = [s \in Steps |-> "pending"]
    /\ appr = [s \in Steps |-> "not_required"]
    /\ awaiting = None
    /\ request = None
    /\ ctl = {}
    /\ corr = [s \in Steps |-> "none"]
    /\ op \in IF OtherRequests THEN {NoOp, OtherOp} ELSE {NoOp}
    /\ \E traced \in BOOLEAN : call = LoopOf("run", traced)

PassSettled(s) ==
    /\ Visiting(s) /\ st[s] \in Settled
    /\ Advance
    /\ UNCHANGED <<wf, st, appr, awaiting, request, ctl, corr>>

SkipBlocked(s) ==
    /\ Visiting(s) /\ st[s] = "pending" /\ Blocked(s)
    /\ st' = [st EXCEPT ![s] = "skipped"]
    /\ Advance
    /\ UNCHANGED <<wf, appr, awaiting, request, ctl, corr>>

\* A step left running by an earlier exception cannot be started again:
\* mark_running (or mark_skipped) raises.
RefuseUnfinished(s) ==
    /\ Visiting(s) /\ st[s] \notin Settled \cup {"pending"}
    /\ Leave
    /\ UNCHANGED <<wf, st, appr, awaiting, request, ctl, corr>>

Startable(s) == Visiting(s) /\ st[s] = "pending" /\ ~Blocked(s)

\* ResultResolutionError: a binding finds no value in its source's result.
ResolverFails(s) ==
    /\ Startable(s) /\ s \in Bound
    /\ Record(s, "failed")
    /\ Advance
    /\ UNCHANGED <<appr, ctl, corr>>

\* Mutation: the approval of an earlier start is taken for this one.
RunToolOnOldApproval(s) ==
    /\ Startable(s) /\ Kind[s] # "correction"
    /\ s \in Gated => appr[s] = "approved"
    /\ \E status \in {"ok", "failed", "partial"} : Record(s, status)
    /\ Advance
    /\ UNCHANGED <<appr, ctl, corr>>

\* An exceeded limit or an invalid ToolResult is recorded as "failed" too; the limits of a
\* gated step are validated before its approval is asked for.
RunTool(s) ==
    /\ Startable(s) /\ Kind[s] # "correction"
    /\ \E status \in {"ok", "failed", "partial"} :
          /\ s \in Gated => status = "failed"
          /\ Record(s, status)
    /\ Advance
    /\ UNCHANGED <<appr, ctl, corr>>

\* Any other exception, of a tool or while its payload is built and its limits are validated,
\* gated or not, leaves run_workflow with the step running.
ToolRaises(s) ==
    /\ Startable(s) /\ Kind[s] # "correction"
    /\ st' = [st EXCEPT ![s] = "running"]
    /\ Leave
    /\ UNCHANGED <<wf, appr, awaiting, request, ctl, corr>>

PauseTool(s) ==
    /\ Startable(s) /\ Kind[s] # "correction" /\ s \in Gated
    /\ Pause(s)
    /\ Deliver(s, ToolOp(s, call.traced))
    /\ call' = Idle
    /\ UNCHANGED <<ctl, corr>>

\* _start_correction_step with a proposal the validator accepts.
PauseCorrection(s) ==
    /\ Startable(s) /\ Kind[s] = "correction"
    /\ Pause(s)
    /\ Deliver(s, CorrectionOp(s, FALSE, call.traced))
    /\ call' = Idle
    /\ ctl' = ctl \cup {s}
    /\ corr' = [corr EXCEPT ![s] = "awaiting_approval"]

\* ... that the validator refuses: run_workflow returns and waits for another.
StartRefused(s) ==
    /\ Startable(s) /\ Kind[s] = "correction"
    /\ AwaitCorrection(s)
    /\ ctl' = ctl \cup {s}
    /\ corr' = [corr EXCEPT ![s] = "awaiting_correction"]
    /\ Leave
    /\ UNCHANGED appr

\* ... that the adapter cannot read: the step fails and the loop goes on.
StartUnadaptable(s) ==
    /\ Startable(s) /\ Kind[s] = "correction"
    /\ Record(s, "failed")
    /\ Advance
    /\ UNCHANGED <<appr, ctl, corr>>

\* ... or an unexpected exception of the controller.
StartRaises(s) ==
    /\ Startable(s) /\ Kind[s] = "correction"
    /\ RecordException(s)
    /\ Leave
    /\ UNCHANGED <<appr, corr>>

Finish ==
    /\ Visiting(N + 1)
    /\ wf' = Verdict(st)
    /\ Leave
    /\ UNCHANGED <<st, appr, awaiting, request, ctl, corr>>

-----------------------------------------------------------------------------
(* The user's decisions about the pending operation.                       *)

\* approve: the continuation starts with begin_approved_step.
Approve ==
    /\ call = Idle /\ op.kind \in {"tool", "correction"}
    /\ wf = "awaiting_approval" /\ awaiting = op.step
    /\ st' = [st EXCEPT ![op.step] = "running"]
    /\ appr' = [appr EXCEPT ![op.step] = "approved"]
    /\ wf' = "running"
    /\ awaiting' = None
    /\ request' = None
    /\ call' = EffectOf(op)
    /\ UNCHANGED <<ctl, corr, op>>

InEffect(kind) == call.kind = kind /\ call.at = "effect"
LoopAfterEffect == call' = LoopOf(call.kind, call.traced) /\ UNCHANGED op

\* complete_approved: the tool ran; its result is recorded and the loop goes on.
ToolCompletes ==
    /\ InEffect("tool")
    /\ \E status \in {"ok", "failed", "partial"} : Record(call.step, status)
    /\ LoopAfterEffect
    /\ UNCHANGED <<appr, ctl, corr>>

\* The approved tool raised: the result is recorded and the workflow finished.
ApprovedToolRaises ==
    /\ InEffect("tool")
    /\ LET after == [st EXCEPT ![call.step] = "failed"]
       IN  st' = after /\ wf' = Verdict(after)
    /\ awaiting' = None
    /\ request' = None
    /\ Leave
    /\ UNCHANGED <<appr, ctl, corr>>

\* A red test of a traced execution opens a correction on its own step.
RedTestOpensCorrection ==
    /\ InEffect("tool") /\ Kind[call.step] = "test" /\ call.traced
    /\ AwaitCorrection(call.step)
    /\ ctl' = ctl \cup {call.step}
    /\ corr' = [corr EXCEPT ![call.step] = "awaiting_correction"]
    /\ Leave
    /\ UNCHANGED appr

\* ... unless the provenance registry refuses the event (budget exhausted).
RedTestRefused ==
    /\ InEffect("tool") /\ Kind[call.step] = "test" /\ call.traced
    /\ Leave
    /\ UNCHANGED <<wf, st, appr, awaiting, request, ctl, corr>>

\* Mutation: the step takes over the status of the correction.
CorrectionOutcomeRaw(status) == IF status = "completed" THEN "ok" ELSE status

\* Mutation: a correction that ran out of attempts is taken for a success.
CorrectionOutcomeLenient(status) == IF status = "failed" THEN "failed" ELSE "ok"

CorrectionOutcome(status) == IF status = "completed" THEN "ok" ELSE "failed"

\* _complete_correction_state after the transaction and the declared tests.
CorrectionEnds ==
    /\ InEffect("correction")
    /\ \E status \in {"completed", "failed", "rollback_failed",
                      "repeated_failure_limit_reached"} :
          /\ corr' = [corr EXCEPT ![call.step] = status]
          /\ Record(call.step, CorrectionOutcome(status))
    /\ ctl' = ctl \ {call.step}
    /\ LoopAfterEffect
    /\ UNCHANGED appr

\* The declared tests failed and another proposal may be submitted.
CorrectionStaysRed ==
    /\ InEffect("correction")
    /\ AwaitCorrection(call.step)
    /\ corr' = [corr EXCEPT ![call.step] = "awaiting_correction"]
    /\ Leave
    /\ UNCHANGED <<appr, ctl>>

\* The resumed engine raised: before applying (the proposal is stale), while
\* applying, or while testing.
CorrectionRaises ==
    /\ InEffect("correction")
    /\ RecordException(call.step)
    /\ \E status \in {"cancelled", "applying", "testing"} :
          corr' = [corr EXCEPT ![call.step] = status]
    /\ Leave
    /\ UNCHANGED appr

\* runtime.mark_cancelled.
MarkCancelled(s, verdict) ==
    /\ st' = [st EXCEPT ![s] = "skipped"]
    /\ appr' = [appr EXCEPT ![s] = verdict]
    /\ ctl' = ctl \ {s}
    /\ wf' = "cancelled"
    /\ awaiting' = None
    /\ request' = None

\* reject and cancel of a tool's operation.
DeclineTool ==
    /\ call = Idle /\ op.kind = "tool"
    /\ \E verdict \in {"denied", "cancelled"} : MarkCancelled(op.step, verdict)
    /\ op' = NoOp
    /\ UNCHANGED <<corr, call>>

\* reject and cancel of a correction that is not to be corrected again.
DeclineCorrection ==
    /\ call = Idle /\ op.kind = "correction"
    /\ \E verdict \in {"denied", "cancelled"} :
          /\ op.reopens => verdict = "cancelled"
          /\ MarkCancelled(op.step, verdict)
    /\ corr' = [corr EXCEPT ![op.step] = "cancelled"]
    /\ op' = NoOp
    /\ UNCHANGED call

\* A rejected submission returns to the correction it answered.
RejectReopens ==
    /\ call = Idle /\ op.kind = "correction" /\ op.reopens
    /\ AwaitCorrection(op.step)
    /\ corr' = [corr EXCEPT ![op.step] = "awaiting_correction"]
    /\ op' = NoOp
    /\ UNCHANGED <<appr, ctl, call>>

\* deny revalidates first: a proposal gone stale raises out of on_cancel, and
\* the operation is already popped.
DeclineStale ==
    /\ call = Idle /\ op.kind = "correction"
    /\ corr' = [corr EXCEPT ![op.step] = "cancelled"]
    /\ op' = NoOp
    /\ UNCHANGED <<wf, st, appr, awaiting, request, ctl, call>>

\* The session found the approval stale: the operation is dropped without its
\* callback and the correction is closed (invalidate_workflow_correction_approval).
Invalidate ==
    /\ call = Idle /\ op.kind = "correction" /\ op.reopens
    /\ wf = "awaiting_approval" /\ corr[op.step] = "awaiting_approval"
    /\ MarkCancelled(op.step, "cancelled")
    /\ corr' = [corr EXCEPT ![op.step] = "cancelled"]
    /\ op' = NoOp
    /\ UNCHANGED call

-----------------------------------------------------------------------------
(* A correction the workflow waits for.                                    *)

AwaitsProposal ==
    /\ call = Idle /\ wf = "awaiting_correction" /\ awaiting # None
    /\ awaiting \in ctl

\* submit_workflow_correction: validated, it pauses for its own approval.  The
\* continuation gets an executor without provenance.
SubmitPauses ==
    /\ AwaitsProposal
    /\ Pause(awaiting)
    /\ corr' = [corr EXCEPT ![awaiting] = "awaiting_approval"]
    /\ IF op = NoOp
       THEN op' = CorrectionOp(awaiting, TRUE, FALSE) /\ request' = awaiting
       ELSE UNCHANGED <<op, request>>
    /\ UNCHANGED <<ctl, call>>

\* Not an action of its own when refused: begin_correction_submission and
\* mark_awaiting_correction cancel out.  It raises when the proposal was applied
\* before or the iterations are exhausted.
SubmitRaises ==
    /\ AwaitsProposal
    /\ RecordException(awaiting)
    /\ \E status \in {"awaiting_correction", "correction_limit_reached"} :
          corr' = [corr EXCEPT ![awaiting] = status]
    /\ UNCHANGED <<appr, op, call>>

\* abort_workflow_correction: the step fails and the loop goes on.
Abort ==
    /\ AwaitsProposal /\ corr[awaiting] = "awaiting_correction"
    /\ corr' = [corr EXCEPT ![awaiting] = "failed"]
    /\ Record(awaiting, "failed")
    /\ ctl' = ctl \ {awaiting}
    /\ call' = LoopOf("abort", FALSE)
    /\ UNCHANGED <<appr, op>>

-----------------------------------------------------------------------------
\* Mutation: a workflow that waits may be run again.
RerunWhileWaiting ==
    /\ call = Idle /\ wf # "cancelled"
    /\ wf' = "running"
    /\ st' = [s \in Steps |-> IF st[s] = "ok" /\ s \in Repeat THEN "pending" ELSE st[s]]
    /\ awaiting' = None
    /\ request' = None
    /\ call' = LoopOf("run", FALSE)
    /\ UNCHANGED <<appr, ctl, corr, op>>

\* run_workflow with a runtime: prepare_resume opens the completed steps that
\* are to be repeated.  A runtime that waits or was cancelled is refused.
Rerun ==
    /\ call = Idle /\ wf \in {"running", "completed", "failed"}
    /\ wf' = "running"
    /\ st' = [s \in Steps |-> IF st[s] = "ok" /\ s \in Repeat THEN "pending" ELSE st[s]]
    /\ awaiting' = None
    /\ request' = None
    /\ call' = LoopOf("run", FALSE)
    /\ UNCHANGED <<appr, ctl, corr, op>>

\* Another conversational command takes or frees the controller's slot.
OtherRequest ==
    /\ OtherRequests /\ call = Idle /\ op.kind \in {"none", "other"}
    /\ op' = IF op = NoOp THEN OtherOp ELSE NoOp
    /\ UNCHANGED <<wf, st, appr, awaiting, request, ctl, corr, call>>

Visit(s) ==
    \/ PassSettled(s) \/ SkipBlocked(s) \/ RefuseUnfinished(s)
    \/ ResolverFails(s) \/ RunTool(s) \/ ToolRaises(s) \/ PauseTool(s)
    \/ PauseCorrection(s) \/ StartRefused(s) \/ StartUnadaptable(s) \/ StartRaises(s)

Effect ==
    \/ ToolCompletes \/ ApprovedToolRaises \/ RedTestOpensCorrection \/ RedTestRefused
    \/ CorrectionEnds \/ CorrectionStaysRed \/ CorrectionRaises

\* The engine's own steps: what runs once a call has been made.
Machine == (\E s \in Steps : Visit(s)) \/ Effect \/ Finish

User ==
    \/ Approve \/ DeclineTool \/ DeclineCorrection \/ RejectReopens \/ DeclineStale
    \/ Invalidate \/ SubmitPauses \/ SubmitRaises \/ Abort \/ Rerun \/ OtherRequest

Next == Machine \/ User

Spec == Init /\ [][Next]_vars

\* A call runs on its thread until it returns; the user may never come back.
FairSpec == Spec /\ WF_vars(Machine)

-----------------------------------------------------------------------------
(* Properties.                                                             *)

\* Type of the state: statuses are the literals of the code's frozensets.
TypeOK ==
    /\ wf \in WorkflowStatuses
    /\ st \in [Steps -> StepStatuses]
    /\ appr \in [Steps -> ApprovalStatuses]
    /\ awaiting \in Steps \cup {None}
    /\ request \in Steps \cup {None}
    /\ ctl \in SUBSET Steps
    /\ corr \in [Steps -> CorrectionStatuses]
    /\ op \in Operations
    /\ call \in Calls

WaitsFor(s) ==
    \/ wf = "awaiting_approval" /\ st[s] = "awaiting_approval" /\ appr[s] = "pending"
    \/ /\ wf = "awaiting_correction" /\ st[s] = "awaiting_correction"
       /\ s \in ctl /\ corr[s] = "awaiting_correction"

\* The runtime and its steps agree on what is awaited: a waiting workflow names
\* the one step that waits, a correction that is awaited still has its controller
\* and its suspended correction_runtime, and nothing waits in any other status.
PauseAgreement ==
    /\ wf \in {"awaiting_approval", "awaiting_correction"} =>
          /\ call = Idle /\ awaiting \in Steps /\ WaitsFor(awaiting)
    /\ \A s \in Steps : st[s] \in {"awaiting_approval", "awaiting_correction"} =>
          awaiting = s /\ wf = st[s]

\* An operation in the approval slot can still be carried out: the workflow waits
\* for exactly its step, under its request id, and a correction's controller is
\* there to be resumed.  No decision of the user ever meets a dangling operation.
OperationIsResumable ==
    op.kind \in {"tool", "correction"} /\ call = Idle =>
        /\ wf = "awaiting_approval" /\ awaiting = op.step /\ request = op.step
        /\ (op.step \in ctl) = (op.kind = "correction")
        /\ op.kind = "correction" => corr[op.step] = "awaiting_approval"
        /\ op.kind = "tool" => Kind[op.step] # "correction"

\* While a call runs, the workflow is running and waits for nobody, and the slot is
\* its own: the operation a call executes stays in it, other calls start with it
\* free.  The effect of an operation is executed for its very step, whose approval
\* was granted, whose dependencies are ok, and whose controller, if it corrects,
\* is still there.
CallDiscipline ==
    /\ call.kind = "none" => call = Idle
    /\ call.kind # "none" => wf = "running" /\ awaiting = None
    /\ call.kind \in {"tool", "correction"} => op.kind = call.kind
    /\ call.kind \in {"run", "abort"} => op.kind \in {"none", "other"}
    /\ call.at = "effect" =>
          /\ call.kind \in {"tool", "correction"} /\ call.step = op.step
          /\ call.step \in Steps /\ st[call.step] = "running"
          /\ appr[call.step] = "approved" /\ ~Blocked(call.step)
          /\ (call.step \in ctl) = (call.kind = "correction")
          /\ call.kind = "tool" => Kind[call.step] # "correction"

\* A correction controller is kept only for a step that can still use it: one that
\* waits, or one whose approved correction is being executed.
ControllersAreInUse ==
    \A s \in ctl :
        \/ st[s] \in {"awaiting_approval", "awaiting_correction"}
        \/ call.at = "effect" /\ call.step = s

\* A workflow that ended leaves nothing that could act on it later: no operation
\* to approve, no correction controller to submit to.
NothingOutlivesTheWorkflow ==
    wf \in Terminal => op.kind \notin {"tool", "correction"} /\ ctl = {}

\* A step that waits for the user waits with all its dependencies ok: no later
\* run reopens one of them behind the operation that is to be approved.
PausedDependenciesOk ==
    \A s \in Steps : st[s] \in {"awaiting_approval", "awaiting_correction"} => ~Blocked(s)

NeedsApproval(s) == s \in Gated \/ Kind[s] = "correction"

\* Effects need consent: a gated tool has a result of its own, and a correction
\* is ok, only while the step's approval_status says that it was approved; a
\* correction is ok only when its engine completed.
EffectsWereApproved ==
    \A s \in Steps : st[s] \in {"ok", "partial"} =>
        /\ NeedsApproval(s) => appr[s] = "approved"
        /\ Kind[s] = "correction" => corr[s] = "completed"

\* One approval, one effect: such a step only gets its result from the approved
\* effect of its own operation.  approval_status is never reset, so a repeated
\* step starts again with the "approved" of its earlier start.
EveryStartIsApproved ==
    [][ \A s \in Steps :
          NeedsApproval(s) /\ st[s] \notin {"ok", "partial"} /\ st'[s] \in {"ok", "partial"}
            => call.at = "effect" /\ call.step = s /\ op.step = s /\ st[s] = "running" ]_vars

\* Every workflow that waits for an approval can be answered: run_workflow says
\* that a pending workflow is resumed through its approval.  Holds of plans
\* without corrections when no other command uses the approval slot.
PauseIsAnswerable ==
    wf = "awaiting_approval" => op.kind \in {"tool", "correction"} /\ op.step = awaiting

\* The same of the calls that an approval started: when they leave the workflow
\* waiting for an approval, there is an operation to approve.
ApprovalLeavesAnswerablePause ==
    [][call.kind \in {"tool", "correction"} /\ call' = Idle => PauseIsAnswerable']_vars

\* Declining the approval of a plan's own correction cancels the workflow and
\* releases the controller.
DecliningClosesTheWorkflow ==
    [][ op.kind = "correction" /\ ~op.reopens /\ call = Idle /\ op' = NoOp
          => wf' = "cancelled" /\ op.step \notin ctl' ]_vars

\* Every call comes to an end, however many steps it settles, skips or starts.
CallsReturn == call # Idle ~> call = Idle

Outcome == [s \in Steps |-> IF st[s] \in Settled THEN st[s] ELSE "open"]

Lifecycle == INSTANCE WorkflowLifecycle WITH
    phase <- wf, outcome <- Outcome, waiting <- awaiting

\* The engine implements the lifecycle a plan's author relies on: whatever pauses,
\* fails, is declined or is run again, steps settle once, after what they depend
\* on, one is awaited at a time, and the verdict is about the required steps.
LifecycleSpec == Lifecycle!Spec
=============================================================================
