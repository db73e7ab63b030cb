---------------------------- MODULE ToolApproval ----------------------------
(***************************************************************************)
(* What stands between a call of a tool and its effect: the permission     *)
(* manager (requests, tokens), the slot of an ApprovalController, and, for *)
(* a step of a workflow, the limits of WorkflowToolExecutor.               *)
(*                                                                         *)
(* There is one permission manager and a slot for each owner: the          *)
(* programming session and the conversation.  A message calls a tool, or   *)
(* runs a workflow whose steps call tools.  A call that needs consent and  *)
(* has none puts itself in a slot.  What runs, runs on one thread, but an  *)
(* approval is a long call: it performs the operation, the rest of the     *)
(* workflow after it, and may put the next request in the slot.            *)
(*                                                                         *)
(* Abstracted: which step comes next and what becomes of its result        *)
(* (WorkflowEngine); changed lines, which are counted as bytes are; tokens *)
(* and requests are numbers, never used twice, as the uuids of the code.   *)
(* What a tool did before it raised counts as if it had been done in full. *)
(*                                                                         *)
(* Definitions whose comment starts with "Mutation" are not part of the    *)
(* model: each is the definition after it with a mistake, and some         *)
(* property must notice it.                                                *)
(***************************************************************************)
EXTENDS Naturals, FiniteSets

CONSTANTS
    Owners,        \* who has a slot
    Exclusive,     \* the owners that have one workflow at a time
    Flows,         \* the workflows
    Files,
    Operations,    \* the calls of tools: tool, file, bytes
    AsksMedium,    \* medium_risk_requires_confirmation
    MaxRequests,   \* bound on the requests created
    MaxMissed,     \* bound on the calls of a workflow that go unrecorded
    MaxInspected, MaxModified, MaxBytes, MaxNewFile   \* WorkflowLimits

\* The tools, by their risk; "status" is git_tools.status, whose risk is set by the action.
Low == {"code_reader", "code_analyzer", "status"}
Medium == {"patch_generator", "test_runner"}
High == {"patch_applier", "file_creator", "checkpoint"}
Tools == Low \cup Medium \cup High \cup {"unregistered"}

ASSUME OperationAssumption == Operations \subseteq [tool: Tools, file: Files, bytes: Nat]
ASSUME ApprovalBounds ==
    /\ MaxRequests \in Nat /\ MaxMissed \in Nat
    /\ MaxInspected \in Nat /\ MaxModified \in Nat /\ MaxBytes \in Nat /\ MaxNewFile \in Nat
    /\ AsksMedium \in BOOLEAN

Nobody == "nobody"
NoFlow == "no flow"

ASSUME NameAssumption == Nobody \notin Owners /\ NoFlow \notin Flows

VARIABLES
    requests,   \* PermissionManager._pending_requests: number and operation
    tokens,     \* _granted_tokens: number of the request and operation
    made,       \* number of requests created
    slot,       \* slot[o]: the pending operation of the ApprovalController of o
    deciding,   \* whose ApprovalController is in the middle of approve
    flow,       \* flow[f]: status of workflow f
    home,       \* home[f]: where workflow f asks
    usage,      \* usage[f]: what its runtime has recorded
    use,        \* use[f], history: what it really did
    missed,     \* missed[f], history: how many of its calls were not recorded
    consents,   \* consents[c], history: how often the user approved call c
    effects     \* effects[c], history: how often call c took effect

manager == <<requests, tokens, made>>
runtime == <<flow, home, usage, use, missed>>
vars == <<manager, slot, deciding, runtime, consents, effects>>

\* A call: the operation and whether the step that makes it insists on approval.
Calls == [op: Operations, forced: BOOLEAN]
NoUsage == [inspected |-> {}, modified |-> {}, bytes |-> 0]
NoPending == [id |-> 0]
Pending(id, call, by) == [id |-> id, call |-> call, by |-> by]
Grant(id, call) == [id |-> id, op |-> call.op]
Risky(call) ==
    \/ call.op.tool \in High \cup {"patch_generator"}
    \/ call.op.tool \in Medium /\ AsksMedium

\* Mutation: a step cannot insist.
RequiresByRisk(call) == Risky(call)

\* _requires_confirmation.
Requires(call) == call.forced \/ Risky(call)

Registered(call) == call.op.tool # "unregistered"

\* create_approval_request makes no request for what needs none, or does not exist.
Requestable(call) == Registered(call) /\ Requires(call)

\* can_execute without a token.
AllowedFreely(call) == Registered(call) /\ ~Requires(call)

\* What the runtime would have recorded after the operation (_validate_limits) ...
After(record, op) ==
    [inspected |-> IF op.tool \in {"code_reader", "code_analyzer"}
                   THEN record.inspected \cup {op.file} ELSE record.inspected,
     modified |-> IF op.tool \in {"patch_applier", "file_creator"}
                  THEN record.modified \cup {op.file} ELSE record.modified,
     bytes |-> IF op.tool \in {"patch_applier", "file_creator"}
               THEN record.bytes + op.bytes ELSE record.bytes]

Fits(record) ==
    /\ Cardinality(record.inspected) <= MaxInspected
    /\ Cardinality(record.modified) <= MaxModified
    /\ record.bytes <= MaxBytes

\* ... and whether it may.
WithinLimits(f, op) ==
    /\ Fits(After(usage[f], op))
    /\ op.tool = "file_creator" => op.bytes <= MaxNewFile

Init ==
    /\ requests = {} /\ tokens = {} /\ made = 0
    /\ slot = [o \in Owners |-> NoPending] /\ deciding = Nobody
    /\ flow = [f \in Flows |-> "new"] /\ home = [f \in Flows |-> Nobody]
    /\ usage = [f \in Flows |-> NoUsage] /\ use = [f \in Flows |-> NoUsage]
    /\ missed = [f \in Flows |-> 0]
    /\ consents = [call \in Calls |-> 0] /\ effects = [call \in Calls |-> 0]

-----------------------------------------------------------------------------
(* Requests and effects.                                                   *)

\* Mutation: the last request wins.
RequestAnyway(o, call, by) ==
    /\ Requestable(call) /\ made < MaxRequests
    /\ made' = made + 1
    /\ requests' = requests \cup {Grant(made + 1, call)}
    /\ slot' = [slot EXCEPT ![o] = Pending(made + 1, call, by)]
    /\ tokens' = tokens

\* request_operation: there is one request at a time, unless the one in the slot is being
\* approved: approve takes it out first.
Request(o, call, by) ==
    /\ slot[o] = NoPending \/ deciding = o
    /\ Requestable(call) /\ made < MaxRequests
    /\ made' = made + 1
    /\ requests' = requests \cup {Grant(made + 1, call)}
    /\ slot' = [slot EXCEPT ![o] = Pending(made + 1, call, by)]
    /\ tokens' = tokens

\* A call takes effect; only those that need consent are counted.
Takes(call) ==
    effects' = IF call.forced \/ Risky(call) THEN [effects EXCEPT ![call] = @ + 1] ELSE effects

\* Between two messages.
Idle == deciding = Nobody /\ \A f \in Flows : flow[f] # "running"

\* A message of the conversation calls a tool that is free ...
Converse(call) ==
    /\ Idle
    /\ ~call.forced /\ AllowedFreely(call)
    /\ Takes(call)
    /\ UNCHANGED <<manager, slot, deciding, runtime, consents>>

\* ... or asks; it is refused if something else is asked.
ConverseAsks(o, call) ==
    /\ Idle
    /\ o \notin Exclusive
    /\ ~call.forced /\ Request(o, call, NoFlow)
    /\ UNCHANGED <<deciding, runtime, consents, effects>>

-----------------------------------------------------------------------------
(* Workflows.                                                              *)

\* A plan that is approved runs with a runtime of its own; an exclusive owner waits until
\* the plan before is settled.
StartFlow(f, o) ==
    /\ Idle
    /\ flow[f] = "new"
    /\ o \in Exclusive => \A g \in Flows : home[g] = o => flow[g] \in {"ended", "cancelled"}
    /\ flow' = [flow EXCEPT ![f] = "running"]
    /\ home' = [home EXCEPT ![f] = o]
    /\ UNCHANGED <<manager, slot, deciding, usage, use, missed, consents, effects>>

\* Mutation: the runtime starts again from nothing.
RerunAfresh(f, o) ==
    /\ Idle
    /\ flow[f] = "ended"
    /\ o \notin Exclusive
    /\ flow' = [flow EXCEPT ![f] = "running"]
    /\ home' = [home EXCEPT ![f] = o]
    /\ usage' = [usage EXCEPT ![f] = NoUsage]
    /\ UNCHANGED <<manager, slot, deciding, use, missed, consents, effects>>

\* run_workflow with a runtime that ended, was finished or was left by an exception
\* (prepare_resume): it keeps what it has recorded.  The session runs no plan again.
Rerun(f, o) ==
    /\ Idle
    /\ flow[f] = "ended"
    /\ o \notin Exclusive
    /\ flow' = [flow EXCEPT ![f] = "running"]
    /\ home' = [home EXCEPT ![f] = o]
    /\ UNCHANGED <<manager, slot, deciding, usage, use, missed, consents, effects>>

\* A step may call what validate_plan lets into a plan; beyond the limits it fails at once.
Steps(f, call) ==
    /\ flow[f] = "running"
    /\ call.op.tool \notin {"unregistered", "checkpoint"}
    /\ WithinLimits(f, call.op)

\* The effect of a step is recorded when its result is there (_record_usage) ...
StepDone(f, call) ==
    /\ Takes(call)
    /\ use' = [use EXCEPT ![f] = After(@, call.op)]
    /\ usage' = [usage EXCEPT ![f] = After(@, call.op)]
    /\ flow' = [flow EXCEPT ![f] = "running"]
    /\ missed' = missed

\* ... and not without one.
Unrecorded(f, call) ==
    /\ missed[f] < MaxMissed
    /\ Takes(call)
    /\ use' = [use EXCEPT ![f] = After(@, call.op)]
    /\ usage' = usage
    /\ missed' = [missed EXCEPT ![f] = @ + 1]

\* What the tool returned is no result of this tool (_validate_result): the step fails, and
\* the workflow goes on.
StepRefused(f, call) == Unrecorded(f, call) /\ flow' = [flow EXCEPT ![f] = "running"]

\* The tool raised: the exception leaves the call that runs the workflow.
StepRaises(f, call) == Unrecorded(f, call) /\ flow' = [flow EXCEPT ![f] = "ended"]

Effect(f, call) == StepDone(f, call) \/ StepRefused(f, call) \/ StepRaises(f, call)

\* execute: a step whose tool is free.
Execute(f, call) ==
    /\ Steps(f, call)
    /\ AllowedFreely(call)
    /\ Effect(f, call)
    /\ UNCHANGED <<manager, slot, deciding, home, consents>>

\* execute: a step that needs consent waits, with a request ...
ExecuteAsks(f, call) ==
    /\ Steps(f, call)
    /\ Request(home[f], call, f)
    /\ flow' = [flow EXCEPT ![f] = "waiting"]
    /\ deciding' = Nobody
    /\ UNCHANGED <<home, usage, use, missed, consents, effects>>

\* ... or, when something else is asked there, without one.
ExecuteUnheard(f, call) ==
    /\ Steps(f, call)
    /\ Requestable(call) /\ deciding = Nobody /\ slot[home[f]] # NoPending
    /\ flow' = [flow EXCEPT ![f] = "waiting"]
    /\ UNCHANGED <<manager, slot, deciding, home, usage, use, missed, consents, effects>>

EndFlow(f) ==
    /\ flow[f] = "running"
    /\ flow' = [flow EXCEPT ![f] = "ended"]
    /\ UNCHANGED <<manager, slot, deciding, home, usage, use, missed, consents, effects>>

-----------------------------------------------------------------------------
(* Decisions.                                                              *)

\* approve: the request of the slot becomes a token ...
Approve(o) ==
    /\ Idle
    /\ slot[o] # NoPending
    /\ \E request \in requests :
          /\ request.id = slot[o].id
          /\ requests' = requests \ {request} /\ tokens' = tokens \cup {request}
    /\ made' = made
    /\ deciding' = o
    /\ consents' = [consents EXCEPT ![slot[o].call] = @ + 1]
    /\ UNCHANGED <<slot, runtime, effects>>

\* ... with which can_execute admits that operation, once.
Redeems(o, token) ==
    /\ token.op = slot[o].call.op
    /\ tokens' = tokens \ {token}
    /\ UNCHANGED <<requests, made>>

\* The operation of a message.
Perform(o) ==
    /\ deciding = o /\ slot[o].by = NoFlow
    /\ \E token \in tokens : Redeems(o, token)
    /\ Takes(slot[o].call)
    /\ UNCHANGED <<slot, deciding, runtime, consents>>

\* The step of a workflow.  complete_approved checks the limits again, which still hold:
\* nothing is recorded while a step waits.
PerformStep(o) ==
    LET f == slot[o].by
    IN  /\ deciding = o /\ f # NoFlow
        /\ \E token \in tokens : Redeems(o, token)
        /\ WithinLimits(f, slot[o].call.op)
        /\ Effect(f, slot[o].call)
        /\ UNCHANGED <<slot, deciding, home, consents>>

\* The call of approve returns when nothing is left to do, and the slot is free.
Return(o) ==
    /\ deciding = o /\ tokens = {}
    /\ \A f \in Flows : flow[f] # "running"
    /\ slot' = [slot EXCEPT ![o] = NoPending] /\ deciding' = Nobody
    /\ UNCHANGED <<manager, runtime, consents, effects>>

\* reject and cancel: the callback cancels the workflow.
Decline(o) ==
    /\ Idle
    /\ slot[o] # NoPending
    /\ requests' = {request \in requests : request.id # slot[o].id}
    /\ slot' = [slot EXCEPT ![o] = NoPending]
    /\ flow' = IF slot[o].by = NoFlow THEN flow ELSE [flow EXCEPT ![slot[o].by] = "cancelled"]
    /\ UNCHANGED <<tokens, made, deciding, home, usage, use, missed, consents, effects>>

Next ==
    \/ \E call \in Calls :
          \/ Converse(call)
          \/ \E o \in Owners : ConverseAsks(o, call)
          \/ \E f \in Flows : Execute(f, call) \/ ExecuteAsks(f, call)
                                \/ ExecuteUnheard(f, call)
    \/ \E f \in Flows : EndFlow(f) \/ \E o \in Owners : StartFlow(f, o) \/ Rerun(f, o)
    \/ \E o \in Owners :
          \/ Approve(o) \/ Perform(o) \/ PerformStep(o) \/ Return(o)
          \/ Decline(o)

Spec == Init /\ [][Next]_vars

-----------------------------------------------------------------------------
(* Properties.                                                             *)

Requests == [id: 1..MaxRequests, op: Operations]
Usages == [inspected: SUBSET Files, modified: SUBSET Files, bytes: Nat]

\* The variables have their types.
TypeOK ==
    /\ requests \subseteq Requests /\ tokens \subseteq Requests
    /\ made \in 0..MaxRequests
    /\ slot \in [Owners -> {NoPending} \cup
                          [id: 1..MaxRequests, call: Calls, by: Flows \cup {NoFlow}]]
    /\ deciding \in Owners \cup {Nobody}
    /\ flow \in [Flows -> {"new", "running", "waiting", "ended", "cancelled"}]
    /\ home \in [Flows -> Owners \cup {Nobody}]
    /\ usage \in [Flows -> Usages] /\ use \in [Flows -> Usages]
    /\ missed \in [Flows -> 0..MaxMissed]
    /\ consents \in [Calls -> Nat] /\ effects \in [Calls -> Nat]

\* No call that is risky, or that its step insists on, takes effect more often than the user
\* approved exactly that call: whoever makes it, whatever was asked before, and although an
\* approval may run more of the workflow than what it was given for (can_execute, approve,
\* execute).
ConsentPerEffect ==
    \A call \in Calls : call.forced \/ Risky(call) => effects[call] <= consents[call]

\* What a slot shows can be approved: the permission manager holds the request of that
\* operation, and none that no slot shows; and a token lives no longer than the call of approve
\* that it was made in (request_operation, approve, reject).
SlotsAndRequestsAgree ==
    /\ \A o \in Owners : slot[o] # NoPending /\ deciding # o =>
          Grant(slot[o].id, slot[o].call) \in requests
    /\ \A request \in requests : \E o \in Owners : slot[o].id = request.id
    /\ deciding = Nobody => tokens = {}

\* What a workflow really did stays within its limits as long as every effect was recorded,
\* over all its runs; and a call whose effect was not recorded, because its result was refused
\* or it raised, takes it beyond them by no more than one call may do: one file, and the bytes
\* of one workflow (_validate_limits, complete_approved, _record_usage, prepare_resume).
EffectsWithinLimits ==
    \A f \in Flows :
        /\ Cardinality(use[f].inspected) <= MaxInspected + missed[f]
        /\ Cardinality(use[f].modified) <= MaxModified + missed[f]
        /\ use[f].bytes <= MaxBytes * (1 + missed[f])
=============================================================================
