# Verification of developerAI

developerAI is a local assistant that plans programming work with a language model and
carries it out on a repository, step by step, with a human approval in front of every step
that has an effect. What has to be right is not the text it produces but its **control**:
what runs, when, on whose approval, what is left behind when something fails, and what the
next call finds. That is what is modelled here, in TLA+; TLC checks it on small instances
and TLAPS proves it for all.

Paths below are relative to the repository's source (`src/`).

## 1. The system

### 1.1 Components

Most of the program runs on one thread. A user's message enters a component, which calls
others until it returns or raises; between messages everything is in memory. The hard part
is therefore not threads but *sequences of calls*: a call pauses in the middle of a plan,
leaves a continuation in a slot, and another call, much later, resumes it in a state that
may have changed. Three things are concurrent: the files of the repository, which others
edit; the trial process, an owner process and its clients that talk through files; and the
plan review, which has a lock because several threads may decide about a plan.

| Component | State | Operations | What must be right |
|---|---|---|---|
| **Workflow engine** (`brain/execution_engine.py`, `workflow_runtime.py`, `workflow_plan.py`) | status of the workflow, status and approval of each step, the awaited step, the correction controllers | `run_workflow`, the continuation of an approval (of a tool, of a correction), `submit_`, `abort_` and `invalidate_workflow_correction...` | steps settle once and in order; no effect without an approval for that very start; whatever is awaited can be answered; an ended workflow leaves nothing behind |
| **Approval slot** (`brain/approval_controller.py`) | one pending operation | `request`, `approve`, `reject`, `cancel`, `process_message` | the operation approved is the one shown, and can still be carried out |
| **Permission tokens** (`brain/permission_manager.py`) | requests, granted tokens | `create_approval_request`, `grant_approval`, `cancel_approval_request`, `can_execute` | one use, for the very operation |
| **Older loop** (`brain/execution_engine.py` `run`, `brain/planner.py`, `brain/execution_state.py`) | the active plan, what was completed, the plans tried, the retries | `run`, its steps, fallback plans | what succeeded is not done again, no plan is tried twice, it ends |
| **Change transaction** (`brain/change_transaction.py`) | the files, the snapshots and temporaries, proposals applied | `apply` | all files or none; never someone else's edit; what cannot be undone is reported |
| **Correction loop** (`brain/correction_engine.py`, `correction_runtime.py`) | proposal, status, budget, failure counts, approval request | `start`, `start_from_test_failure`, `submit_correction`, `resume`, `cancel` | limits over all rounds; approval for the state it is applied in; "completed" only on green tests |
| **Correction workflow controller** (`brain/correction_workflow.py`) | one correction runtime for a step | `start`, `submit`, `approve`, `deny`, `abort` | hands the loop's outcome to the step |
| **Programming session** (`brain/controlled_programming_session.py`) | conversation state, pending plan, runtime, pending model correction, budget of generations | `handle_message`, `submit`, `approve_plan`, `process_operational_command`, ... | what it says of its run is true; a proposal of a model is revalidated before it is approved; a budget for the whole request |
| **Plan review** (`brain/model_plan_review.py`) | the pending plan, the records of all plans, the gates of pauses | `register`, `approve`, `reject`, `cancel`, `on_execute`, `on_cancel` | the plan executed is the plan shown, once; a verdict stands |
| **Execution provenance** (`brain/execution_provenance.py`) | capabilities and events | `authorize`, `bind_pending`, `issue_test_event`, `consume_red_test_event` | a red test is believed only when an approved plan ran it |
| **Trial process** (`controlled_trial_process.py`, `trial_windows_fs.py`, `controlled_trial_harness.py`) | status file, command file, owner's state; a heartbeat thread | launcher, owner loop, client `status`, `command`, `wait_for_sequence`, `terminate_and_cleanup` | a command is executed at most once and in the state it was decided in; "lost" only when the owner is gone |
| **Tool execution and limits** (`brain/workflow_tool_executor.py`, `workflow_limits.py`, `test_failure.py`, `tools/tool_result.py`) | usage counters | `execute`, `complete_approved` | limits hold over all runs of a workflow, up to one call for each whose usage was not recorded |
| **Model planning** (`brain/model_plan.py`, `model_planning_service.py`) | none | the decision of a model to a plan | a restricted catalogue adds nothing; an accepted plan is a valid one |
| Tools (`tools/*.py`) | none | one effect each | a result or an exception |
| Action log, memory (`tools/action_logger.py`, `memory/`, `brain/memory_manager.py`) | JSON files | append | errors never reach the caller |
| Model client (`brain/local_model_client.py`, `local_model_config.py`, `model_transport.py`, `model_errors.py`, `structured_json.py`) | none | one request | parsing and limits of sizes and time |
| Correction proposals of a model (`brain/model_correction.py`) | none | output of the model to proposals | schema checks |
| Proposals and validation (`brain/change_proposal*.py`, `change_validator.py`, `path_policy.py`, `source_validator.py`, `patch_request.py`) | none | pure checks | paths, hashes, sizes |
| Reports (`brain/workflow_report*.py`, `workflow_diff.py`) | none | read the runtime | - |
| Routing, context (`brain/tool_router.py`, `context_*.py`, `reflection_engine.py`) | none | keyword routing, prompts | - |
| Agent, entry points (`brain/agent.py`, `programming_operator.py`, `main.py`, `programming_cli.py`) | none of their own | wiring | - |
| Isolated environment (`brain/isolated_environment.py`) | a temporary copy | create, remove | - |

### 1.2 How they interact

* The **session** registers a plan with the **plan review**; approving it starts
  `run_workflow`. The **conversation** (the agent's other messages) shares the review
  controller and the engine and has an approval slot of its own.
* What a model decides becomes a plan through the **catalogue** and the adapter; the engine
  runs it in the order that `WorkflowPlan.execution_order` gives.
* A tool that needs consent asks the **permission manager** for a request and puts itself in
  a slot; approving turns the request into a token and redeems it.
* The **engine** visits the steps. When one needs approval it raises
  `ApprovalRequiredError` with a continuation; the caller puts it in the **approval slot**.
  `approve` runs the continuation, which executes the step and goes on with the plan,
  possibly to the next pause.
* A correction step, or a red test with **provenance**, opens a **correction workflow
  controller** on the step; its **correction loop** asks for an approval of its own,
  applies the proposal with the **change transaction**, and runs the declared tests.
* The **trial process** runs a session in a detached owner and exposes it through a status
  file and a command file.

### 1.3 What is hard

Continuations that outlive the state they were made in; exceptions in the middle of a
continuation, which is at once a step's effect and the rest of the plan; one slot with
several users; retries and repeated steps with the approvals of their earlier start;
limits that are checked before and spent after; partial publication and partial rollback
while others edit; an owner that dies between two steps. `PROJECT.json` lists these hazards
at the line where they bite, with the properties that would notice.

## 2. The modules

| Module | What it is |
|---|---|
| `WorkflowEngine` | the engine, the runtime and the approval slot, for any plan |
| `WorkflowLifecycle` | what a workflow promises to whoever watches it; implemented by `WorkflowEngine` |
| `MCWorkflowEngine` | three plans |
| `WorkflowEngineProofs` | invariants, refinement, where answers get lost, the length of a call; for any plan |
| `ChangeTransaction` | `apply` step by step, with other writers and interruptions |
| `AtomicUpdate` | all files or none, or uncertain; implemented by `ChangeTransaction` until somebody else writes |
| `MCChangeTransaction` | two proposals |
| `ChangeTransactionProofs` | invariants, refinement and the length of a call, for any proposal |
| `CorrectionEngine` | the correction loop, its runtime and its approval service |
| `ApprovedRounds` | ask, grant, act once, judge; implemented by `CorrectionEngine` |
| `MCCorrectionEngine` | four proposals |
| `CorrectionEngineProofs` | invariants, refinement and the length of a call, for any proposals and limits |
| `TrialProcess` | the owner with its heartbeat thread, the two files, the clients |
| `MCTrialProcess` | one client, two clients |
| `TrialProcessProofs` | invariants and how long a command waits, for any clients and any number of commands |
| `PlanReview` | the review controller: the plan that waits and the records |
| `ProgrammingSession` | the session and the conversation over one review controller and one engine; extends `PlanReview` |
| `MCProgrammingSession` | two plans |
| `ProgrammingSessionProofs` | invariants, verdicts and the length of a handler, for any plans and budgets |
| `ToolApproval` | permission manager, approval slots and limits, from a call of a tool to its effect |
| `MCToolApproval` | four operations, two owners, two workflows |
| `ToolApprovalProofs` | invariants, for any tools, owners, workflows and limits |
| `LegacyExecution` | `ExecutionEngine.run` with its retries and fallback plans |
| `MCLegacyExecution` | seven fallback plans |
| `LegacyExecutionProofs` | invariants and why a run ends, for any fallback plans and number of retries |
| `Positions` | a set of positions in increasing order: what the loops that keep some items of a list yield |
| `WorkflowPlan` | validity, order and bindings of a declarative plan, as operators |
| `ModelPlan` | catalogue, contracts, validation and adaptation of a model's decision, as operators |
| `MCModelPlan` | both against reference definitions, over small plans and rules (`ASSUME`s) |
| `ModelPlanProofs` | order, cycles, restriction and adaptation, for any plan, catalogue and decision |

**Convention.** A definition whose comment begins with "Mutation:" belongs to no
specification. It is the definition that follows it with a mistake somebody could make in
the code, and `PROJECT.json` names the property that TLC finds violated when it is put in
the place of the right one. It documents what each property is able to see.

### 2.1 WorkflowEngine

`wf`, `awaiting` and `request` are the fields of `WorkflowRuntimeState`, `st`, `appr`,
`ctl` and `corr` the fields of its steps, `op` the operation in the slot. `call` is the
call on the stack: where it was entered (`run_workflow`, an approved tool, an approved
correction, an abort), whether it is executing the approved effect or visiting steps, and
where it is in the plan. How a call was entered matters because it decides what becomes of
an exception, and `ApprovalRequiredError` is one: `run_workflow`'s caller and
`ApprovalController.approve` put it in the slot, the continuation of a correction catches
it, the callers of an abort do not expect it (operator `Deliver`).

An iteration of `_continue_workflow` is one action per way it can go (`PassSettled`,
`SkipBlocked`, `RefuseUnfinished`, `ResolverFails`, `RunTool`, `ToolRaises`, `PauseTool`,
and for corrections `PauseCorrection`, `StartRefused`, `StartUnadaptable`, `StartRaises`),
`Finish` is its end. An approved continuation is `Approve` (which does
`begin_approved_step`) followed by the outcome of the effect and by the loop. The other
decisions of the user are single actions, as they run to their end without visiting steps.

A tool's status, and whatever a correction engine returns or raises, is chosen freely, so
everything holds whatever the tools do. A step that needs an approval may also fail or raise
before it asks for it, as its arguments and the limits are checked first.

### 2.2 ChangeTransaction

A content is what it is for the transaction: the validated original, the proposal's,
absent, or somebody else's. Each check and each replacement is a step, and `Edit` may come
between any two. `raced` remembers the files edited since `apply` last looked at them: the
edits that no check could have seen. `Interrupt` is an exception that is no `Exception`:
it is not handled (`change_transaction.py:121`), so a call that is interrupted leaves any part
of the files published and reports nothing. `AtomicUpdate` therefore promises: all the files,
none of them, or an answer (or an interruption) that says that any may have changed; and its
promise ends with the first write of somebody else (`disturbed`).

### 2.3 CorrectionEngine

One action per call, except that `resume` after an approval is a sequence (`Approve`, then
`Apply`, `ApplyFails` or `RollbackFails`, then a test at a time), because an exception may
end it anywhere (`Raise`) and leave the runtime where it is. A request is the snapshot
that `_build_approval_snapshot` takes. The transaction is what section 2.2 shows of it:
it applies everything, nothing, or declares a part uncertain. `granted` is a history
variable: the request whose approval is being carried out.

### 2.4 TrialProcess

`file` and `cmd` are `owner-status.json` and `owner-command.json`; both are replaced
atomically, so each is a variable and the steps around a read or a write are what matters.
`pc` is where the owner's main thread is in `run`, `then` where it goes after publishing,
`current` is `_Owner.current` and `beat` what the heartbeat thread is about to write. The
lock that both threads take is `pc = "write"` for the one and `beat # NoStatus` for the
other. Accepting a command, deleting its file, executing it and publishing the answer are
steps of their own; the owner may raise (`Raise`, a write that failed for good) or die
(`Crash`) at each of them. `done` is a history variable: the commands executed.

A client reads (`Look`), then asks whether the owner is alive (`Judge`, `DeclareLost`),
decides on what it read (`Decide`) and puts the command in place (`Send`), and others may
act between any two. `Send` may replace a command that came in after the check, as the
rename of POSIX does, or fail, as that of Windows does (`SendRefused`).
`terminate_and_cleanup` is one step: nobody reads a trial in the middle of its removal
with a result that matters here.

The session behind the owner answers as `ControlledProgrammingSession` can: a request that
awaits approval is named by the number of the command that led to it, which makes each new
one different from all before, as the identifiers of the code are.

### 2.5 PlanReview and ProgrammingSession

`PlanReview` is the review controller alone: `records` and `pending`, with one operator per
critical section (`Register`, `Decide`, `Note`, `NoteDeclined`). `ProgrammingSession` says who
calls it. `owner` is whose message is being handled, `at` where its handler is, `cur` which
run it is about; `state`, `plan`, `mine`, `bound`, `tried`, `invalid` and `rejected` are the
fields of the session, `slot` the two approval controllers, `run` the runtimes. The engine
answers as sections 2.1 and 2.3 allow: a run, an approved tool, an approved correction, a
submission or an abort ends with a status, or raises. A message is answered before the next
one; what other threads may do meanwhile are `PlanWithModel`, `DropModelPlan` and `DeclineLate`,
because the controller has a lock and pauses have gates for exactly that
(`tests/test_model_plan_review.py:267`, `:907`, `:980`).

Some facts of the code that the model shows and that are easily missed:

* If another caller supersedes the plan that the session shows, the session stays in
  `pending_plan`; rejecting fails without a change, approving fails and ends in `failed`.
* `validate_plan` may refuse a plan after it was approved (`StartFails`); record and session
  then take the previous run of the engine as theirs. The session ends `failed`, so that no
  property is broken by it.
* A rejected proposal of a model aborts the correction at once, so that the budget of
  rejections is never what ends a request.
* A pause that follows an approved correction is an error for the session
  (`CorrectionRaises`): finding 1 seen from above.
* While a run of the session awaits a correction, its record is `failed` and closed.

A draft that repeats an earlier one counts as invalid, as in the code. Provenance is `traced`:
which run has the binding that the session authorised, and `Trusted`: whether a red test of a
run may open a correction. Signatures and one-use nonces are abstracted to that.

### 2.6 ToolApproval

`requests` and `tokens` are those of the permission manager, `slot` the pending operation of
each approval controller, `deciding` the one that is inside `approve`, `usage` what a
workflow's runtime recorded. `use`, `consents` and `effects` are history: what was really
done. An approval is not atomic: it performs the operation and then goes on with the rest of
the workflow, which may put the next request into the very slot that is being approved.

The limits are checked before an effect and the usage is recorded after its result was accepted.
An effect stays unrecorded when the result is refused by `_validate_result` (`StepRefused`: the
engine catches the refusal, the step fails and the workflow goes on) and when the tool raises
anything else (`StepRaises`: the exception leaves the engine). `prepare_resume` lets a runtime
that ended run again, with the usage it recorded (`Rerun`); the session never does that, and a
runtime that was cancelled cannot. So the effects of a workflow may exceed its limits, and
`EffectsWithinLimits` says by how much: over all its runs by at most one call for each that was
missed (`missed`, history), and not at all when none was.

### 2.7 LegacyExecution

An action is a step of the active plan with everything that follows from its result. What a
reflection asks for after a failure is any of `Requests`; the reflection of this program asks
for nothing, and the engine takes `DefaultRequest`. Its steps have another goal than those of
the plan that failed, so that for the code they are other steps: what was completed *is* run
again. `NothingIsRepeated` is therefore about steps with the same name and goal, as the code
compares them, and leaves out those marked to be repeated.

### 2.8 WorkflowPlan and ModelPlan

No state: operators for the algorithms (`ExecutionOrder` in rounds, `Resolvable`, the
two detectors of cycles, contracts and their restriction, the validation of a decision).
`MCModelPlan` states what they are meant to compute with definitions that follow no loop of the
code, and TLC evaluates them as `ASSUME`s in the runs of `MCWorkflowEngine`, which extends it.
`WorkflowEngine` numbers the steps in that order and relies on it: `NumberedDependencies` is
what it sees of a plan, and the proofs show that it satisfies what the engine assumes.

Each round of `execution_order` takes the steps that are ready in the order of the plan. A
selection by a condition is `InOrder` of the positions that satisfy it (`Positions`), defined by
rank: the filter of the library is recursive and nothing could be proved about it. The rounds
are a recursive function over their number.

## 3. What is checked

### 3.1 Runs

| Run | Instance | Shows |
|---|---|---|
| `engine_mixed` | five steps: two corrections, one from a red test, gated tools that depend on them, two repeated steps, another command using the slot | every invariant and action property, `LifecycleSpec`, `CallsReturn`, no deadlock; the `ASSUME`s about plans |
| `engine_tools` | five tools, three gated, nobody else in the slot | a workflow that waits for an approval has an operation to approve |
| `engine_approved_chain` | a correction, then a gated tool | **violated**: finding 1 |
| `engine_decline` | the same plan | **violated**: finding 2 |
| `transaction` | three files, two edits by others, three calls | reports, overwriting, temporaries, refinement of `AtomicUpdate`, `ApplyReturns` |
| `correction` | two runtimes, four proposals, two corrections, three files of which two fit | limits, requests, verdicts, `ResumeReturns`, refinement of `ApprovedRounds` |
| `session` | two plans, two records, the budgets of the program, with and without a model for corrections | the session agrees with its run, proposals are bound, whose corrections, the budget of a request, verdicts stand, `HandlersEnd`, no deadlock |
| `review_record` | the same | **violated**: finding 4 |
| `tools` | two owners, two workflows, four operations, three requests | an effect needs a consent, slots and requests agree, over all runs of a workflow the effects exceed the limits by at most one call for each that was not recorded |
| `legacy` | both fixed plans, seven fallback plans, two retries | nothing is repeated, no plan is tried twice, "completed" is whole, `RunEnds`, no deadlock |
| `trial` | two clients, two commands, crashes and failing writes anywhere | the status file follows the owner, "lost" means gone, what is executed was decided on the current status, commands are consumed |
| `trial_blank` | one client, one command | **violated**: finding 3 |

### 3.2 Bounds, and why they are enough

* Plans of five steps contain every kind of step before and after every other that matters:
  a repeated step before and after a gated one, a correction before a dependent and after a
  test, required and optional ones. What the engine looks at is one step, its dependencies
  and the awaited step; the proofs remove the bound for safety.
* Three files are the smallest number with a published file, one being replaced and one
  not yet reached; two edits can hit one file twice or two files, a third call sees the
  effect of a failed second one. `MaxEdits` and `MaxCalls` are the only bounds.
* Two corrections reach the limit of rounds and go one beyond it; two runtimes show that
  nothing of the first is used by the second; proposals overlap in files and differ in
  which tests they declare. `MaxRuntimes` is the only bound that the code does not have;
  the proofs hold for any value of it.
* Two clients are enough for one to overtake another at each of its steps; with two
  commands one is executed while the other, decided on the same or on the next status,
  is on its way. The owner dies once, for good. `MaxCommands` is the only bound; the proofs
  hold for any value of it and any clients.
* Two plans and two records: a plan of the session and one of the conversation, in either
  order, the one waiting, superseded or paused while the other runs. The budgets are those of
  the program. `MaxRecords` is the only bound; three records are nearly four million states,
  and the proofs hold for any number.
* Three requests: a step's, the next step's inside the approval of the first, and one of a
  message in between; the limits are such that each of the operations fits once and no second
  time. `MaxRequests` and `MaxMissed` (one unrecorded call per workflow) are the bounds that the
  code does not have. The two workflows are interchangeable (`FlowsAreAlike`). Only one file is
  read, so that the limit on reads is reached and never exceeded; those on writes and bytes are.
* Seven fallback plans: the default, the plan that failed, one with a step to repeat, one that
  only looks different, one unknown, and two with nothing to run. The retries are the program's.
* `MCModelPlan`: every plan of up to two steps with bindings and of three without, and every
  rule over bounds from a small range; cycles, self-references and unknown ids all occur. For
  order and cycles the proofs remove the bound.

`CHECK_DEADLOCK FALSE` is set where the system really stops: a cancelled workflow without
another command, the bounds on calls of `apply`, on runtimes and on requests, a trial that
ended.

### 3.3 Fairness

Only the machine's own steps are fair (`WF_vars(Machine)`, `WF_vars(Step)`, `WF_vars(Work)`
for the handlers of the session, `WF_vars(RunOn)` for the older loop, and
`WF_vars(Owner)` and `WF_vars(BeatWrite)` for the two threads of the trial's owner): a call
that was made runs on its thread until it returns. That is what a Python call does as long as
its callees return, and they do: tools and tests run with a time limit, the transaction
loops over a list. Nothing is assumed of the user, who may never answer, nor of other
writers or clients, nor that a crash happens or does not. `CallsReturn`, `ApplyReturns`,
`ResumeReturns` and `HandlersEnd` are about calls, not about the workflow's end, which needs
the user; `CommandIsConsumed` holds for an owner that lives. `HandlersEnd` rests on the budget
of generations and `RunEnds` on the limit of retries: without them a handler could go on for
ever although every step of it is taken.

### 3.4 Findings

1. **An approval is lost after a correction** (`engine_approved_chain`). The continuation
   of an approved correction runs the rest of the plan inside the handler that is meant for
   the correction's own failures; the next step's `ApprovalRequiredError` is swallowed, and
   the workflow stays in `awaiting_approval` with nothing to approve. An abort goes on with the
   plan too and loses a pause in the same way (`controlled_programming_session.py:388`, `:704`).
2. **Declining a stale correction does not close the workflow** (`engine_decline`). The
   proposal is validated before the answer is looked at; the exception leaves the workflow
   waiting for an operation that the slot has already dropped.
3. **A blank request leaves an owner that cannot be ended** (`trial_blank`). Launcher and
   owner refuse an empty request only; for a blank one the session stays idle, the owner
   publishes that state and polls, and no client can read the status or clean up.
4. **A plan is recorded with the outcome of another** (`review_record`). What is noted of a
   paused plan when it is resumed or declined is the status of the run that the engine started
   *last*, which may be another plan's (`model_plan_review.py:269`-`292`).

All were reproduced by running the code. The first two have one cause: a continuation is
both the effect of a step and the rest of the plan, and the handlers around it were
written for the first.

## 4. What is proved

All for every value of the constants, under the named assumptions, which TLC evaluates in
every run: `PlanAssumption` (a plan's dependencies point backwards), `LimitsAssumption`,
`ProposalAssumption` (limits are positive, files finite), `BoundAssumption`, `RecordAssumption`,
`PolicyAssumption`, `RetryAssumption`, `ApprovalBounds` (bounds are numbers),
`OperationAssumption` (operations have their type), `NameAssumption` (the marks for nobody and
nothing are no owner and no workflow) and `RequestAssumption` (fallback plans are sequences of
steps).

**WorkflowEngine.** None of the invariants is inductive alone. That an operation in the
slot can be resumed needs that statuses and pointers agree; that they agree after a step
needs that the call found the workflow running; that an approved effect may run needs that
its operation was resumable. `IInv` is the conjunction of `TypeOK`, `PauseAgreement`,
`OperationIsResumable`, `CallDiscipline`, `ControllersAreInUse`, `PausedDependenciesOk` and
`EffectsWereApproved`, and it is inductive as it stands. The proof goes by groups of
actions (an iteration of the loop, an effect, a decision of the user, the end), types
first. `NothingOutlivesTheWorkflow` follows from `IInv` without induction, the action
property `EveryStartIsApproved` from `IInv` and one step, and `LifecycleSpec` step by step
with the mapping `Outcome`.

Whether the user can answer a pause depends on the plan, and for some plans it is false: those
are findings 1 and 2. Two theorems say where the line is. `LostAnswers`: for every plan, the
step that leaves an unanswerable pause is taken by the continuation of a correction or of an
abort, by a decision about a correction, or while another command holds the slot; nothing else
loses an answer (`AnswersAreLostOnlySo`, from `IInv` and one step). `ToolPausesAreAnswerable`: a
plan of tools only, with nobody else in the slot, never reaches one of these, so
`PauseIsAnswerable` is an invariant of it, for any number of steps; its strengthening is
`ToolsOnly`. The run `engine_tools` is an instance.

**CorrectionEngine.** `IInv` adds three things to the properties. `Pledged`: a proposal
that is asked about or being applied still fits, a round is left for it, and if it is the
initial one nothing was applied before; this is what makes the limits hold *after* the
application although they are checked before the approval. `Proving`: while tests run, all
that ran were green and a full one is declared. `Consent`: a call is under way only with
its approval at hand. A bound on the number of applied proposals links `iterations` to the
rounds of `ApprovedRounds`.

**TrialProcess.** `IInv` adds: what the heartbeat is about to write is the current status,
and only between two statuses (`LockExcludes`); a status being written counts the commands
executed (`WriteIsCurrent`); an accepted command still fits when it is executed
(`TakenFits`); no sequence that anyone has seen or sent is ahead of the commands sent
(`NotAhead`), which bounds them all. Publishing is one lemma, used by every action that
publishes. That an executed command was decided on the current status is `TakenFits`, which
holds because nothing but the command itself changes the status between accepting and
executing it.

**ChangeTransaction.** `IInv` adds: how far the call is and what that says of every file
(`Progress`), that what can be left behind is known (`TracesAreKnown`), that what was undone
has its original (`Undone`), that somebody else's content is in `raced` (`OthersAreRaced`),
that what was published stays until it is undone or edited (`PublishedStays`), and, as long as
nobody else wrote, exactly which contents there are (`Exact`), from which the refinement of
`AtomicUpdate` follows step by step.

**ToolApproval.** `Accounts` counts for every call: there are never more effects than
consents, at most one token exists, and while it does the operation of the slot being decided
has a consent that is not yet used up. It needs that requests, tokens and slots are numbered
without a repetition (`Numbers`), what is true while an approval is carried out (`Deciding`),
that a workflow that waits or runs asks where it was started (`Homes`), and, for the limits,
that what is recorded fits the limits and was done, and that whatever else was done is at most one
call's worth for each call that was missed (`UseIsAccounted`). A step adds either to what is
recorded, after the check, or to what was missed.

**LegacyExecution.** What is completed is what has an "ok" among the results
(`CompletedIsRecorded`), what is still to do was not completed (`TodoIsNew`), what is neither to
do nor skipped was done (`RestIsDone`), and every attempt was seen (`AttemptsAreSeen`).

**ProgrammingSession.** `IInv` says what the review knows (`ReviewInv`: what waits was never
run), where a handler is and what it may rely on there (`HandlerInv`), what is asked and of
which run (`SlotInv`), and the session twice: while a message is for it (`BusyInv`) and
otherwise (`RestInv`). The runs of session and conversation are told apart by who started them
(`starter`, a history variable), so that no step of the one disturbs what is said of the other.
Every action has a lemma with one step per part of `IInv`. `RecordsKeepTheirVerdict` follows
from the invariant and one step.

**Plans and decisions.** A contract accepted as a restriction accepts nothing that the other
refuses, and a catalogue made of such contracts gets no plan adapted that the other would not.
Of the order in which a plan runs (`OrderIsSettled`): every step comes after what it depends on,
none comes twice, and a step is missing exactly when `validate` reports a cycle; and it reports
one exactly when some steps depend on each other in a circle (`CyclesAreFound`). The check that
`ModelPlanDecision` makes, another algorithm on another form of the steps, finds the same
(`DependencyCyclesAreFound`). Together: a plan that the adapter builds passes
`WorkflowPlan.validate` (`AdaptedPlansAreValid`), and a plan that passes it satisfies
`PlanAssumption` when it is numbered in the order it runs (`NumberedDependenciesComeFirst`),
which is all that the proofs about `WorkflowEngine` assume of its dependencies.

The argument is about the rounds. What is ordered after any number of them is a correct
beginning of the order, or everything that can be ordered (`EveryRound`); each round adds a step
or no later one does, so `Len(plan)` rounds are enough; and a step that is left waits for
another that is left. For the decision it is the mirror image, with what remains (`EveryRest`).
Both go over all rounds. Induction rules that take a predicate are beyond the installed
provers, but that every non-empty set of numbers has a least element can be had from the
well-foundedness of the naturals, which is a statement about sets: `InductionUpTo` is the
rule in that form, and `IterationExists` says that a function defined by recursion over
`0..n` satisfies its equation.

**How long calls take.** The liveness properties have a half that is safety: that every step of
a call uses up something of which there is a bounded amount. It is stated by a measure and an
action property, in the proof modules, and follows from `IInv` and one step:

| Liveness property | Measure | Theorem |
|---|---|---|
| `CallsReturn` | `WorkLeft`, at most `N + 2` | `CallsGetShorter` |
| `ApplyReturns` | `StepsLeft`, at most `5N + 3`; others' edits leave it alone | `CallsAreBounded` |
| `ResumeReturns` | `StepsLeft`: the transaction, then each declared test once | `ResumesAreBounded` |
| `HandlersEnd` | `StepsLeft`, at most `2 * MaxGenerations + 3`; what other threads do leaves it alone | `HandlersAreBounded` |
| `CommandIsConsumed` | `StepsLeft` of the owner's main thread, at most 8; heartbeat and clients leave it alone | `CommandsDoNotWaitLong` |
| `RunEnds` | retries, then the steps still to do | `RunsAreBounded` |

What remains of each is that the steps are taken: fairness, and that one of them can always be
taken.

Not proved, only model-checked: that half of the liveness properties (no fairness and no
`ENABLED` in the prover), and what `Resolvable` computes for nested values.

## 5. What is not modelled

* Of the session: views, the wording of commands, the context of the repository, and the
  construction of prompts and drafts (`model_correction.py`): a draft is valid, invalid or an
  exception. Of the plan review: what revalidation compares; it succeeds or does not.
* Of the trial process: access rights, links and identities in the file system, the
  identity of processes, signatures, the evidence file and the launcher. Cleanup is one
  step. `wait_for_sequence` repeats `status` and changes nothing else.
* Of the correction loop: the adapter to `PermissionManager`, an alternative approval service
  that the workflow's controller does not accept. Of the engine: deadlines.
* Request identifiers, rendering, logging. The action log swallows every error, so nothing
  depends on it; what a concurrent writer makes it lose is a hazard without a property.
* Tools, model client, prompts, the validators of paths and sources: pure or one effect
  each; the models let them succeed or fail freely.
* Reports, routing and context, entry points: derived or stateless. The isolated environment:
  a copy and its removal.

## 6. Plan

1. Workflow engine and approval slot, abstract lifecycle, proofs. *Done.*
2. Change transaction, its abstraction and proofs. *Done.*
3. Correction loop, its abstraction and proofs. *Done.*
4. Trial process and proofs of its safety. *Done.*
5. Session with plan review and provenance, and proofs of its safety. *Done.*
6. Permission manager, slots and limits, and proofs. *Done.*
7. Older loop, plans and their order, adaptation of decisions, and proofs. *Done.*
8. Order and cycles of plans, unanswerable pauses, and the length of calls: proofs. *Done.*
9. Left: the trial process as an implementation of an at-most-once channel; its launcher and
   the evidence file; the correction controller composed with the engine in one
   specification, instead of as each sees the other; the drafts of `model_correction.py`
   checked as operators, like the decisions of `model_plan.py`.
