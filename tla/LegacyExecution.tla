-------------------------- MODULE LegacyExecution --------------------------
(***************************************************************************)
(* ExecutionEngine.run, the older way to answer a message: a fixed plan,   *)
(* and after a failed step another attempt with a fallback plan, without   *)
(* the steps that were completed already.                                  *)
(*                                                                         *)
(* The run goes on by itself: an action is one step of the plan with all   *)
(* that follows from its result.  What a step does is its outcome.  What   *)
(* the reflection asks for after a failure is any of Requests: the         *)
(* reflection of this program leaves it to the engine (DefaultRequest).    *)
(*                                                                         *)
(* Definitions whose comment starts with "Mutation" are not part of the    *)
(* model: each is the definition after it with a mistake, and some         *)
(* property must notice it.                                                *)
(***************************************************************************)
EXTENDS Naturals, Sequences, Positions

CONSTANTS
    Requests,    \* the plans that a reflection may ask for
    MaxRetries   \* ExecutionEngine.max_retries

\* What a step is: its operation, what it is for, whether it runs although it was
\* completed, and a field that is administrative.
Step(name, goal, repeat, stamp) ==
    [name |-> name, goal |-> goal, repeat |-> repeat, stamp |-> stamp]

Names == {"inspect_context", "run_tests", "analyze_code", "propose_fix", "reflect",
          "unknown", ""}
Goals == {"original", "alternative"}
PlanSteps == [name: Names, goal: Goals, repeat: BOOLEAN, stamp: {"early", "late"}]

\* _normalize_plan drops what has no name.
Normalized(plan) ==
    LET kept == InOrder({i \in DOMAIN plan : plan[i].name # ""})
    IN  [k \in DOMAIN kept |-> plan[kept[k]]]

ASSUME RequestAssumption == Requests \subseteq Seq(PlanSteps)
ASSUME RetryAssumption == MaxRetries \in Nat

Plan(names, goal) == [i \in DOMAIN names |-> Step(names[i], goal, FALSE, "early")]
DebugPlan ==
    Plan(<<"inspect_context", "run_tests", "analyze_code", "propose_fix", "reflect">>,
         "original")
ReviewPlan == Plan(<<"inspect_context", "analyze_code", "reflect">>, "original")
DefaultRequest ==
    Plan(<<"inspect_context", "run_tests", "analyze_code", "reflect">>, "alternative")

VARIABLES
    status,      \* ExecutionState.status
    active,      \* the plan of the current attempt
    todo,        \* the positions in it that are still to be run
    completed,   \* the identities of the completed steps
    seen,        \* the signatures of the plans tried
    retries,
    attempts,    \* the signature of each attempt
    executed     \* the results: attempt, step, status

vars == <<status, active, todo, completed, seen, retries, attempts, executed>>

\* Mutation: the administrative field counts.
IdentityWithStamp(step) ==
    [name |-> step.name, goal |-> step.goal, repeat |-> step.repeat, stamp |-> step.stamp]

\* What makes two steps the same.
Identity(step) == [name |-> step.name, goal |-> step.goal, repeat |-> step.repeat]

\* The positions of the steps that are not skipped.
Runnable(plan, done) ==
    {i \in DOMAIN plan : plan[i].repeat \/ Identity(plan[i]) \notin done}

Signature(plan, positions) ==
    LET order == InOrder(positions)
    IN  [k \in DOMAIN order |-> Identity(plan[order[k]])]

\* The results that a step may have.
Outcomes(name) ==
    CASE name = "inspect_context" -> {"ok", "failed"}
      [] name \in {"run_tests", "analyze_code"} -> {"ok", "failed", "unclear", "asks"}
      [] name \in {"propose_fix", "reflect"} -> {"ok"}
      [] OTHER -> {"failed"}

First(i) == i \in todo /\ \A j \in todo : i <= j

Init ==
    /\ status = "none" /\ active = <<>> /\ todo = {}
    /\ completed = {} /\ seen = {} /\ retries = 0
    /\ attempts = <<>> /\ executed = <<>>

-----------------------------------------------------------------------------
\* A message starts a run, with a state of its own.
Start(plan) ==
    /\ status # "running"
    /\ status' = "running"
    /\ active' = plan
    /\ todo' = Runnable(plan, {})
    /\ completed' = {} /\ retries' = 0 /\ executed' = <<>>
    /\ seen' = {Signature(plan, DOMAIN plan)}
    /\ attempts' = <<Signature(plan, Runnable(plan, {}))>>

\* The first of the positions that are left is run.
Executes(i, result) ==
    /\ status = "running"
    /\ First(i)
    /\ result \in Outcomes(active[i].name)

Result(i, result) ==
    Append(executed, [attempt |-> Len(attempts), step |-> active[i], status |-> result])

\* Mutation: what did not fail is good enough.
StepOkUnlessFailed(i) ==
    /\ \E result \in {"ok", "unclear"} :
          Executes(i, result) /\ executed' = Result(i, result)
    /\ completed' = completed \cup {Identity(active[i])}
    /\ todo' = todo \ {i}
    /\ UNCHANGED <<status, active, seen, retries, attempts>>

StepOk(i) ==
    /\ Executes(i, "ok")
    /\ executed' = Result(i, "ok")
    /\ completed' = completed \cup {Identity(active[i])}
    /\ todo' = todo \ {i}
    /\ UNCHANGED <<status, active, seen, retries, attempts>>

\* A result that is neither "ok" nor "failed" ends the run: the reflection would go on,
\* and only "replan" is understood.
StepUnclear(i) ==
    /\ Executes(i, "unclear")
    /\ executed' = Result(i, "unclear")
    /\ status' = "failed"
    /\ UNCHANGED <<active, todo, completed, seen, retries, attempts>>

\* The run is left to the approval of the operation; it is never resumed.
StepAsks(i) ==
    /\ Executes(i, "asks")
    /\ status' = "awaiting_approval"
    /\ UNCHANGED <<active, todo, completed, seen, retries, attempts, executed>>

\* The fallback has nothing to run, or was tried.
GiveUp(i, request) ==
    LET plan == Normalized(request)
        run == Runnable(plan, completed)
    IN  /\ Executes(i, "failed")
        /\ run = {} \/ Signature(plan, run) \in seen
        /\ executed' = Result(i, "failed")
        /\ status' = "failed"
        /\ UNCHANGED <<active, todo, completed, seen, retries, attempts>>

LimitReached(i, request) ==
    LET plan == Normalized(request)
        run == Runnable(plan, completed)
    IN  /\ Executes(i, "failed")
        /\ run # {} /\ Signature(plan, run) \notin seen
        /\ retries >= MaxRetries
        /\ executed' = Result(i, "failed")
        /\ status' = "retry_limit_reached"
        /\ UNCHANGED <<active, todo, completed, seen, retries, attempts>>

\* Mutation: the plan is not remembered.
RetryForgetting(i, request) ==
    LET plan == Normalized(request)
        run == Runnable(plan, completed)
    IN  /\ Executes(i, "failed")
        /\ run # {} /\ Signature(plan, run) \notin seen
        /\ retries < MaxRetries
        /\ executed' = Result(i, "failed")
        /\ retries' = retries + 1
        /\ active' = plan /\ todo' = run
        /\ attempts' = Append(attempts, Signature(plan, run))
        /\ UNCHANGED <<status, completed, seen>>

Retry(i, request) ==
    LET plan == Normalized(request)
        run == Runnable(plan, completed)
    IN  /\ Executes(i, "failed")
        /\ run # {} /\ Signature(plan, run) \notin seen
        /\ retries < MaxRetries
        /\ executed' = Result(i, "failed")
        /\ retries' = retries + 1
        /\ seen' = seen \cup {Signature(plan, run)}
        /\ active' = plan /\ todo' = run
        /\ attempts' = Append(attempts, Signature(plan, run))
        /\ UNCHANGED <<status, completed>>

\* Mutation: the plan ends when as many steps were executed as it has.
CompleteWhenCounted ==
    /\ status = "running" /\ todo = {} /\ Len(executed) = Len(active)
    /\ status' = "completed"
    /\ UNCHANGED <<active, todo, completed, seen, retries, attempts, executed>>

Complete ==
    /\ status = "running" /\ todo = {}
    /\ status' = "completed"
    /\ UNCHANGED <<active, todo, completed, seen, retries, attempts, executed>>

RunOn ==
    \/ Complete
    \/ \E i \in todo :
          \/ StepOk(i) \/ StepUnclear(i) \/ StepAsks(i)
          \/ \E request \in Requests :
                GiveUp(i, request) \/ LimitReached(i, request) \/ Retry(i, request)

Next == (\E plan \in {DebugPlan, ReviewPlan} : Start(plan)) \/ RunOn

Spec == Init /\ [][Next]_vars

\* Once started a run is not interrupted: it goes on as long as it can.
FairSpec == Spec /\ WF_vars(RunOn)

-----------------------------------------------------------------------------
(* Properties.                                                             *)

Identities == [name: Names, goal: Goals, repeat: BOOLEAN]
Statuses == {"none", "running", "completed", "failed", "retry_limit_reached",
             "awaiting_approval"}

\* The variables have their types.
TypeOK ==
    /\ status \in Statuses
    /\ active \in Seq(PlanSteps)
    /\ todo \subseteq DOMAIN active
    /\ completed \subseteq Identities
    /\ retries \in 0..MaxRetries
    /\ executed \in Seq([attempt: Nat, step: PlanSteps,
                         status: {"ok", "failed", "unclear"}])

SameWork(step, other) == step.name = other.name /\ step.goal = other.goal

\* Work that was done is not done again by a later attempt, whatever the administrative
\* fields of the step say, unless one of the two was marked as to be repeated (run,
\* _skip_completed_steps, _step_identity).
NothingIsRepeated ==
    \A m, n \in DOMAIN executed :
        /\ executed[m].attempt < executed[n].attempt
        /\ executed[m].status = "ok" /\ SameWork(executed[m].step, executed[n].step)
        => executed[m].step.repeat \/ executed[n].step.repeat

\* No attempt runs what an earlier one ran: a retry is a change of plan (seen_plans).
AttemptsDiffer ==
    \A m, n \in DOMAIN attempts : attempts[m] = attempts[n] => m = n

\* A run is completed only when every step of the plan of its last attempt succeeded, now or
\* in an earlier attempt that made it superfluous (run, _skip_completed_steps).
CompletedIsWhole ==
    status = "completed" =>
        \A i \in DOMAIN active : \E m \in DOMAIN executed :
            SameWork(executed[m].step, active[i]) /\ executed[m].status = "ok"

\* Every run ends, with a verdict or with a question for the user, although each failure may
\* bring another plan.
RunEnds == status = "running" ~> status # "running"
=============================================================================
