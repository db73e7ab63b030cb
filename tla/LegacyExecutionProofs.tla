----------------------- MODULE LegacyExecutionProofs -----------------------
(***************************************************************************)
(* Proofs about the older execution loop, for any fallback plans that a    *)
(* reflection may ask for and any number of retries.                       *)
(*                                                                         *)
(* IInv is inductive.  Besides the properties to be proved it says that    *)
(* the identities noted as completed are those of the results that are     *)
(* ok, no more and no fewer, that what is left to do repeats nothing, and  *)
(* that what is not left to do is done.                                    *)
(* At the end: why a run cannot go on for ever.                            *)
(***************************************************************************)
EXTENDS LegacyExecution, ModelPlanProofs

\* The completed identities are those of the steps that succeeded.
CompletedIsRecorded ==
    /\ \A m \in DOMAIN executed :
          executed[m].status = "ok" => Identity(executed[m].step) \in completed
    /\ \A identity \in completed : \E m \in DOMAIN executed :
          Identity(executed[m].step) = identity /\ executed[m].status = "ok"

\* No result is of an attempt to come, and no step that is left repeats an earlier one.
TodoIsNew ==
    /\ \A m \in DOMAIN executed : executed[m].attempt <= Len(attempts)
    /\ \A i \in todo, m \in DOMAIN executed :
          /\ executed[m].attempt < Len(attempts)
          /\ executed[m].status = "ok" /\ SameWork(executed[m].step, active[i])
          => executed[m].step.repeat \/ active[i].repeat

\* A step of the current plan is left to be run or has succeeded, or the run is over.
RestIsDone ==
    status \in {"running", "completed"} =>
        \A i \in DOMAIN active : i \in todo \/ \E m \in DOMAIN executed :
            SameWork(executed[m].step, active[i]) /\ executed[m].status = "ok"

\* Every attempt is remembered, and a completed run has nothing left.
AttemptsAreSeen ==
    /\ attempts \in Seq(seen)
    /\ status = "completed" => todo = {}

IInv ==
    /\ TypeOK /\ NothingIsRepeated /\ AttemptsDiffer
    /\ CompletedIsRecorded /\ TodoIsNew /\ RestIsDone /\ AttemptsAreSeen

Results == [attempt: Nat, step: PlanSteps, status: {"ok", "failed", "unclear"}]

-----------------------------------------------------------------------------
\* The identity of a step of a plan, and what it says.
LEMMA IdentityType ==
    /\ \A step \in PlanSteps : Identity(step) \in Identities
    /\ \A step, other \in PlanSteps :
          Identity(step) = Identity(other) =>
              SameWork(step, other) /\ step.repeat = other.repeat
    /\ \A step, other \in PlanSteps :
          SameWork(step, other) /\ ~step.repeat /\ ~other.repeat =>
              Identity(step) = Identity(other)
  BY DEF Identity, Identities, PlanSteps, SameWork

\* The two fixed plans are plans.
LEMMA FixedPlans == {DebugPlan, ReviewPlan} \subseteq Seq(PlanSteps)
  <1>1. \A name \in Names : Step(name, "original", FALSE, "early") \in PlanSteps
    BY DEF Step, PlanSteps, Goals
  <1>2. ASSUME NEW names \in Seq(Names)
        PROVE  Plan(names, "original") \in Seq(PlanSteps)
    <2>1. DOMAIN names = 1..Len(names) /\ Len(names) \in Nat
      OBVIOUS
    <2>2. \A i \in 1..Len(names) : names[i] \in Names
      OBVIOUS
    <2>3. Plan(names, "original")
              = [i \in 1..Len(names) |-> Step(names[i], "original", FALSE, "early")]
      BY <2>1 DEF Plan
    <2>4. \A i \in 1..Len(names) : Step(names[i], "original", FALSE, "early") \in PlanSteps
      BY <1>1, <2>2
    <2>5. Plan(names, "original") \in [1..Len(names) -> PlanSteps]
      BY <2>3, <2>4
    <2> QED
      BY <2>1, <2>5
  <1>3. /\ <<"inspect_context", "run_tests", "analyze_code", "propose_fix", "reflect">>
               \in Seq(Names)
        /\ <<"inspect_context", "analyze_code", "reflect">> \in Seq(Names)
    BY DEF Names
  <1> QED
    BY <1>2, <1>3 DEF DebugPlan, ReviewPlan

\* Without the steps that have no name a plan is still one: what is kept are the steps at
\* some of its positions, in their order (_normalize_plan).
LEMMA NormalizedIsPlan ==
    ASSUME NEW plan \in Seq(PlanSteps)
    PROVE  Normalized(plan) \in Seq(PlanSteps)
  <1> DEFINE S == {i \in DOMAIN plan : plan[i].name # ""}
             n == Cardinality(S)
             kept == InOrder(S)
  <1>1. Len(plan) \in Nat /\ DOMAIN plan = 1..Len(plan) /\ plan \in [1..Len(plan) -> PlanSteps]
    BY LenProperties
  <1>2. S \in SUBSET (1..Len(plan)) /\ S \in SUBSET Nat
    <2>1. S \subseteq DOMAIN plan
      OBVIOUS
    <2> HIDE DEF S
    <2> QED
      BY <1>1, <2>1
  <1>3. Normalized(plan) = [k \in DOMAIN kept |-> plan[kept[k]]]
    BY DEF Normalized
  <1> HIDE DEF S
  <1>4. IsFiniteSet(S)
    BY <1>1, <1>2, IntervalCounts, FS_Subset
  <1>5. n \in Nat /\ kept \in [1..n -> S]
    BY <1>2, <1>4, InOrderFacts
  <1> HIDE DEF kept, n
  <1>6. Normalized(plan) \in [1..n -> PlanSteps]
    BY <1>1, <1>2, <1>3, <1>5
  <1> QED
    BY <1>5, <1>6, SeqDef

\* Before any run the invariant holds.
LEMMA InitInvariant == Init => IInv
  <1> SUFFICES ASSUME Init PROVE IInv
    OBVIOUS
  <1>1. executed = <<>> /\ attempts = <<>> /\ active = <<>>
    BY DEF Init
  <1>2. TypeOK
    BY <1>1, RetryAssumption DEF Init, TypeOK, Statuses
  <1> QED
    BY <1>1, <1>2 DEF Init, IInv, NothingIsRepeated, AttemptsDiffer, CompletedIsRecorded,
       TodoIsNew, RestIsDone, AttemptsAreSeen

\* A run starts afresh.
LEMMA StartInvariant ==
    ASSUME IInv, NEW plan \in {DebugPlan, ReviewPlan}, Start(plan)
    PROVE  IInv'
  <1>1. plan \in Seq(PlanSteps)
    BY FixedPlans
  <1>2. Runnable(plan, {}) = DOMAIN plan
    BY DEF Runnable
  <1>3. TypeOK'
    BY <1>1, <1>2, RetryAssumption DEF Start, TypeOK, Statuses
  <1>4. attempts' = <<Signature(plan, DOMAIN plan)>> /\ seen' = {Signature(plan, DOMAIN plan)}
    BY <1>2 DEF Start
  <1>5. executed' = <<>> /\ completed' = {} /\ active' = plan /\ todo' = DOMAIN plan
        /\ status' = "running"
    BY <1>2 DEF Start
  <1>6. AttemptsDiffer' /\ AttemptsAreSeen'
    BY <1>4, <1>5 DEF AttemptsDiffer, AttemptsAreSeen
  <1> QED
    BY <1>3, <1>5, <1>6 DEF IInv, NothingIsRepeated, CompletedIsRecorded, TodoIsNew, RestIsDone

-----------------------------------------------------------------------------
\* What a further result is and leaves alone.
LEMMA NextResult ==
    ASSUME TypeOK, NEW i \in todo, NEW result, Executes(i, result),
           executed' = Result(i, result)
    PROVE  LET last == Len(executed) + 1
               entry == [attempt |-> Len(attempts), step |-> active[i], status |-> result]
           IN  /\ DOMAIN executed' = DOMAIN executed \cup {last}
               /\ last \notin DOMAIN executed
               /\ executed'[last] = entry
               /\ \A m \in DOMAIN executed : executed'[m] = executed[m]
               /\ active[i] \in PlanSteps
  BY DEF TypeOK, Result

\* A result that is not ok repeats nothing and completes nothing.
LEMMA FurtherResult ==
    ASSUME IInv, NEW i \in todo, NEW result \in {"failed", "unclear"}, Executes(i, result),
           executed' = Result(i, result), status' \in Statuses,
           UNCHANGED <<active, todo, completed, seen, retries, attempts>>
    PROVE  TypeOK' /\ NothingIsRepeated' /\ CompletedIsRecorded' /\ TodoIsNew'
  <1> DEFINE last == Len(executed) + 1
             entry == [attempt |-> Len(attempts), step |-> active[i], status |-> result]
  <1>1. /\ DOMAIN executed' = DOMAIN executed \cup {last} /\ last \notin DOMAIN executed
        /\ executed'[last] = entry
        /\ \A m \in DOMAIN executed : executed'[m] = executed[m]
        /\ active[i] \in PlanSteps
    BY NextResult DEF IInv
  <1> HIDE DEF last
  <1>2. executed' \in Seq(Results)
    BY <1>1 DEF IInv, TypeOK, Result, Results
  <1>3. TypeOK'
    BY <1>2 DEF IInv, TypeOK, Results
  <1>4. NothingIsRepeated'
    <2>1. \A m \in DOMAIN executed' : executed'[m] \in Results
      BY <1>2
    <2>2. Len(attempts) \in Nat /\ result # "ok"
      BY DEF IInv, AttemptsAreSeen
    <2>3. ASSUME NEW m \in DOMAIN executed', NEW n \in DOMAIN executed',
                 executed'[m].attempt < executed'[n].attempt, executed'[m].status = "ok",
                 SameWork(executed'[m].step, executed'[n].step)
          PROVE  executed'[m].step.repeat \/ executed'[n].step.repeat
      <3>1. m # last
        BY <1>1, <2>2, <2>3
      <3>2. CASE n = last
        BY <1>1, <2>3, <3>1, <3>2 DEF IInv, TodoIsNew
      <3>3. CASE n # last
        BY <1>1, <2>3, <3>1, <3>3 DEF IInv, NothingIsRepeated
      <3> QED
        BY <3>2, <3>3
    <2> QED
      BY <2>3 DEF NothingIsRepeated
  <1>5. CompletedIsRecorded'
    BY <1>1 DEF IInv, CompletedIsRecorded
  <1>6. TodoIsNew'
    <2>1. Len(attempts) \in Nat /\ Len(attempts') = Len(attempts)
      BY DEF IInv, AttemptsAreSeen
    <2> QED
      BY <1>1, <2>1 DEF IInv, TodoIsNew
  <1> QED
    BY <1>3, <1>4, <1>5, <1>6

\* A step that succeeds.
LEMMA StepOkInvariant == ASSUME IInv, NEW i \in todo, StepOk(i) PROVE IInv'
  <1> DEFINE last == Len(executed) + 1
             entry == [attempt |-> Len(attempts), step |-> active[i], status |-> "ok"]
  <1>1. /\ DOMAIN executed' = DOMAIN executed \cup {last} /\ last \notin DOMAIN executed
        /\ executed'[last] = entry
        /\ \A m \in DOMAIN executed : executed'[m] = executed[m]
        /\ active[i] \in PlanSteps
    BY NextResult DEF IInv, StepOk
  <1>2. /\ completed' = completed \cup {Identity(active[i])} /\ todo' = todo \ {i}
        /\ UNCHANGED <<status, active, seen, retries, attempts>>
    BY DEF StepOk
  <1> HIDE DEF last
  <1>3. TypeOK'
    <2>1. Identity(active[i]) \in Identities
      BY <1>1, IdentityType
    <2>2. executed' \in Seq(Results)
      BY <1>1 DEF IInv, TypeOK, StepOk, Result, Results
    <2> QED
      BY <1>2, <2>1, <2>2 DEF IInv, TypeOK, Results
  <1>4. \A m \in DOMAIN executed' : executed'[m] \in Results
    <2>1. executed' \in Seq(Results)
      BY <1>3 DEF TypeOK, Results
    <2> QED
      BY <2>1
  <1>5. NothingIsRepeated'
    <2>1. \A m \in DOMAIN executed : executed[m].attempt <= Len(attempts)
      BY DEF IInv, TodoIsNew
    <2>2. Len(attempts) \in Nat
      BY DEF IInv, AttemptsAreSeen
    <2>3. ASSUME NEW m \in DOMAIN executed', NEW n \in DOMAIN executed',
                 executed'[m].attempt < executed'[n].attempt, executed'[m].status = "ok",
                 SameWork(executed'[m].step, executed'[n].step)
          PROVE  executed'[m].step.repeat \/ executed'[n].step.repeat
      <3>1. m # last
        BY <1>1, <1>4, <2>1, <2>2, <2>3 DEF Results
      <3>2. CASE n = last
        BY <1>1, <2>3, <3>1, <3>2 DEF IInv, TodoIsNew
      <3>3. CASE n # last
        BY <1>1, <2>3, <3>1, <3>3 DEF IInv, NothingIsRepeated
      <3> QED
        BY <3>2, <3>3
    <2> QED
      BY <2>3 DEF NothingIsRepeated
  <1>6. CompletedIsRecorded'
    <2>1. \A m \in DOMAIN executed' :
              executed'[m].status = "ok" => Identity(executed'[m].step) \in completed'
      BY <1>1, <1>2 DEF IInv, CompletedIsRecorded
    <2>2. ASSUME NEW identity \in completed'
          PROVE  \E m \in DOMAIN executed' :
                     Identity(executed'[m].step) = identity /\ executed'[m].status = "ok"
      BY <1>1, <1>2 DEF IInv, CompletedIsRecorded
    <2> QED
      BY <2>1, <2>2 DEF CompletedIsRecorded
  <1>7. TodoIsNew'
    <2>1. Len(attempts) \in Nat /\ Len(attempts') = Len(attempts)
      BY <1>2 DEF IInv, AttemptsAreSeen
    <2> QED
      BY <1>1, <1>2, <2>1 DEF IInv, TodoIsNew
  <1>8. RestIsDone'
    BY <1>1, <1>2 DEF IInv, RestIsDone, SameWork
  <1>9. AttemptsDiffer' /\ AttemptsAreSeen'
    BY <1>2 DEF IInv, AttemptsDiffer, AttemptsAreSeen, StepOk, Executes
  <1> QED
    BY <1>3, <1>5, <1>6, <1>7, <1>8, <1>9 DEF IInv

\* A run that ends or stops at a step which did not succeed.
LEMMA StopInvariant ==
    ASSUME IInv, NEW i \in todo,
           \/ StepUnclear(i) \/ StepAsks(i)
           \/ \E request \in Requests : GiveUp(i, request) \/ LimitReached(i, request)
    PROVE  IInv'
  <1>1. /\ UNCHANGED <<active, todo, completed, seen, retries, attempts>>
        /\ status' \in Statuses \ {"running", "completed"}
    BY DEF StepUnclear, StepAsks, GiveUp, LimitReached, Statuses
  <1>2. AttemptsDiffer' /\ AttemptsAreSeen' /\ RestIsDone'
    BY <1>1 DEF IInv, AttemptsDiffer, AttemptsAreSeen, RestIsDone
  <1>3. CASE StepAsks(i)
    BY <1>1, <1>2, <1>3 DEF StepAsks, IInv, TypeOK, NothingIsRepeated, CompletedIsRecorded,
       TodoIsNew
  <1>4. ASSUME NEW result \in {"failed", "unclear"}, Executes(i, result),
               executed' = Result(i, result)
        PROVE  IInv'
    BY <1>1, <1>2, <1>4, FurtherResult DEF IInv
  <1> QED
    BY <1>3, <1>4 DEF StepUnclear, GiveUp, LimitReached

\* Another attempt: what was completed is left out, unless it is to be repeated.
LEMMA RetryInvariant ==
    ASSUME IInv, NEW i \in todo, NEW request \in Requests, Retry(i, request)
    PROVE  IInv'
  <1> DEFINE last == Len(executed) + 1
             entry == [attempt |-> Len(attempts), step |-> active[i], status |-> "failed"]
             plan == Normalized(request)
             run == Runnable(plan, completed)
  <1>1. /\ DOMAIN executed' = DOMAIN executed \cup {last} /\ last \notin DOMAIN executed
        /\ executed'[last] = entry
        /\ \A m \in DOMAIN executed : executed'[m] = executed[m]
        /\ active[i] \in PlanSteps
    BY NextResult DEF IInv, Retry
  <1>2. /\ active' = plan /\ todo' = run /\ completed' = completed /\ status' = status
        /\ seen' = seen \cup {Signature(plan, run)} /\ Signature(plan, run) \notin seen
        /\ attempts' = Append(attempts, Signature(plan, run))
        /\ retries' = retries + 1 /\ retries < MaxRetries
        /\ executed' = Result(i, "failed") /\ status = "running"
    BY DEF Retry, Executes
  <1>3. plan \in Seq(PlanSteps) /\ run \subseteq DOMAIN plan
    BY RequestAssumption, NormalizedIsPlan DEF Runnable
  <1>4. \A k \in DOMAIN plan : plan[k] \in PlanSteps
    BY <1>3
  <1> HIDE DEF last, plan, run
  <1>5. executed' \in Seq(Results)
    BY <1>1, <1>2 DEF IInv, TypeOK, Result, Results
  <1>6. \A m \in DOMAIN executed' : executed'[m] \in Results
    BY <1>5
  <1>7. /\ Len(attempts) \in Nat /\ Len(attempts') = Len(attempts) + 1
        /\ \A m \in DOMAIN executed : executed[m].attempt <= Len(attempts)
        /\ \A m \in DOMAIN executed' : executed'[m].attempt <= Len(attempts)
    BY <1>1, <1>2 DEF IInv, AttemptsAreSeen, TodoIsNew
  <1>8. TypeOK'
    BY <1>2, <1>3, <1>5, RetryAssumption DEF IInv, TypeOK, Results
  <1>9. NothingIsRepeated'
    <2>1. ASSUME NEW m \in DOMAIN executed', NEW n \in DOMAIN executed',
                 executed'[m].attempt < executed'[n].attempt, executed'[m].status = "ok",
                 SameWork(executed'[m].step, executed'[n].step)
          PROVE  executed'[m].step.repeat \/ executed'[n].step.repeat
      <3>1. m # last
        BY <1>1, <2>1
      <3>2. CASE n = last
        BY <1>1, <2>1, <3>1, <3>2 DEF IInv, TodoIsNew
      <3>3. CASE n # last
        BY <1>1, <2>1, <3>1, <3>3 DEF IInv, NothingIsRepeated
      <3> QED
        BY <3>2, <3>3
    <2> QED
      BY <2>1 DEF NothingIsRepeated
  <1>10. CompletedIsRecorded'
    BY <1>1, <1>2 DEF IInv, CompletedIsRecorded
  <1>11. TodoIsNew'
    <2>1. ASSUME NEW k \in run, NEW m \in DOMAIN executed', executed'[m].status = "ok",
                 SameWork(executed'[m].step, plan[k]),
                 ~executed'[m].step.repeat, ~plan[k].repeat
          PROVE  FALSE
      <3>1. Identity(executed'[m].step) \in completed
        BY <1>2, <1>10, <2>1 DEF CompletedIsRecorded
      <3>2. Identity(plan[k]) \notin completed
        BY <1>3, <2>1 DEF run, Runnable
      <3>3. executed'[m].step \in PlanSteps /\ plan[k] \in PlanSteps
        BY <1>3, <1>4, <1>6 DEF Results
      <3> QED
        BY <2>1, <3>1, <3>2, <3>3, IdentityType
    <2>2. \A m \in DOMAIN executed' : executed'[m].attempt <= Len(attempts')
      BY <1>6, <1>7 DEF Results
    <2> QED
      BY <1>2, <2>1, <2>2 DEF TodoIsNew
  <1>12. RestIsDone'
    <2>1. ASSUME NEW k \in DOMAIN plan, k \notin run
          PROVE  \E m \in DOMAIN executed' :
                     SameWork(executed'[m].step, plan[k]) /\ executed'[m].status = "ok"
      <3>1. Identity(plan[k]) \in completed
        BY <2>1 DEF run, Runnable
      <3>2. PICK m \in DOMAIN executed' :
                Identity(executed'[m].step) = Identity(plan[k]) /\ executed'[m].status = "ok"
        BY <1>2, <1>10, <3>1 DEF CompletedIsRecorded
      <3>3. executed'[m].step \in PlanSteps /\ plan[k] \in PlanSteps
        BY <1>4, <1>6 DEF Results
      <3> QED
        BY <3>2, <3>3, IdentityType
    <2> QED
      BY <1>2, <2>1 DEF RestIsDone
  <1>13. AttemptsDiffer' /\ AttemptsAreSeen'
    <2>1. /\ attempts \in Seq(seen)
          /\ \A m, n \in DOMAIN attempts : attempts[m] = attempts[n] => m = n
      BY DEF IInv, AttemptsDiffer, AttemptsAreSeen
    <2>2. attempts' \in Seq(seen')
      BY <1>2, <2>1
    <2>3. AttemptsDiffer'
      BY <1>2, <2>1 DEF AttemptsDiffer
    <2> QED
      BY <1>2, <2>2, <2>3 DEF AttemptsAreSeen
  <1> QED
    BY <1>8, <1>9, <1>10, <1>11, <1>12, <1>13 DEF IInv

\* A run that is done.
LEMMA CompleteInvariant == ASSUME IInv, Complete PROVE IInv'
  BY DEF Complete, IInv, TypeOK, Statuses, NothingIsRepeated, AttemptsDiffer,
     CompletedIsRecorded, TodoIsNew, RestIsDone, AttemptsAreSeen

\* A step of the system keeps the invariant.
LEMMA StepInvariant == IInv /\ [Next]_vars => IInv'
  <1> SUFFICES ASSUME IInv, [Next]_vars PROVE IInv'
    OBVIOUS
  <1>1. CASE \E plan \in {DebugPlan, ReviewPlan} : Start(plan)
    BY <1>1, StartInvariant
  <1>2. CASE RunOn
    <2>1. CASE Complete
      BY <2>1, CompleteInvariant
    <2>2. ASSUME NEW i \in todo, StepOk(i) PROVE IInv'
      BY <2>2, StepOkInvariant
    <2>3. ASSUME NEW i \in todo, StepUnclear(i) \/ StepAsks(i) PROVE IInv'
      BY <2>3, StopInvariant
    <2>4. ASSUME NEW i \in todo, NEW request \in Requests,
                 GiveUp(i, request) \/ LimitReached(i, request)
          PROVE  IInv'
      BY <2>4, StopInvariant
    <2>5. ASSUME NEW i \in todo, NEW request \in Requests, Retry(i, request) PROVE IInv'
      BY <2>5, RetryInvariant
    <2> QED
      BY <1>2, <2>1, <2>2, <2>3, <2>4, <2>5 DEF RunOn
  <1>3. CASE UNCHANGED vars
    BY <1>3 DEF vars, IInv, TypeOK, NothingIsRepeated, AttemptsDiffer, CompletedIsRecorded,
       TodoIsNew, RestIsDone, AttemptsAreSeen
  <1> QED
    BY <1>1, <1>2, <1>3 DEF Next

-----------------------------------------------------------------------------
\* The invariant holds in every reachable state (ExecutionEngine.run).
THEOREM Invariance == Spec => []IInv
  BY InitInvariant, StepInvariant, PTL DEF Spec

\* The state keeps its types, whatever plans the reflection asks for (ExecutionState).
THEOREM TypeCorrect == Spec => []TypeOK
  <1>1. IInv => TypeOK
    BY DEF IInv
  <1> QED
    BY <1>1, Invariance, PTL

\* What succeeded is not done again unless somebody wants it repeated
\* (_skip_completed_steps, _step_identity).
THEOREM CompletedIsNotRepeated == Spec => []NothingIsRepeated
  <1>1. IInv => NothingIsRepeated
    BY DEF IInv
  <1> QED
    BY <1>1, Invariance, PTL

\* No plan is tried twice in a run (seen_plans).
THEOREM RetriesDiffer == Spec => []AttemptsDiffer
  <1>1. IInv => AttemptsDiffer
    BY DEF IInv
  <1> QED
    BY <1>1, Invariance, PTL

\* A completed run has done every step of its last plan, now or before (run).
THEOREM CompletedPlansAreDone == Spec => []CompletedIsWhole
  <1>1. IInv => CompletedIsWhole
    BY DEF IInv, CompletedIsWhole, RestIsDone, AttemptsAreSeen
  <1> QED
    BY <1>1, Invariance, PTL
-----------------------------------------------------------------------------
\* Each step of a run ends it, or settles a step of its plan, or uses up one of the retries;
\* only a retry gives it steps to do again (run).
RunIsShort ==
    [][ status = "running" =>
          \/ status' # "running"
          \/ /\ todo' \subseteq todo /\ todo' # todo
             /\ active' = active /\ retries' = retries
          \/ retries' = retries + 1 /\ retries' <= MaxRetries ]_vars

\* No run goes on for ever: its plans are finite and its retries are counted, whatever plans
\* the reflection asks for (run, MAX_RETRIES): RunEnds, given that its steps are taken.
THEOREM RunsAreBounded == Spec => RunIsShort
  <1>1. IInv /\ [Next]_vars =>
            [status = "running" =>
                \/ status' # "running"
                \/ /\ todo' \subseteq todo /\ todo' # todo
                   /\ active' = active /\ retries' = retries
                \/ retries' = retries + 1 /\ retries' <= MaxRetries]_vars
    <2> SUFFICES ASSUME IInv, Next, status = "running", status' = "running"
                 PROVE  \/ /\ todo' \subseteq todo /\ todo' # todo
                           /\ active' = active /\ retries' = retries
                        \/ retries' = retries + 1 /\ retries' <= MaxRetries
      OBVIOUS
    <2>1. PICK i \in todo :
              \/ StepOk(i)
              \/ \E request \in Requests : Retry(i, request)
      BY DEF Next, RunOn, Start, Complete, StepUnclear, StepAsks, GiveUp, LimitReached
    <2>2. CASE StepOk(i)
      BY <2>1, <2>2 DEF StepOk
    <2>3. ASSUME NEW request \in Requests, Retry(i, request)
          PROVE  retries' = retries + 1 /\ retries' <= MaxRetries
      <3>1. retries < MaxRetries /\ retries' = retries + 1
        BY <2>3 DEF Retry
      <3> QED
        BY <3>1, RetryAssumption DEF IInv, TypeOK
    <2> QED
      BY <2>1, <2>2, <2>3
  <1> QED
    BY <1>1, Invariance, PTL DEF Spec, RunIsShort
=============================================================================
