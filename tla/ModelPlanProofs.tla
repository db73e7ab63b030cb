-------------------------- MODULE ModelPlanProofs --------------------------
(***************************************************************************)
(* Proofs about the boundary between a model and the engine.  A catalog    *)
(* that restricts another lets nothing through that the other would not.   *)
(* The order in which the steps of a plan run respects every dependency,   *)
(* and the two checks for cycles find exactly those that there are; so     *)
(* what is adapted is a plan that the engine's own validation takes, and   *)
(* a plan it takes is one that WorkflowEngine is about.  For any catalogs, *)
(* contracts, decisions and plans, of any length.                          *)
(***************************************************************************)
EXTENDS ModelPlan, TLAPS, FiniteSetTheorems, SequenceTheorems, WellFoundedInduction

\* The bounds of a rule are numbers, as are those of a contract.
Bounded(rule) == rule.least \subseteq Int /\ rule.most \subseteq Int
BoundedContract(contract) == \A name \in DOMAIN contract : Bounded(contract[name])
BoundedCatalog(catalog) == \A operation \in DOMAIN catalog : BoundedContract(catalog[operation])
Sized(args) == \A name \in DOMAIN args : args[name].size \in Int

\* A narrower rule accepts less (ModelArgumentContract.accepts).
LEMMA NarrowerRuleAcceptsLess ==
    ASSUME NEW rule, NEW base, Bounded(rule), Bounded(base), NarrowerRule(rule, base),
           NEW value, value.size \in Int, Accepts(rule, value)
    PROVE  Accepts(base, value)
  <1>1. rule.kind = base.kind /\ Kinds(rule) = Kinds(base)
    BY DEF NarrowerRule, Kinds
  <1>2. ASSUME NEW low \in base.least PROVE low <= value.size
    <2>1. PICK own \in rule.least : own >= low
      BY DEF NarrowerRule
    <2>2. own <= value.size
      BY DEF Accepts
    <2>3. low \in Int /\ own \in Int
      BY DEF Bounded
    <2> QED
      BY <2>1, <2>2, <2>3
  <1>3. ASSUME NEW high \in base.most PROVE value.size <= high
    <2>1. PICK own \in rule.most : own <= high
      BY DEF NarrowerRule
    <2>2. value.size <= own
      BY DEF Accepts
    <2>3. high \in Int /\ own \in Int
      BY DEF Bounded
    <2> QED
      BY <2>1, <2>2, <2>3
  <1> QED
    BY <1>1, <1>2, <1>3 DEF Accepts

\* Arguments that a restriction of a contract admits are admitted by the contract: whatever
\* _contract_is_restriction lets pass, a restriction never widens what a model may ask for
\* (_arguments_match).
THEOREM RestrictionIsSound ==
    ASSUME NEW contract, NEW base, BoundedContract(contract), BoundedContract(base),
           NarrowerContract(contract, base),
           NEW args, Sized(args), ArgumentsMatch(contract, args)
    PROVE  ArgumentsMatch(base, args)
  <1>1. DOMAIN args \subseteq DOMAIN contract /\ DOMAIN contract \subseteq DOMAIN base
    BY DEF ArgumentsMatch, NarrowerContract
  <1>2. ASSUME NEW name \in RequiredNames(base) PROVE name \in DOMAIN args
    <2>1. name \in DOMAIN contract /\ contract[name].required
      BY DEF NarrowerContract, NarrowerRule, RequiredNames
    <2> QED
      BY <2>1 DEF ArgumentsMatch, RequiredNames
  <1>3. ASSUME NEW name \in DOMAIN args PROVE Accepts(base[name], args[name])
    <2>1. /\ Bounded(contract[name]) /\ Bounded(base[name])
          /\ NarrowerRule(contract[name], base[name])
          /\ args[name].size \in Int /\ Accepts(contract[name], args[name])
      BY <1>1 DEF BoundedContract, NarrowerContract, Sized, ArgumentsMatch
    <2> QED
      BY <2>1, NarrowerRuleAcceptsLess
  <1> QED
    BY <1>1, <1>2, <1>3 DEF ArgumentsMatch

\* With a catalog that was admitted against another one, a model can get only those plans
\* adapted that it could with the other (_copy_catalog, ModelPlanAdapter.adapt).
THEOREM AdmittedCatalogsAddNothing ==
    ASSUME NEW catalog, NEW safe, BoundedCatalog(catalog), BoundedCatalog(safe),
           AdmittedCatalog(catalog, safe),
           NEW decision, NEW limits, NEW wellFormedTest,
           \A i \in DOMAIN decision.steps : Sized(decision.steps[i].args),
           Adaptable(decision, catalog, limits, wellFormedTest)
    PROVE  Adaptable(decision, safe, limits, wellFormedTest)
  <1>1. ASSUME NEW i \in DOMAIN decision.steps
        PROVE  AdaptableStep(decision.steps[i], safe, wellFormedTest)
    <2> DEFINE step == decision.steps[i]
               operation == <<step.tool, step.action>>
    <2>1. AdaptableStep(step, catalog, wellFormedTest)
      BY DEF Adaptable
    <2>2. /\ operation \in DOMAIN catalog /\ ArgumentsMatch(catalog[operation], step.args)
          /\ Sized(step.args)
      BY <2>1 DEF AdaptableStep
    <2> HIDE DEF operation, step
    <2>3. /\ operation \in DOMAIN safe
          /\ NarrowerContract(catalog[operation], safe[operation])
          /\ BoundedContract(catalog[operation]) /\ BoundedContract(safe[operation])
      BY <2>2 DEF AdmittedCatalog, BoundedCatalog
    <2>4. ArgumentsMatch(safe[operation], step.args)
      BY <2>2, <2>3, RestrictionIsSound
    <2> QED
      BY <2>1, <2>3, <2>4 DEF operation, step, AdaptableStep
  <1> QED
    BY <1>1 DEF Adaptable

\* What a decision that is validated says of its steps.
LEMMA ValidatedSteps ==
    ASSUME NEW decision, NEW limits, Validation(decision, limits) = "ok"
    PROVE  /\ \A i \in DOMAIN decision.steps : ValidModelStep(decision.steps[i])
           /\ KnownDependencies(decision.steps)
  BY DEF Validation

\* A plan that was adapted is well formed: ids are unique, every tool is one of the catalog,
\* every dependency is a step of the plan and not the step itself, and no argument is both
\* given and bound.  So the adapter's own check of the plan can only find a cycle
\* (ModelPlanAdapter.adapt, WorkflowPlan.validate).
THEOREM AdaptedPlansAreWellFormed ==
    ASSUME NEW decision, NEW catalog, NEW limits, NEW wellFormedTest,
           Adaptable(decision, catalog, limits, wellFormedTest)
    PROVE  WellFormedPlan(AdaptedPlan(decision), Tools(catalog))
  <1> DEFINE steps == decision.steps
             plan == AdaptedPlan(decision)
  <1>1. /\ \A i \in DOMAIN steps : ValidModelStep(steps[i])
        /\ KnownDependencies(steps)
    BY ValidatedSteps DEF Adaptable
  <1>2. /\ DOMAIN plan = DOMAIN steps
        /\ \A i \in DOMAIN steps : plan[i] = AdaptedStep(steps[i])
    BY DEF AdaptedPlan
  <1> HIDE DEF steps, plan
  <1>3. ASSUME NEW i \in DOMAIN steps
        PROVE  /\ plan[i].id = steps[i].id /\ plan[i].tool = steps[i].tool
               /\ plan[i].depends_on = steps[i].depends_on
               /\ DOMAIN plan[i].bindings = {}
    BY <1>2 DEF AdaptedStep
  <1>4. ASSUME NEW i \in DOMAIN steps PROVE Dependencies(plan[i]) = ToSet(steps[i].depends_on)
    BY <1>3 DEF Dependencies, Sources
  <1>5. Ids(plan) = {steps[i].id : i \in DOMAIN steps}
    BY <1>2, <1>3 DEF Ids
  <1>6. \A i, j \in DOMAIN plan : plan[i].id = plan[j].id => i = j
    BY <1>1, <1>2, <1>3 DEF KnownDependencies
  <1>7. ASSUME NEW i \in DOMAIN plan
        PROVE  /\ WellFormedStep(plan[i]) /\ plan[i].tool \in Tools(catalog)
               /\ plan[i].id \notin Dependencies(plan[i])
               /\ Dependencies(plan[i]) \subseteq Ids(plan)
    <2>1. WellFormedStep(plan[i])
      BY <1>1, <1>2, <1>3 DEF WellFormedStep, ValidModelStep
    <2>2. plan[i].tool \in Tools(catalog)
      <3>1. AdaptableStep(steps[i], catalog, wellFormedTest)
        BY <1>2 DEF Adaptable, steps
      <3>2. <<steps[i].tool, steps[i].action>> \in DOMAIN catalog
        BY <3>1 DEF AdaptableStep
      <3> QED
        BY <1>2, <1>3, <3>2 DEF Tools
    <2>3. plan[i].id \notin Dependencies(plan[i])
      BY <1>1, <1>2, <1>3, <1>4 DEF ValidModelStep
    <2>4. Dependencies(plan[i]) \subseteq Ids(plan)
      BY <1>1, <1>2, <1>4, <1>5 DEF KnownDependencies
    <2> QED
      BY <2>1, <2>2, <2>3, <2>4
  <1> QED
    BY <1>6, <1>7 DEF WellFormedPlan, plan

-----------------------------------------------------------------------------
(* Numbers and recursion.  The well-founded order of the naturals gives    *)
(* induction in the form of sets, and with it that a function defined by   *)
(* recursion over 0..n satisfies its equation.                             *)

\* A set of numbers has a least one.
LEMMA LeastNumber ==
    ASSUME NEW S \in SUBSET Nat, S # {}
    PROVE  \E least \in S : \A other \in S : least <= other
  <1> DEFINE R == OpToRel(<, Nat)
  <1>1. IsWellFoundedOn(R, Nat)
    BY NatLessThanWellFounded
  <1>2. \A x, y \in Nat : <<x, y>> \in R <=> x < y
    BY DEF OpToRel
  <1> HIDE DEF R
  <1>3. PICK least \in S : \A other \in S : <<other, least>> \notin R
    BY <1>1, WFMin
  <1>4. \A other \in S : ~(other < least)
    BY <1>2, <1>3
  <1> QED
    BY <1>4

\* Induction up to n, over a set of numbers.
LEMMA InductionUpTo ==
    ASSUME NEW n \in Nat, NEW S, 0 \in S, \A r \in 0..(n - 1) : r \in S => r + 1 \in S
    PROVE  \A r \in 0..n : r \in S
  <1> DEFINE T == (0..n) \ S
  <1> SUFFICES ASSUME T # {} PROVE FALSE
    OBVIOUS
  <1>1. PICK least \in T : \A other \in T : least <= other
    <2>1. T \in SUBSET Nat
      OBVIOUS
    <2> HIDE DEF T
    <2> QED
      BY <2>1, LeastNumber
  <1>2. least \in 0..n /\ least \notin S /\ least # 0
    BY <1>1
  <1>3. least - 1 \in 0..(n - 1) /\ least - 1 \notin T
    BY <1>1, <1>2
  <1>4. least - 1 \in S
    BY <1>2, <1>3
  <1>5. (least - 1) + 1 = least
    BY <1>2
  <1> QED
    BY <1>2, <1>3, <1>4, <1>5

\* f iterates step from zero, n times, within V.
Iterates(f, n, V, zero, step) ==
    /\ f \in [0..n -> V]
    /\ \A r \in 0..n : f[r] = IF r = 0 THEN zero ELSE step[f[r - 1]]

\* Every step within a set can be iterated.
LEMMA IterationExists ==
    ASSUME NEW n \in Nat, NEW V, NEW zero \in V, NEW step \in [V -> V]
    PROVE  \E f : Iterates(f, n, V, zero, step)
  <1> DEFINE S == {m \in 0..n : \E f : Iterates(f, m, V, zero, step)}
  <1>1. 0 \in S
    <2>1. Iterates([r \in 0..0 |-> zero], 0, V, zero, step)
      BY DEF Iterates
    <2> QED
      BY <2>1
  <1>2. ASSUME NEW m \in 0..(n - 1), m \in S PROVE m + 1 \in S
    <2>1. PICK f : Iterates(f, m, V, zero, step)
      BY <1>2
    <2> DEFINE g == [r \in 0..(m + 1) |-> IF r = m + 1 THEN step[f[m]] ELSE f[r]]
    <2>2. g \in [0..(m + 1) -> V]
      BY <2>1 DEF Iterates
    <2>3. ASSUME NEW r \in 0..(m + 1)
          PROVE  g[r] = IF r = 0 THEN zero ELSE step[g[r - 1]]
      BY <2>1 DEF Iterates
    <2>4. Iterates(g, m + 1, V, zero, step)
      BY <2>2, <2>3 DEF Iterates
    <2>5. m + 1 \in 0..n
      OBVIOUS
    <2> HIDE DEF g
    <2> QED
      BY <2>4, <2>5
  <1>3. n \in S
    <2> HIDE DEF S
    <2> QED
      BY <1>1, <1>2, InductionUpTo
  <1> QED
    BY <1>3

-----------------------------------------------------------------------------
(* The positions in order, and what one round of the order adds.           *)

\* InOrder enumerates its set: each member once, and smaller ones first.
LEMMA InOrderFacts ==
    ASSUME NEW S \in SUBSET Nat, IsFiniteSet(S)
    PROVE  /\ InOrder(S) \in [1..Cardinality(S) -> S]
           /\ InOrder(S) \in Seq(S) /\ Len(InOrder(S)) = Cardinality(S)
           /\ Cardinality(S) \in Nat
           /\ \A j, k \in 1..Cardinality(S) : InOrder(S)[j] = InOrder(S)[k] => j = k
           /\ \A i \in S : \E k \in 1..Cardinality(S) : InOrder(S)[k] = i
           /\ \A j, k \in 1..Cardinality(S) : j < k => InOrder(S)[j] < InOrder(S)[k]
  <1> DEFINE n == Cardinality(S)
             rank(i) == Cardinality(Below(i, S))
  <1>1. n \in Nat
    BY FS_CardinalityType
  <1>2. ASSUME NEW i \in S
        PROVE  /\ IsFiniteSet(Below(i, S)) /\ rank(i) \in Nat /\ rank(i) < n
    <2>1. Below(i, S) \in SUBSET S /\ i \notin Below(i, S)
      BY DEF Below
    <2>2. IsFiniteSet(Below(i, S)) /\ rank(i) <= n /\ (n = rank(i) => S = Below(i, S))
      BY <2>1, FS_Subset
    <2>3. rank(i) \in Nat
      BY <2>2, FS_CardinalityType
    <2> QED
      BY <1>1, <2>1, <2>2, <2>3
  <1>3. ASSUME NEW i \in S, NEW j \in S, i < j PROVE rank(i) < rank(j)
    <2> i \in Nat /\ j \in Nat
      OBVIOUS
    <2>1. \A k \in Below(i, S) : k \in S /\ k < j
      BY <1>3 DEF Below
    <2>2. Below(i, S) \in SUBSET Below(j, S) /\ i \in Below(j, S) /\ i \notin Below(i, S)
      <3>1. Below(i, S) \subseteq Below(j, S)
        BY <2>1 DEF Below
      <3>2. i \in Below(j, S)
        BY <1>3 DEF Below
      <3>3. i \notin Below(i, S)
        BY DEF Below
      <3> QED
        BY <3>1, <3>2, <3>3
    <2>3. rank(i) <= rank(j) /\ (rank(j) = rank(i) => Below(j, S) = Below(i, S))
      BY <2>2, <1>2, FS_Subset
    <2> QED
      BY <1>2, <2>2, <2>3
  <1>4. \A i, j \in S : rank(i) = rank(j) => i = j
    BY <1>2, <1>3
  <1> DEFINE f == [i \in S |-> rank(i) + 1]
  <1>5. f \in Injection(S, 1..n)
    <2>1. f \in [S -> 1..n]
      BY <1>1, <1>2
    <2>2. \A i, j \in S : f[i] = f[j] => i = j
      BY <1>2, <1>4
    <2> QED
      BY <2>1, <2>2 DEF Injection, IsInjective
  <1>6. f \in Surjection(S, 1..n)
    <2>1. IsFiniteSet(1..n) /\ Cardinality(1..n) = n
      BY <1>1, FS_Interval
    <2> HIDE DEF f
    <2> QED
      BY <1>5, <2>1, FS_Injection
  <1>7. ASSUME NEW k \in 1..n PROVE \E i \in S : rank(i) = k - 1
    <2>1. PICK i \in S : f[i] = k
      BY <1>6 DEF Surjection
    <2> QED
      BY <1>2, <2>1
  <1>8. ASSUME NEW k \in 1..n
        PROVE  InOrder(S)[k] \in S /\ rank(InOrder(S)[k]) = k - 1
    BY <1>7 DEF InOrder
  <1>9. InOrder(S) \in [1..n -> S]
    BY <1>8 DEF InOrder
  <1>10. \A j, k \in 1..n : InOrder(S)[j] = InOrder(S)[k] => j = k
    BY <1>8
  <1>11. ASSUME NEW i \in S PROVE \E k \in 1..n : InOrder(S)[k] = i
    <2>1. rank(i) + 1 \in 1..n
      BY <1>1, <1>2
    <2>2. rank(InOrder(S)[rank(i) + 1]) = rank(i) /\ InOrder(S)[rank(i) + 1] \in S
      BY <1>2, <1>8, <2>1
    <2> QED
      BY <1>4, <2>1, <2>2
  <1>12. ASSUME NEW j \in 1..n, NEW k \in 1..n, j < k PROVE InOrder(S)[j] < InOrder(S)[k]
    <2>1. /\ InOrder(S)[j] \in S /\ InOrder(S)[k] \in S
          /\ rank(InOrder(S)[j]) < rank(InOrder(S)[k])
      BY <1>8, <1>12
    <2>2. \A a, b \in S : rank(a) < rank(b) => a < b
      BY <1>2, <1>3
    <2> HIDE DEF rank
    <2> QED
      BY <2>1, <2>2
  <1> QED
    BY <1>1, <1>9, <1>10, <1>11, <1>12

\* The steps that a round adds.
ReadySteps(plan, done) ==
    {i \in DOMAIN plan :
        /\ i \notin ToSet(done)
        /\ Dependencies(plan[i]) \subseteq {plan[j].id : j \in ToSet(done)}}

\* A round adds each step that is ready once, and no other (WorkflowPlan.execution_order).
LEMMA ReadyFacts ==
    ASSUME NEW T, NEW plan \in Seq(T), NEW done \in Seq(DOMAIN plan)
    PROVE  /\ Ready(plan, done) \in Seq(DOMAIN plan)
           /\ \A j, k \in DOMAIN Ready(plan, done) :
                  Ready(plan, done)[j] = Ready(plan, done)[k] => j = k
           /\ \A k \in DOMAIN Ready(plan, done) :
                  Ready(plan, done)[k] \in ReadySteps(plan, done)
           /\ \A i \in ReadySteps(plan, done) :
                  \E k \in DOMAIN Ready(plan, done) : Ready(plan, done)[k] = i
  <1> DEFINE S == ReadySteps(plan, done)
  <1>1. DOMAIN plan = 1..Len(plan) /\ Len(plan) \in Nat
    BY LenProperties
  <1>2. S \in SUBSET DOMAIN plan
    BY DEF ReadySteps
  <1>3. S \in SUBSET Nat /\ IsFiniteSet(S)
    <2> HIDE DEF S
    <2>1. IsFiniteSet(1..Len(plan))
      BY <1>1, FS_Interval
    <2>2. S \in SUBSET (1..Len(plan)) /\ S \subseteq Nat
      BY <1>1, <1>2
    <2>3. IsFiniteSet(S)
      BY <2>1, <2>2, FS_Subset
    <2> QED
      BY <2>2, <2>3
  <1>4. Ready(plan, done) = InOrder(S)
    BY DEF Ready, ReadySteps
  <1> HIDE DEF S
  <1>5. /\ InOrder(S) \in Seq(S) /\ DOMAIN InOrder(S) = 1..Cardinality(S)
        /\ InOrder(S) \in [1..Cardinality(S) -> S]
    BY <1>3, InOrderFacts
  <1>6. InOrder(S) \in Seq(DOMAIN plan)
    BY <1>2, <1>5, SeqMonotonic
  <1> QED
    BY <1>3, <1>4, <1>5, <1>6, InOrderFacts DEF S

\* The rounds are what their recursion says.
LEMMA RoundsDefined ==
    ASSUME NEW T, NEW plan \in Seq(T)
    PROVE  \A r \in 0..Len(plan) :
               Rounds(plan)[r] = IF r = 0 THEN <<>>
                                 ELSE Rounds(plan)[r - 1] \o Ready(plan, Rounds(plan)[r - 1])
  <1> DEFINE n == Len(plan)
             V == Seq(DOMAIN plan)
             step == [done \in V |-> done \o Ready(plan, done)]
             Solves(f) ==
                 f = [rounds \in 0..n |->
                         IF rounds = 0 THEN <<>>
                         ELSE f[rounds - 1] \o Ready(plan, f[rounds - 1])]
  <1>1. n \in Nat /\ <<>> \in V
    BY LenProperties, EmptySeq
  <1>2. step \in [V -> V]
    <2>1. ASSUME NEW done \in V PROVE done \o Ready(plan, done) \in V
      BY ReadyFacts, ConcatProperties
    <2> QED
      BY <2>1
  <1>3. \E f : Solves(f)
    <2>0. PICK f : Iterates(f, n, V, <<>>, step)
      <3> HIDE DEF n, V, step
      <3> QED
        BY <1>1, <1>2, IterationExists
    <2> HIDE DEF V, step
    <2>1. /\ f \in [0..n -> V]
          /\ \A r \in 0..n : f[r] = IF r = 0 THEN <<>> ELSE step[f[r - 1]]
      BY <2>0 DEF Iterates
    <2>2. ASSUME NEW r \in 0..n
          PROVE  f[r] = IF r = 0 THEN <<>> ELSE f[r - 1] \o Ready(plan, f[r - 1])
      <3>1. CASE r = 0
        BY <2>1, <3>1
      <3>2. CASE r # 0
        <4>1. r - 1 \in 0..n /\ f[r - 1] \in V
          BY <1>1, <2>1, <3>2
        <4>2. step[f[r - 1]] = f[r - 1] \o Ready(plan, f[r - 1])
          BY <4>1 DEF step
        <4> QED
          BY <2>1, <3>2, <4>2
      <3> QED
        BY <3>1, <3>2
    <2>3. Solves(f)
      BY <2>1, <2>2
    <2> QED
      BY <2>3
  <1>4. Solves(Rounds(plan))
    BY <1>3 DEF Rounds
  <1> QED
    BY <1>4

-----------------------------------------------------------------------------
(* What the rounds compute.                                                *)

\* An order of some of the steps, none of them twice, in which each comes after the steps it
\* depends on.
DependenciesFirst(plan, order) ==
    /\ order \in Seq(DOMAIN plan) /\ IsInjective(order)
    /\ \A k \in DOMAIN order : \A d \in Dependencies(plan[order[k]]) :
          \E j \in DOMAIN order : j < k /\ plan[order[j]].id = d

\* A round keeps the order sound.
LEMMA RoundKeepsDependenciesFirst ==
    ASSUME NEW T, NEW plan \in Seq(T), NEW done, DependenciesFirst(plan, done)
    PROVE  DependenciesFirst(plan, done \o Ready(plan, done))
  <1> DEFINE new == Ready(plan, done)
             order == done \o new
  <1>1. done \in Seq(DOMAIN plan)
    BY DEF DependenciesFirst
  <1>2. new \in Seq(DOMAIN plan)
    BY <1>1, ReadyFacts
  <1>3. ASSUME NEW k \in DOMAIN new
        PROVE  /\ new[k] \in DOMAIN plan
               /\ \A j \in DOMAIN done : done[j] # new[k]
               /\ \A d \in Dependencies(plan[new[k]]) :
                     \E j \in DOMAIN done : plan[done[j]].id = d
    <2>1. new[k] \in ReadySteps(plan, done)
      BY <1>1, <1>3, ReadyFacts
    <2> QED
      BY <2>1 DEF ReadySteps, ToSet
  <1>4. \A j, k \in DOMAIN new : new[j] = new[k] => j = k
    BY <1>1, ReadyFacts
  <1> HIDE DEF new
  <1>5. /\ Len(done) \in Nat /\ Len(new) \in Nat /\ Len(order) = Len(done) + Len(new)
        /\ DOMAIN done = 1..Len(done) /\ DOMAIN new = 1..Len(new)
        /\ DOMAIN order = 1..Len(order) /\ order \in Seq(DOMAIN plan)
    BY <1>1, <1>2, ConcatProperties, LenProperties
  <1>6. \A k \in DOMAIN done : k \in DOMAIN order /\ order[k] = done[k]
    BY <1>1, <1>2, <1>5, ConcatProperties
  <1>7. \A k \in DOMAIN order : k \notin DOMAIN done =>
            k - Len(done) \in DOMAIN new /\ order[k] = new[k - Len(done)]
    BY <1>1, <1>2, <1>5, ConcatProperties
  <1> HIDE DEF order
  <1>8. ASSUME NEW j \in DOMAIN order, NEW k \in DOMAIN order, order[j] = order[k], j < k
        PROVE  FALSE
    <2>1. CASE k \in DOMAIN done
      <3>1. j \in DOMAIN done
        BY <1>5, <1>8, <2>1
      <3> QED
        BY <1>5, <1>6, <1>8, <2>1, <3>1 DEF DependenciesFirst, IsInjective
    <2>2. CASE k \notin DOMAIN done /\ j \in DOMAIN done
      BY <1>3, <1>6, <1>7, <1>8, <2>2
    <2>3. CASE k \notin DOMAIN done /\ j \notin DOMAIN done
      <3>1. j - Len(done) = k - Len(done)
        BY <1>4, <1>7, <1>8, <2>3
      <3> QED
        BY <1>5, <1>8, <3>1
    <2> QED
      BY <2>1, <2>2, <2>3
  <1>9. \A j, k \in DOMAIN order : order[j] = order[k] => j = k
    BY <1>5, <1>8
  <1>10. ASSUME NEW k \in DOMAIN order, NEW d \in Dependencies(plan[order[k]])
         PROVE  \E j \in DOMAIN order : j < k /\ plan[order[j]].id = d
    <2>1. CASE k \in DOMAIN done
      <3>1. PICK j \in DOMAIN done : j < k /\ plan[done[j]].id = d
        BY <1>6, <2>1 DEF DependenciesFirst
      <3> QED
        BY <1>6, <3>1
    <2>2. CASE k \notin DOMAIN done
      <3>0. /\ k - Len(done) \in DOMAIN new
            /\ d \in Dependencies(plan[new[k - Len(done)]])
        BY <1>7, <2>2
      <3>1. PICK j \in DOMAIN done : plan[done[j]].id = d
        BY <1>3, <3>0
      <3>2. j < k
        BY <1>5, <2>2, <3>1
      <3> QED
        BY <1>6, <3>1, <3>2
    <2> QED
      BY <2>1, <2>2
  <1> QED
    BY <1>5, <1>9, <1>10 DEF DependenciesFirst, IsInjective, order, new

\* So does every round; and each adds a step, unless none is left that is ready.
LEMMA EveryRound ==
    ASSUME NEW T, NEW plan \in Seq(T)
    PROVE  \A r \in 0..Len(plan) :
              /\ DependenciesFirst(plan, Rounds(plan)[r])
              /\ Ready(plan, Rounds(plan)[r]) = <<>> \/ Len(Rounds(plan)[r]) >= r
  <1> DEFINE n == Len(plan)
             R == Rounds(plan)
             S == {r \in 0..n : /\ DependenciesFirst(plan, R[r])
                                /\ Ready(plan, R[r]) = <<>> \/ Len(R[r]) >= r}
  <1>1. n \in Nat
    BY LenProperties
  <1>2. \A r \in 0..n : R[r] = IF r = 0 THEN <<>> ELSE R[r - 1] \o Ready(plan, R[r - 1])
    BY RoundsDefined
  <1> HIDE DEF n, R
  <1>3. 0 \in S
    <2>1. R[0] = <<>> /\ Len(<<>>) = 0 /\ DOMAIN <<>> = {} /\ <<>> \in Seq(DOMAIN plan)
      BY <1>1, <1>2, EmptySeq
    <2>2. DependenciesFirst(plan, R[0])
      BY <2>1 DEF DependenciesFirst, IsInjective
    <2> QED
      BY <1>1, <2>1, <2>2
  <1>4. ASSUME NEW r \in 0..(n - 1), r \in S PROVE r + 1 \in S
    <2>1. r + 1 \in 0..n /\ r + 1 # 0 /\ (r + 1) - 1 = r
      BY <1>1
    <2>2. R[r + 1] = R[r] \o Ready(plan, R[r])
      BY <1>2, <2>1
    <2>3. DependenciesFirst(plan, R[r])
      BY <1>4
    <2>4. DependenciesFirst(plan, R[r + 1])
      BY <2>2, <2>3, RoundKeepsDependenciesFirst
    <2>5. R[r] \in Seq(DOMAIN plan) /\ Ready(plan, R[r]) \in Seq(DOMAIN plan)
      BY <2>3, ReadyFacts DEF DependenciesFirst
    <2>6. CASE Ready(plan, R[r]) = <<>>
      <3>1. R[r + 1] = R[r]
        BY <2>2, <2>5, <2>6, ConcatEmptySeq
      <3> QED
        BY <2>1, <2>4, <2>6, <3>1
    <2>7. CASE Ready(plan, R[r]) # <<>>
      <3>1. Len(R[r]) >= r
        BY <1>4, <2>7
      <3>2. Len(Ready(plan, R[r])) # 0 /\ Len(Ready(plan, R[r])) \in Nat /\ Len(R[r]) \in Nat
        BY <2>5, <2>7, EmptySeq, LenProperties
      <3>3. Len(R[r + 1]) = Len(R[r]) + Len(Ready(plan, R[r]))
        BY <2>2, <2>5, ConcatProperties
      <3>4. Len(R[r + 1]) >= r + 1
        <4> DEFINE old == Len(R[r])
                   added == Len(Ready(plan, R[r]))
                   now == Len(R[r + 1])
        <4>1. old \in Nat /\ added \in Nat /\ added # 0 /\ now = old + added /\ old >= r /\ r \in Nat
          BY <1>1, <3>1, <3>2, <3>3
        <4> HIDE DEF old, added, now
        <4>2. now >= r + 1
          BY <4>1
        <4> QED
          BY <4>2 DEF now
      <3> QED
        BY <2>1, <2>4, <3>4
    <2> QED
      BY <2>6, <2>7
  <1>5. \A r \in 0..n : r \in S
    <2> HIDE DEF S
    <2> QED
      BY <1>1, <1>3, <1>4, InductionUpTo
  <1> QED
    BY <1>5 DEF n, R

\* How many numbers there are from 1 to n.
LEMMA IntervalCounts ==
    ASSUME NEW n \in Nat
    PROVE  IsFiniteSet(1..n) /\ Cardinality(1..n) = n
  BY FS_Interval

\* An order that repeats nothing is as long as the plan when it has every step of it.
LEMMA InjectiveOrders ==
    ASSUME NEW T, NEW plan \in Seq(T), NEW order \in Seq(DOMAIN plan), IsInjective(order)
    PROVE  /\ Len(order) \in Nat /\ Len(plan) \in Nat /\ Len(order) <= Len(plan)
           /\ Len(order) = Len(plan) <=> \A i \in DOMAIN plan : i \in ToSet(order)
  <1> DEFINE n == Len(plan)
             m == Len(order)
  <1>1. /\ n \in Nat /\ DOMAIN plan = 1..n
        /\ m \in Nat /\ DOMAIN order = 1..m
        /\ order \in [1..m -> 1..n]
    BY LenProperties
  <1>2. /\ IsFiniteSet(1..n) /\ Cardinality(1..n) = n
        /\ IsFiniteSet(1..m) /\ Cardinality(1..m) = m
    BY <1>1, IntervalCounts
  <1>3. order \in Injection(1..m, 1..n)
    BY <1>1 DEF Injection
  <1>4. m <= n /\ (m = n <=> order \in Surjection(1..m, 1..n))
    <2> HIDE DEF m, n
    <2> QED
      BY <1>2, <1>3, FS_Injection
  <1>5. order \in Surjection(1..m, 1..n) <=> \A i \in 1..n : i \in ToSet(order)
    BY <1>1 DEF Surjection, ToSet
  <1> QED
    BY <1>1, <1>4, <1>5

\* The order that execution_order computes for any plan: each step in it comes after all that
\* it depends on, none comes twice, no step that is left could still be added, and there is a
\* cycle exactly when a step is left (WorkflowPlan.execution_order).
THEOREM OrderIsSettled ==
    ASSUME NEW T, NEW plan \in Seq(T)
    PROVE  /\ DependenciesFirst(plan, ExecutionOrder(plan))
           /\ Ready(plan, ExecutionOrder(plan)) = <<>>
           /\ ~HasCycle(plan) <=> \A i \in DOMAIN plan : i \in ToSet(ExecutionOrder(plan))
  <1> DEFINE order == ExecutionOrder(plan)
  <1>1. Len(plan) \in Nat /\ Len(plan) \in 0..Len(plan)
    BY LenProperties
  <1>2. /\ DependenciesFirst(plan, order)
        /\ Ready(plan, order) = <<>> \/ Len(order) >= Len(plan)
    BY <1>1, EveryRound DEF ExecutionOrder
  <1>3. order \in Seq(DOMAIN plan) /\ IsInjective(order)
    BY <1>2 DEF DependenciesFirst
  <1> HIDE DEF order
  <1>4. /\ Len(order) \in Nat /\ Len(order) <= Len(plan)
        /\ Len(order) = Len(plan) <=> \A i \in DOMAIN plan : i \in ToSet(order)
    BY <1>3, InjectiveOrders
  <1>5. ~HasCycle(plan) <=> \A i \in DOMAIN plan : i \in ToSet(order)
    BY <1>1, <1>4 DEF HasCycle, order
  <1>6. ASSUME Ready(plan, order) # <<>> PROVE FALSE
    <2>1. \A i \in DOMAIN plan : i \in ToSet(order)
      BY <1>1, <1>2, <1>4, <1>6
    <2>2. Ready(plan, order) \in Seq(DOMAIN plan) /\ Len(Ready(plan, order)) # 0
      BY <1>3, <1>6, ReadyFacts, EmptySeq
    <2>3. 1 \in DOMAIN Ready(plan, order)
      BY <2>2, LenProperties
    <2>4. Ready(plan, order)[1] \in ReadySteps(plan, order)
      BY <1>3, <2>3, ReadyFacts
    <2> QED
      BY <2>1, <2>4 DEF ReadySteps
  <1> QED
    BY <1>2, <1>5, <1>6 DEF order

\* Steps each of which depends on one of them: whoever follows the dependencies never gets out.
Circular(plan, C) ==
    /\ C # {} /\ C \subseteq DOMAIN plan
    /\ \A i \in C : \E j \in C : plan[j].id \in Dependencies(plan[i])

\* The cycles that WorkflowPlan.validate reports are those that there are: the rounds leave a
\* step out exactly when some steps depend on each other in a circle, for plans of any length
\* (WorkflowPlan.validate, execution_order).
THEOREM CyclesAreFound ==
    ASSUME NEW T, NEW plan \in Seq(T), NEW allowed, WellFormedPlan(plan, allowed)
    PROVE  HasCycle(plan) <=> \E C : Circular(plan, C)
  <1> DEFINE order == ExecutionOrder(plan)
  <1>1. /\ DependenciesFirst(plan, order)
        /\ Ready(plan, order) = <<>>
        /\ ~HasCycle(plan) <=> \A i \in DOMAIN plan : i \in ToSet(order)
    BY OrderIsSettled
  <1> HIDE DEF order
  <1>2. order \in Seq(DOMAIN plan)
    BY <1>1 DEF DependenciesFirst
  <1>3. ASSUME HasCycle(plan) PROVE \E C : Circular(plan, C)
    <2> DEFINE C == {i \in DOMAIN plan : i \notin ToSet(order)}
    <2>1. C # {}
      BY <1>1, <1>3
    <2>2. ASSUME NEW i \in C PROVE \E j \in C : plan[j].id \in Dependencies(plan[i])
      <3>1. i \notin ReadySteps(plan, order)
        <4> SUFFICES ASSUME i \in ReadySteps(plan, order) PROVE FALSE
          OBVIOUS
        <4>1. PICK k \in DOMAIN Ready(plan, order) : Ready(plan, order)[k] = i
          BY <1>2, ReadyFacts
        <4> QED
          BY <1>1, <4>1, EmptySeq
      <3>2. PICK d \in Dependencies(plan[i]) : d \notin {plan[j].id : j \in ToSet(order)}
        BY <2>2, <3>1 DEF ReadySteps
      <3>3. PICK j \in DOMAIN plan : plan[j].id = d
        BY <2>2, <3>2 DEF WellFormedPlan, Ids
      <3> QED
        BY <3>2, <3>3
    <2>3. Circular(plan, C)
      BY <2>1, <2>2 DEF Circular
    <2> QED
      BY <2>3
  <1>4. ASSUME ~HasCycle(plan), NEW C, Circular(plan, C) PROVE FALSE
    <2> DEFINE K == {k \in DOMAIN order : order[k] \in C}
    <2>1. DOMAIN order = 1..Len(order)
      BY <1>2, LenProperties
    <2>2. PICK i \in C : i \in DOMAIN plan
      BY <1>4 DEF Circular
    <2>3. K # {} /\ K \in SUBSET Nat
      BY <1>1, <1>4, <2>1, <2>2 DEF ToSet
    <2>4. PICK k \in K : \A other \in K : k <= other
      <3> HIDE DEF K
      <3> QED
        BY <2>3, LeastNumber
    <2>5. PICK j \in C : plan[j].id \in Dependencies(plan[order[k]])
      BY <1>4 DEF Circular
    <2>6. PICK l \in DOMAIN order : l < k /\ plan[order[l]].id = plan[j].id
      BY <1>1, <2>5 DEF DependenciesFirst
    <2>7. order[l] \in DOMAIN plan /\ j \in DOMAIN plan
      BY <1>2, <1>4, <2>1 DEF Circular
    <2>8. order[l] = j
      BY <2>6, <2>7 DEF WellFormedPlan
    <2>9. l \in K /\ l \in Nat /\ k \in Nat
      BY <2>1, <2>8
    <2> QED
      BY <2>4, <2>6, <2>9
  <1> QED
    BY <1>3, <1>4

-----------------------------------------------------------------------------
(* What _has_dependency_cycle computes.                                    *)

\* What is left is what its recursion says.
LEMMA LeftDefined ==
    ASSUME NEW T, NEW steps \in Seq(T)
    PROVE  \A r \in 0..Len(steps) :
               Left(steps)[r] = IF r = 0 THEN DOMAIN steps ELSE Waiting(steps, Left(steps)[r - 1])
  <1> DEFINE n == Len(steps)
             V == SUBSET DOMAIN steps
             step == [rest \in V |-> Waiting(steps, rest)]
             Solves(f) ==
                 f = [rounds \in 0..n |->
                         IF rounds = 0 THEN DOMAIN steps ELSE Waiting(steps, f[rounds - 1])]
  <1>1. n \in Nat /\ DOMAIN steps \in V
    BY LenProperties
  <1>2. step \in [V -> V]
    BY DEF Waiting
  <1>3. \E f : Solves(f)
    <2>1. PICK f : Iterates(f, n, V, DOMAIN steps, step)
      <3> HIDE DEF n, V, step
      <3> QED
        BY <1>1, <1>2, IterationExists
    <2> HIDE DEF V, step
    <2>2. /\ f \in [0..n -> V]
          /\ \A r \in 0..n : f[r] = IF r = 0 THEN DOMAIN steps ELSE step[f[r - 1]]
      BY <2>1 DEF Iterates
    <2>3. ASSUME NEW r \in 0..n
          PROVE  f[r] = IF r = 0 THEN DOMAIN steps ELSE Waiting(steps, f[r - 1])
      <3>1. CASE r = 0
        BY <2>2, <3>1
      <3>2. CASE r # 0
        <4>1. r - 1 \in 0..n /\ f[r - 1] \in V
          BY <1>1, <2>2, <3>2
        <4>2. step[f[r - 1]] = Waiting(steps, f[r - 1])
          BY <4>1 DEF step
        <4> QED
          BY <2>2, <3>2, <4>2
      <3> QED
        BY <3>1, <3>2
    <2>4. Solves(f)
      BY <2>2, <2>3
    <2> QED
      BY <2>4
  <1>4. Solves(Left(steps))
    BY <1>3 DEF Left
  <1> QED
    BY <1>4

\* The same of the steps of a decision.
CircularSteps(steps, C) ==
    /\ C # {} /\ C \subseteq DOMAIN steps
    /\ \A i \in C : \E j \in C : steps[j].id \in ToSet(steps[i].depends_on)

\* No round takes a circle apart, and each takes a step away, unless none can be.
LEMMA EveryRest ==
    ASSUME NEW T, NEW steps \in Seq(T)
    PROVE  \A r \in 0..Len(steps) :
              /\ Left(steps)[r] \subseteq DOMAIN steps
              /\ \A C : CircularSteps(steps, C) => C \subseteq Left(steps)[r]
              /\ \/ Waiting(steps, Left(steps)[r]) = Left(steps)[r]
                 \/ Cardinality(Left(steps)[r]) <= Len(steps) - r
  <1> DEFINE n == Len(steps)
             L == Left(steps)
             S == {r \in 0..n :
                      /\ L[r] \subseteq DOMAIN steps
                      /\ \A C : CircularSteps(steps, C) => C \subseteq L[r]
                      /\ \/ Waiting(steps, L[r]) = L[r]
                         \/ Cardinality(L[r]) <= n - r}
  <1>1. n \in Nat /\ DOMAIN steps = 1..n
    BY LenProperties
  <1>2. \A r \in 0..n : L[r] = IF r = 0 THEN DOMAIN steps ELSE Waiting(steps, L[r - 1])
    BY LeftDefined
  <1>3. IsFiniteSet(DOMAIN steps) /\ Cardinality(DOMAIN steps) = n
    BY <1>1, IntervalCounts
  <1> HIDE DEF n, L
  <1>4. 0 \in S
    BY <1>1, <1>2, <1>3 DEF CircularSteps
  <1>5. ASSUME NEW r \in 0..(n - 1), r \in S PROVE r + 1 \in S
    <2>1. r + 1 \in 0..n /\ r + 1 # 0 /\ (r + 1) - 1 = r
      BY <1>1
    <2>2. L[r + 1] = Waiting(steps, L[r])
      BY <1>2, <2>1
    <2>3. L[r] \subseteq DOMAIN steps /\ L[r + 1] \subseteq L[r]
      BY <1>5, <2>2 DEF Waiting
    <2>4. ASSUME NEW C, CircularSteps(steps, C) PROVE C \subseteq L[r + 1]
      <3>1. C \subseteq L[r]
        BY <1>5, <2>4
      <3> QED
        BY <2>2, <2>4, <3>1 DEF CircularSteps, Waiting
    <2>5. CASE L[r + 1] = L[r]
      BY <2>1, <2>2, <2>3, <2>4, <2>5
    <2>6. CASE L[r + 1] # L[r]
      <3>1. Cardinality(L[r]) <= n - r
        BY <1>5, <2>2, <2>6
      <3>2. IsFiniteSet(L[r])
        BY <1>3, <2>3, FS_Subset
      <3>3. /\ Cardinality(L[r]) \in Nat /\ Cardinality(L[r + 1]) \in Nat
            /\ Cardinality(L[r + 1]) < Cardinality(L[r])
        <4>1. IsFiniteSet(L[r + 1]) /\ Cardinality(L[r + 1]) <= Cardinality(L[r])
              /\ Cardinality(L[r]) # Cardinality(L[r + 1])
          BY <2>3, <2>6, <3>2, FS_Subset
        <4>2. Cardinality(L[r]) \in Nat /\ Cardinality(L[r + 1]) \in Nat
          BY <3>2, <4>1, FS_CardinalityType
        <4> QED
          BY <4>1, <4>2
      <3>4. Cardinality(L[r + 1]) <= n - (r + 1)
        BY <1>1, <3>1, <3>3
      <3> QED
        BY <2>1, <2>3, <2>4, <3>4
    <2> QED
      BY <2>5, <2>6
  <1>6. \A r \in 0..n : r \in S
    <2> HIDE DEF S
    <2> QED
      BY <1>1, <1>4, <1>5, InductionUpTo
  <1> QED
    BY <1>6 DEF n, L

\* The check of the decision finds the cycles that there are, for decisions of any length
\* (_has_dependency_cycle).
THEOREM DependencyCyclesAreFound ==
    ASSUME NEW T, NEW steps \in Seq(T)
    PROVE  HasDependencyCycle(steps) <=> \E C : CircularSteps(steps, C)
  <1> DEFINE n == Len(steps)
             rest == Left(steps)[n]
  <1>1. n \in Nat /\ n \in 0..n /\ DOMAIN steps = 1..n
    BY LenProperties
  <1>2. /\ rest \subseteq DOMAIN steps
        /\ \A C : CircularSteps(steps, C) => C \subseteq rest
        /\ Waiting(steps, rest) = rest \/ Cardinality(rest) <= n - n
    BY <1>1, EveryRest
  <1>3. HasDependencyCycle(steps) <=> rest # {}
    BY DEF HasDependencyCycle
  <1>4. IsFiniteSet(rest)
    BY <1>1, <1>2, IntervalCounts, FS_Subset
  <1> HIDE DEF rest
  <1>5. Cardinality(rest) \in Nat /\ (Cardinality(rest) = 0 => rest = {})
    BY <1>4, FS_CardinalityType, FS_EmptySet
  <1>6. ASSUME rest # {} PROVE CircularSteps(steps, rest)
    <2>1. Waiting(steps, rest) = rest
      BY <1>1, <1>2, <1>5, <1>6
    <2> QED
      BY <1>2, <1>6, <2>1 DEF CircularSteps, Waiting
  <1>7. ASSUME NEW C, CircularSteps(steps, C) PROVE rest # {}
    BY <1>2, <1>7 DEF CircularSteps
  <1> QED
    BY <1>3, <1>6, <1>7

\* A circle in the adapted plan is one in the decision.
LEMMA AdaptedCycles ==
    ASSUME NEW decision, NEW C, Circular(AdaptedPlan(decision), C)
    PROVE  CircularSteps(decision.steps, C)
  <1> DEFINE steps == decision.steps
             plan == AdaptedPlan(decision)
  <1>1. /\ DOMAIN plan = DOMAIN steps
        /\ \A i \in DOMAIN steps : plan[i] = AdaptedStep(steps[i])
    BY DEF AdaptedPlan
  <1> HIDE DEF steps, plan
  <1>2. ASSUME NEW i \in DOMAIN steps
        PROVE  plan[i].id = steps[i].id /\ Dependencies(plan[i]) = ToSet(steps[i].depends_on)
    BY <1>1 DEF AdaptedStep, Dependencies, Sources
  <1>3. Circular(plan, C)
    BY DEF plan
  <1> QED
    BY <1>1, <1>2, <1>3 DEF Circular, CircularSteps, steps

\* The plans that pass WorkflowPlan.validate are those that WorkflowEngine is about: numbered
\* in the order they run, the dependencies of a step are steps before it.  This is what that
\* module assumes of its constant Deps (PlanAssumption), for every valid plan
\* (WorkflowPlan.execution_order, ExecutionEngine._continue_workflow).
THEOREM NumberedDependenciesComeFirst ==
    ASSUME NEW T, NEW plan \in Seq(T), NEW allowed, ValidPlan(plan, allowed)
    PROVE  /\ NumberedDependencies(plan) \in [1..Len(plan) -> SUBSET (1..Len(plan))]
           /\ \A s \in 1..Len(plan) : \A d \in NumberedDependencies(plan)[s] : d < s
  <1> DEFINE order == ExecutionOrder(plan)
  <1>1. DependenciesFirst(plan, order)
    BY OrderIsSettled
  <1>2. order \in Seq(DOMAIN plan) /\ IsInjective(order)
    BY <1>1 DEF DependenciesFirst
  <1>3. Len(order) = Len(plan)
    <2>1. ~(Len(order) < Len(plan))
      BY DEF ValidPlan, HasCycle
    <2> HIDE DEF order
    <2> QED
      BY <1>2, <2>1, InjectiveOrders
  <1>4. DOMAIN order = 1..Len(plan) /\ Len(plan) \in Nat
    BY <1>2, <1>3, LenProperties
  <1>5. NumberedDependencies(plan) =
          [k \in DOMAIN order |->
              {j \in DOMAIN order : plan[order[j]].id \in Dependencies(plan[order[k]])}]
    BY DEF NumberedDependencies
  <1> HIDE DEF order
  <1>6. ASSUME NEW k \in DOMAIN order, NEW j \in DOMAIN order,
               plan[order[j]].id \in Dependencies(plan[order[k]])
        PROVE  j < k
    <2>1. PICK i \in DOMAIN order : i < k /\ plan[order[i]].id = plan[order[j]].id
      BY <1>1, <1>6 DEF DependenciesFirst
    <2>2. order[i] \in DOMAIN plan /\ order[j] \in DOMAIN plan
      BY <1>2, LenProperties
    <2>3. order[i] = order[j]
      BY <2>1, <2>2 DEF ValidPlan, WellFormedPlan
    <2>4. i = j
      BY <1>2, <2>3 DEF IsInjective
    <2> QED
      BY <2>1, <2>4
  <1> QED
    BY <1>4, <1>5, <1>6

\* What is adapted is a plan that the engine's own validation takes: the adapter's check of
\* the decision and WorkflowPlan.validate are two algorithms, on two forms of the steps, and
\* they agree on what a cycle is, so the plan that the adapter builds is never refused
\* (ModelPlanAdapter.adapt, ModelPlanDecision.from_mapping, WorkflowPlan.validate).
THEOREM AdaptedPlansAreValid ==
    ASSUME NEW T, NEW decision, decision.steps \in Seq(T),
           NEW catalog, NEW limits, NEW wellFormedTest,
           Adaptable(decision, catalog, limits, wellFormedTest)
    PROVE  ValidPlan(AdaptedPlan(decision), Tools(catalog))
  <1> DEFINE steps == decision.steps
             plan == AdaptedPlan(decision)
             Adapted == {AdaptedStep(step) : step \in T}
  <1>1. WellFormedPlan(plan, Tools(catalog))
    BY AdaptedPlansAreWellFormed
  <1>2. ~HasDependencyCycle(steps)
    BY DEF Adaptable, Validation
  <1>3. plan \in Seq(Adapted)
    <2>1. Len(steps) \in Nat /\ DOMAIN steps = 1..Len(steps)
          /\ \A i \in 1..Len(steps) : steps[i] \in T
      BY LenProperties
    <2>2. plan = [i \in 1..Len(steps) |-> AdaptedStep(steps[i])]
      BY <2>1 DEF AdaptedPlan
    <2>3. plan \in [1..Len(steps) -> Adapted]
      <3> HIDE DEF plan
      <3> QED
        BY <2>1, <2>2
    <2> HIDE DEF plan, steps, Adapted
    <2> QED
      BY <2>1, <2>3, SeqDef
  <1>4. ASSUME HasCycle(plan) PROVE FALSE
    <2>1. PICK C : Circular(plan, C)
      <3> HIDE DEF plan, Adapted
      <3> QED
        BY <1>1, <1>3, <1>4, CyclesAreFound
    <2>2. CircularSteps(steps, C)
      BY <2>1, AdaptedCycles
    <2> QED
      BY <1>2, <2>2, DependencyCyclesAreFound
  <1> QED
    BY <1>1, <1>4 DEF ValidPlan
=============================================================================
