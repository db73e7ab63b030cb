----------------------- MODULE CorrectionEngineProofs -----------------------
(***************************************************************************)
(* Proofs about the correction loop, for any proposals, limits and number  *)
(* of runtimes.                                                            *)
(*                                                                         *)
(* IInv is inductive.  Besides the properties to be proved it says what    *)
(* the calls under way rely on: the approved proposal was checked against  *)
(* the limits as they still are, a round is left for it, no proposal was   *)
(* applied before the initial one, and the tests run so far were green.    *)
(***************************************************************************)
EXTENDS CorrectionEngine, FiniteSetTheorems, TLAPS

\* The proposal that is asked about or applied may still be applied.
Pledged ==
    status \in {"awaiting_approval", "applying"} =>
        /\ current \in Proposals /\ DeclaresFull(current)
        /\ Fits(current, modified, bytes)
        /\ correction => iterations < MaxIterations
        /\ ~correction => applied = {}

\* While tests run, all that ran were green and a full one is declared.
Proving ==
    busy /\ status \in Testing =>
        /\ current \in applied \cap landed /\ DeclaresFull(current)
        /\ Len(runs) < Focused[current] + Full[current]
        /\ \A i \in 1..Len(runs) : runs[i]

\* A call is under way only where resume has steps to take, with its approval.
Consent ==
    /\ busy => status \in {"applying"} \cup Testing
    /\ busy /\ status = "applying" => granted = {Now}

IInv ==
    /\ TypeOK /\ WithinLimits /\ OneRequest /\ CompletedIsVerified
    /\ RepeatedFailureStops /\ Pledged /\ Proving /\ Consent
    /\ Cardinality(applied) <= iterations + 1
    /\ IsFiniteSet(applied) /\ applied \subseteq landed

\* A snapshot of a permitted budget is a request that can be asked.
LEMMA SnapshotType ==
    ASSUME NEW p \in Proposals, NEW i \in 0..MaxIterations, NEW files \in SUBSET Files,
           NEW total \in 0..MaxBytes, NEW n \in 0..MaxRuntimes
    PROVE  Snapshot(p, i, files, total, n) \in Requests
  BY DEF Snapshot, Requests

\* Initially the invariant holds.
LEMMA InitInvariant == Init => IInv
  <1> SUFFICES ASSUME Init PROVE IInv
    OBVIOUS
  <1>1. Cardinality({}) = 0 /\ IsFiniteSet({})
    BY FS_EmptySet
  <1>2. TypeOK
    <2>1. runs \in Seq(BOOLEAN) /\ failures \in [Prints -> Nat]
      BY DEF Init
    <2>2. runtimes \in 0..MaxRuntimes
      BY LimitsAssumption DEF Init
    <2> QED
      BY <2>1, <2>2 DEF Init, TypeOK, None
  <1>3. WithinLimits
    BY <1>1, LimitsAssumption DEF Init, WithinLimits
  <1>4. RepeatedFailureStops
    BY LimitsAssumption DEF Init, RepeatedFailureStops
  <1> QED
    BY <1>1, <1>2, <1>3, <1>4 DEF Init, IInv, OneRequest, CompletedIsVerified, Pledged,
       Proving, Consent, Testing

\* Every step keeps the types.
LEMMA StepTypes == IInv /\ [Next]_vars => TypeOK'
  <1> SUFFICES ASSUME IInv, [Next]_vars PROVE TypeOK'
    OBVIOUS
  <1> USE LimitsAssumption, ProposalAssumption DEF IInv, WithinLimits
  <1>1. ASSUME NEW p \in Proposals, Start(p) PROVE TypeOK'
    <2>1. status' \in {"awaiting_approval", "awaiting_correction"}
      BY <1>1 DEF Start
    <2>2. runtimes' \in 0..MaxRuntimes /\ runtimes' = runtimes + 1
      BY <1>1 DEF Start, MayStart, TypeOK
    <2>3. Snapshot(p, 0, {}, 0, runtimes + 1) \in Requests
      BY <2>2, SnapshotType
    <2>4. pending' \subseteq Requests /\ asked' \subseteq Requests
      BY <1>1, <2>3 DEF Start, Ask, approval, TypeOK
    <2>5. failures' \in [Prints -> Nat] /\ runs' \in Seq(BOOLEAN)
      BY <1>1 DEF Start
    <2> QED
      BY <1>1, <2>1, <2>2, <2>4, <2>5 DEF Start, TypeOK, Active, Testing
  <1>2. ASSUME NEW p \in Proposals, Submit(p) PROVE TypeOK'
    <2>1. Snapshot(p, iterations, modified, bytes, runtimes) \in Requests
      BY SnapshotType DEF TypeOK
    <2>2. pending' \subseteq Requests /\ asked' \subseteq Requests
      BY <1>2, <2>1 DEF Submit, Ask, TypeOK, approval
    <2> QED
      BY <1>2, <2>2 DEF Submit, budget, TypeOK, Active, Testing
  <1>3. ASSUME NEW p \in Proposals, SubmitAtLimit(p) PROVE TypeOK'
    BY <1>3 DEF SubmitAtLimit, MaySubmit, RoundsLeft, TypeOK, Terminal, Active, Testing,
       None, budget, approval
  <1>4. ASSUME NEW f \in Prints, NEW i \in 0..MaxIterations, NEW files \in SUBSET Files,
               NEW total \in 0..MaxBytes, StartFromTestFailure(f, i, files, total)
        PROVE  TypeOK'
    <2>1. status' \in Terminal \cup Active
      BY <1>4 DEF StartFromTestFailure, Failed, Terminal, Active
    <2>2. failures' \in [Prints -> Nat]
      BY <1>4 DEF StartFromTestFailure
    <2>3. runs' \in Seq(BOOLEAN)
      BY <1>4 DEF StartFromTestFailure
    <2>4. iterations' \in Nat /\ bytes' \in Nat /\ modified' \subseteq Files
      BY <1>4 DEF StartFromTestFailure
    <2>5. runtimes' \in 0..MaxRuntimes
      BY <1>4 DEF StartFromTestFailure, MayStart, TypeOK
    <2>6. UNCHANGED <<busy, pending, asked, landed, granted>>
      BY <1>4 DEF StartFromTestFailure, approval
    <2>7. current' = None /\ correction' = FALSE /\ applied' = {}
      BY <1>4 DEF StartFromTestFailure
    <2> QED
      BY <2>1, <2>2, <2>3, <2>4, <2>5, <2>6, <2>7 DEF TypeOK
  <1>5. CASE ResumeInvalid
    BY <1>5 DEF ResumeInvalid, Decidable, TypeOK, Terminal, Active, Testing, None,
       Settle, budget
  <1>6. CASE Reject
    BY <1>6 DEF Reject, Decidable, StillValid, TypeOK, Terminal, Active, Testing, None,
       Settle, budget
  <1>7. CASE Approve
    BY <1>7 DEF Approve, Decidable, Settle, budget, TypeOK, Terminal, Active, Testing
  <1>8. CASE Cancel
    BY <1>8 DEF Cancel, TypeOK, Terminal, Active, Testing, None, Settle, budget
  <1>9. CASE Apply
    <2>1. /\ current \in Proposals /\ Changes[current] \subseteq Files
          /\ Cost[current] \in Nat
      BY <1>9 DEF Apply, Applying, Pledged
    <2>2. Passed(current, 0) \in Terminal \cup Active
      BY DEF Passed, Terminal, Active, Testing
    <2>3. status' \in Terminal \cup Active /\ busy' \in BOOLEAN
      BY <1>9, <2>2 DEF Apply, Terminal
    <2>4. CASE correction /\ iterations >= MaxIterations
      BY <1>9, <2>1, <2>3, <2>4 DEF Apply, budget, approval, TypeOK
    <2>5. CASE ~(correction /\ iterations >= MaxIterations)
      <3>0. runs' = <<>>
        BY <1>9, <2>5 DEF Apply
      <3>1. runs' \in Seq(BOOLEAN)
        BY <3>0
      <3> QED
        BY <1>9, <2>1, <2>3, <2>5, <3>1 DEF Apply, approval, TypeOK
    <2> QED
      BY <2>4, <2>5
  <1>10. CASE ApplyFails
    BY <1>10 DEF ApplyFails, TypeOK, Terminal, Active, Testing, None, budget, approval
  <1>11. CASE TestGreen
    <2>1. runs' \in Seq(BOOLEAN)
      BY <1>11 DEF TestGreen, TypeOK
    <2>2. status' \in Terminal \cup Active /\ busy' \in BOOLEAN
      BY <1>11 DEF TestGreen, Passed, Terminal, Active, Testing
    <2> QED
      BY <1>11, <2>1, <2>2 DEF TestGreen, budget, approval, TypeOK
  <1>12. CASE Raise
    BY <1>12 DEF Raise, TypeOK, Terminal, Active, Testing, None, budget, approval
  <1>13. ASSUME NEW files \in SUBSET Files, NEW cost \in 0..MaxBytes,
                RollbackFails(files, cost)
         PROVE  TypeOK'
    <2>1. cost \in Nat /\ files \subseteq Files
      OBVIOUS
    <2>2. bytes' \in Nat /\ modified' \subseteq Files
      BY <1>13, <2>1 DEF RollbackFails, TypeOK
    <2> QED
      BY <1>13, <2>2 DEF RollbackFails, approval, TypeOK, Terminal
  <1>14. ASSUME NEW f \in Prints, TestRed(f) PROVE TypeOK'
    <2>1. runs' \in Seq(BOOLEAN)
      BY <1>14 DEF TestRed, TypeOK
    <2>2. failures' \in [Prints -> Nat]
      BY <1>14 DEF TestRed, TypeOK
    <2>3. status' \in Terminal \cup Active
      BY <1>14 DEF TestRed, Failed, Terminal, Active
    <2> QED
      BY <1>14, <2>1, <2>2, <2>3 DEF TestRed, budget, approval, TypeOK
  <1>15. CASE UNCHANGED vars
    BY <1>15 DEF TypeOK, Terminal, Active, Testing, None, vars
  <1> QED
    BY <1>1, <1>2, <1>3, <1>4, <1>5, <1>6, <1>7, <1>8, <1>9, <1>10, <1>11, <1>12, <1>13,
       <1>14, <1>15 DEF Next, Step

\* A finite set of files stays within the limit when it is part of one that does.
LEMMA Bounded ==
    ASSUME NEW S, NEW U \in SUBSET Files, S \subseteq U, Cardinality(U) <= MaxFiles
    PROVE  Cardinality(S) <= MaxFiles
  <1>1. IsFiniteSet(U)
    BY ProposalAssumption, FS_Subset
  <1>2. IsFiniteSet(S) /\ Cardinality(S) <= Cardinality(U)
    BY <1>1, FS_Subset
  <1>3. Cardinality(S) \in Nat /\ Cardinality(U) \in Nat
    BY <1>1, <1>2, FS_CardinalityType
  <1> QED
    BY <1>2, <1>3, LimitsAssumption

\* Every step stays within the limits: what is spent was checked against what is left.
LEMMA StepLimits == IInv /\ [Next]_vars => WithinLimits'
  <1> SUFFICES ASSUME IInv, [Next]_vars PROVE WithinLimits'
    OBVIOUS
  <1> USE LimitsAssumption, ProposalAssumption DEF IInv
  <1>1. ASSUME NEW p \in Proposals, Start(p) PROVE WithinLimits'
    <2>1. Cardinality({}) = 0
      BY FS_EmptySet
    <2> QED
      BY <1>1, <2>1 DEF Start, WithinLimits
  <1>2. ASSUME NEW p \in Proposals, Submit(p) PROVE WithinLimits'
    BY <1>2 DEF Submit, MaySubmit, RoundsLeft, WithinLimits, budget
  <1>3. ASSUME NEW p \in Proposals, SubmitAtLimit(p) PROVE WithinLimits'
    BY <1>3 DEF SubmitAtLimit, MaySubmit, RoundsLeft, WithinLimits, budget
  <1>4. ASSUME NEW f \in Prints, NEW i \in 0..MaxIterations, NEW files \in SUBSET Files,
               NEW total \in 0..MaxBytes, StartFromTestFailure(f, i, files, total)
        PROVE  WithinLimits'
    BY <1>4 DEF StartFromTestFailure, MayStart, WithinLimits
  <1>5. CASE ResumeInvalid
    BY <1>5 DEF ResumeInvalid, Decidable, WithinLimits, budget
  <1>6. CASE Reject
    BY <1>6 DEF Reject, Decidable, StillValid, WithinLimits, budget
  <1>7. CASE Approve
    BY <1>7 DEF Approve, Decidable, StillValid, WithinLimits, budget
  <1>8. CASE Cancel
    BY <1>8 DEF Cancel, WithinLimits, budget
  <1>9. CASE Apply
    <2>1. /\ current \in Proposals /\ Changes[current] \subseteq Files
          /\ Cost[current] \in Nat
      BY <1>9 DEF Apply, Applying, Pledged
    <2>2. /\ Cardinality(modified \cup Changes[current]) <= MaxFiles
          /\ bytes + Cost[current] <= MaxBytes
      BY <1>9 DEF Apply, Applying, Pledged, Fits
    <2>3. correction => iterations + 1 <= MaxIterations
      BY <1>9 DEF Apply, Applying, Pledged, TypeOK
    <2> QED
      BY <1>9, <2>2, <2>3 DEF Apply, WithinLimits, budget
  <1>10. CASE ApplyFails
    BY <1>10 DEF ApplyFails, WithinLimits, budget
  <1>11. CASE TestGreen
    BY <1>11 DEF TestGreen, WithinLimits, budget
  <1>12. CASE Raise
    BY <1>12 DEF Raise, WithinLimits, budget
  <1>13. ASSUME NEW files \in SUBSET Files, NEW cost \in 0..MaxBytes,
                RollbackFails(files, cost)
         PROVE  WithinLimits'
    <2>1. /\ current \in Proposals /\ Changes[current] \subseteq Files
          /\ Cost[current] \in Nat
      BY <1>13 DEF RollbackFails, Applying, Pledged
    <2>2. /\ Cardinality(modified \cup Changes[current]) <= MaxFiles
          /\ bytes + Cost[current] <= MaxBytes
      BY <1>13 DEF RollbackFails, Applying, Pledged, Fits
    <2>3. modified \cup files \subseteq modified \cup Changes[current]
      BY <1>13 DEF RollbackFails
    <2>4. modified \cup Changes[current] \in SUBSET Files
      BY <2>1 DEF TypeOK
    <2>5. Cardinality(modified \cup files) <= MaxFiles
      BY <2>2, <2>3, <2>4, Bounded
    <2>6. bytes + cost <= MaxBytes
      BY <1>13, <2>1, <2>2 DEF RollbackFails, TypeOK
    <2> QED
      BY <1>13, <2>5, <2>6 DEF RollbackFails, WithinLimits
  <1>14. ASSUME NEW f \in Prints, TestRed(f) PROVE WithinLimits'
    BY <1>14 DEF TestRed, WithinLimits, budget
  <1>15. CASE UNCHANGED vars
    BY <1>15 DEF WithinLimits, vars
  <1> QED
    BY <1>1, <1>2, <1>3, <1>4, <1>5, <1>6, <1>7, <1>8, <1>9, <1>10, <1>11, <1>12, <1>13,
       <1>14, <1>15 DEF Next, Step

\* Every step keeps the request and the state it is for in agreement.
LEMMA StepRequest == IInv /\ [Next]_vars => OneRequest'
  <1> SUFFICES ASSUME IInv, [Next]_vars PROVE OneRequest'
    OBVIOUS
  <1> USE DEF IInv
  <1>1. ASSUME NEW p \in Proposals, Start(p) PROVE OneRequest'
    BY <1>1 DEF Start, MayStart, OneRequest, Now, Snapshot, Ask, Terminal, approval
  <1>2. ASSUME NEW p \in Proposals, Submit(p) PROVE OneRequest'
    BY <1>2 DEF Submit, MaySubmit, RoundsLeft, OneRequest, Now, Snapshot, Ask, budget,
       approval
  <1>3. ASSUME NEW p \in Proposals, SubmitAtLimit(p) PROVE OneRequest'
    BY <1>3 DEF SubmitAtLimit, MaySubmit, RoundsLeft, OneRequest, Now, Snapshot, budget,
       approval
  <1>4. ASSUME NEW f \in Prints, NEW i \in 0..MaxIterations, NEW files \in SUBSET Files,
               NEW total \in 0..MaxBytes, StartFromTestFailure(f, i, files, total)
        PROVE  OneRequest'
    BY <1>4 DEF StartFromTestFailure, MayStart, OneRequest, Now, Snapshot, Terminal,
       Failed, approval
  <1>5. CASE ResumeInvalid
    BY <1>5 DEF ResumeInvalid, Decidable, OneRequest, Now, Snapshot, Settle, budget
  <1>6. CASE Reject
    BY <1>6 DEF Reject, Decidable, StillValid, OneRequest, Now, Snapshot, Settle, budget
  <1>7. CASE Approve
    BY <1>7 DEF Approve, Decidable, StillValid, OneRequest, Now, Snapshot, Settle,
       budget
  <1>8. CASE Cancel
    BY <1>8 DEF Cancel, OneRequest, Now, Snapshot, Settle, Testing, Active, budget
  <1>9. CASE Apply
    BY <1>9 DEF Apply, Applying, OneRequest, Now, Snapshot, Terminal, Passed, budget,
       approval
  <1>10. CASE ApplyFails
    BY <1>10 DEF ApplyFails, OneRequest, Now, Snapshot, budget, approval
  <1>11. CASE TestGreen
    BY <1>11 DEF TestGreen, OneRequest, Now, Snapshot, Terminal, Testing, Passed,
       budget, approval
  <1>12. CASE Raise
    BY <1>12 DEF Raise, OneRequest, Now, Snapshot, budget, approval
  <1>13. ASSUME NEW files \in SUBSET Files, NEW cost \in 0..MaxBytes,
                RollbackFails(files, cost)
         PROVE  OneRequest'
    BY <1>13 DEF RollbackFails, Applying, OneRequest, Now, Snapshot, approval
  <1>14. ASSUME NEW f \in Prints, TestRed(f) PROVE OneRequest'
    BY <1>14 DEF TestRed, OneRequest, Now, Snapshot, Testing, Failed, budget, approval
  <1>15. CASE UNCHANGED vars
    BY <1>15 DEF OneRequest, Now, Snapshot, vars
  <1> QED
    BY <1>1, <1>2, <1>3, <1>4, <1>5, <1>6, <1>7, <1>8, <1>9, <1>10, <1>11, <1>12, <1>13,
       <1>14, <1>15 DEF Next, Step

\* Every step keeps the verdict tied to the tests.
LEMMA StepCompleted == IInv /\ [Next]_vars => CompletedIsVerified'
  <1> SUFFICES ASSUME IInv, [Next]_vars PROVE CompletedIsVerified'
    OBVIOUS
  <1> USE ProposalAssumption DEF IInv
  <1>1. ASSUME NEW p \in Proposals, Start(p) PROVE CompletedIsVerified'
    BY <1>1 DEF Start, MayStart, CompletedIsVerified, approval
  <1>2. ASSUME NEW p \in Proposals, Submit(p) PROVE CompletedIsVerified'
    BY <1>2 DEF Submit, MaySubmit, RoundsLeft, CompletedIsVerified, budget, approval
  <1>3. ASSUME NEW p \in Proposals, SubmitAtLimit(p) PROVE CompletedIsVerified'
    BY <1>3 DEF SubmitAtLimit, MaySubmit, RoundsLeft, CompletedIsVerified, budget,
       approval
  <1>4. ASSUME NEW f \in Prints, NEW i \in 0..MaxIterations, NEW files \in SUBSET Files,
               NEW total \in 0..MaxBytes, StartFromTestFailure(f, i, files, total)
        PROVE  CompletedIsVerified'
    BY <1>4 DEF StartFromTestFailure, MayStart, CompletedIsVerified, approval, Failed
  <1>5. CASE ResumeInvalid
    BY <1>5 DEF ResumeInvalid, Decidable, CompletedIsVerified, budget
  <1>6. CASE Reject
    BY <1>6 DEF Reject, Decidable, StillValid, CompletedIsVerified, budget
  <1>7. CASE Approve
    BY <1>7 DEF Approve, Decidable, StillValid, CompletedIsVerified, budget
  <1>8. CASE Cancel
    BY <1>8 DEF Cancel, CompletedIsVerified, budget
  <1>9. CASE Apply
    <2>1. Passed(current, 0) # "completed"
      BY <1>9 DEF Apply, Applying, Pledged, DeclaresFull, Passed
    <2> QED
      BY <1>9, <2>1 DEF Apply, CompletedIsVerified
  <1>10. CASE ApplyFails
    BY <1>10 DEF ApplyFails, CompletedIsVerified, budget, approval
  <1>11. CASE TestGreen
    <2>1. current \in applied \cap landed /\ DeclaresFull(current) /\ current \in Proposals
      BY <1>11 DEF TestGreen, Proving, TypeOK
    <2>2. runs' \in Seq(BOOLEAN) /\ Len(runs') = Len(runs) + 1 /\ Len(runs) \in Nat
      BY <1>11 DEF TestGreen, TypeOK
    <2>3. \A i \in 1..Len(runs') : runs'[i]
      BY <1>11, <2>2 DEF TestGreen, Proving, TypeOK
    <2>4. status' = "completed" => Len(runs') = Focused[current] + Full[current]
      BY <1>11, <2>2 DEF TestGreen, Passed
    <2> QED
      BY <1>11, <2>1, <2>2, <2>3, <2>4 DEF TestGreen, CompletedIsVerified, DeclaresFull
  <1>12. CASE Raise
    BY <1>12 DEF Raise, CompletedIsVerified, budget, approval
  <1>13. ASSUME NEW files \in SUBSET Files, NEW cost \in 0..MaxBytes,
                RollbackFails(files, cost)
         PROVE  CompletedIsVerified'
    BY <1>13 DEF RollbackFails, Applying, CompletedIsVerified, approval
  <1>14. ASSUME NEW f \in Prints, TestRed(f) PROVE CompletedIsVerified'
    BY <1>14 DEF TestRed, CompletedIsVerified, budget, approval, Failed
  <1>15. CASE UNCHANGED vars
    BY <1>15 DEF CompletedIsVerified, vars
  <1> QED
    BY <1>1, <1>2, <1>3, <1>4, <1>5, <1>6, <1>7, <1>8, <1>9, <1>10, <1>11, <1>12, <1>13,
       <1>14, <1>15 DEF Next, Step

\* Every step keeps the failure counts below the limit, or ends the runtime.
LEMMA StepFailures == IInv /\ [Next]_vars => RepeatedFailureStops'
  <1> SUFFICES ASSUME IInv, [Next]_vars PROVE RepeatedFailureStops'
    OBVIOUS
  <1> USE LimitsAssumption DEF IInv
  <1>1. ASSUME NEW p \in Proposals, Start(p) PROVE RepeatedFailureStops'
    BY <1>1 DEF Start, MayStart, RepeatedFailureStops, TypeOK, approval, Active, Testing
  <1>2. ASSUME NEW p \in Proposals, Submit(p) PROVE RepeatedFailureStops'
    BY <1>2 DEF Submit, MaySubmit, RoundsLeft, RepeatedFailureStops, TypeOK, budget,
       approval, Active, Testing
  <1>3. ASSUME NEW p \in Proposals, SubmitAtLimit(p) PROVE RepeatedFailureStops'
    BY <1>3 DEF SubmitAtLimit, MaySubmit, RoundsLeft, RepeatedFailureStops, TypeOK,
       budget, approval, Active, Testing
  <1>4. ASSUME NEW f \in Prints, NEW i \in 0..MaxIterations, NEW files \in SUBSET Files,
               NEW total \in 0..MaxBytes, StartFromTestFailure(f, i, files, total)
        PROVE  RepeatedFailureStops'
    BY <1>4 DEF StartFromTestFailure, MayStart, RepeatedFailureStops, TypeOK, Failed,
       approval, Active, Testing
  <1>5. CASE ResumeInvalid
    BY <1>5 DEF ResumeInvalid, Decidable, RepeatedFailureStops, TypeOK, budget, Active,
       Testing
  <1>6. CASE Reject
    BY <1>6 DEF Reject, Decidable, StillValid, RepeatedFailureStops, TypeOK, budget,
       Active, Testing
  <1>7. CASE Approve
    BY <1>7 DEF Approve, Decidable, StillValid, RepeatedFailureStops, TypeOK, budget,
       Active, Testing
  <1>8. CASE Cancel
    BY <1>8 DEF Cancel, RepeatedFailureStops, TypeOK, budget, Active, Testing
  <1>9. CASE Apply
    BY <1>9 DEF Apply, Applying, RepeatedFailureStops, TypeOK, budget, approval, Active,
       Testing, Passed
  <1>10. CASE ApplyFails
    BY <1>10 DEF ApplyFails, RepeatedFailureStops, TypeOK, budget, approval, Active,
       Testing
  <1>11. CASE TestGreen
    BY <1>11 DEF TestGreen, RepeatedFailureStops, TypeOK, budget, approval, Active,
       Testing, Passed
  <1>12. CASE Raise
    BY <1>12 DEF Raise, RepeatedFailureStops, TypeOK, budget, approval, Active, Testing
  <1>13. ASSUME NEW files \in SUBSET Files, NEW cost \in 0..MaxBytes,
                RollbackFails(files, cost)
         PROVE  RepeatedFailureStops'
    BY <1>13 DEF RollbackFails, Applying, RepeatedFailureStops, TypeOK, approval,
       Active, Testing
  <1>14. ASSUME NEW f \in Prints, TestRed(f) PROVE RepeatedFailureStops'
    BY <1>14 DEF TestRed, RepeatedFailureStops, TypeOK, Failed, budget, approval,
       Active, Testing
  <1>15. CASE UNCHANGED vars
    BY <1>15 DEF RepeatedFailureStops, TypeOK, Active, Testing, vars
  <1> QED
    BY <1>1, <1>2, <1>3, <1>4, <1>5, <1>6, <1>7, <1>8, <1>9, <1>10, <1>11, <1>12, <1>13,
       <1>14, <1>15 DEF Next, Step

\* Every step keeps what is asked about or applied within what was checked.
LEMMA StepPledged == IInv /\ [Next]_vars => Pledged'
  <1> SUFFICES ASSUME IInv, [Next]_vars PROVE Pledged'
    OBVIOUS
  <1> USE DEF IInv
  <1>1. ASSUME NEW p \in Proposals, Start(p) PROVE Pledged'
    BY <1>1 DEF Start, MayStart, Pledged, DeclaresFull, Fits, Terminal
  <1>2. ASSUME NEW p \in Proposals, Submit(p) PROVE Pledged'
    BY <1>2 DEF Submit, MaySubmit, RoundsLeft, Pledged, DeclaresFull, Fits, budget
  <1>3. ASSUME NEW p \in Proposals, SubmitAtLimit(p) PROVE Pledged'
    BY <1>3 DEF SubmitAtLimit, MaySubmit, RoundsLeft, Pledged, DeclaresFull, Fits,
       budget
  <1>4. ASSUME NEW f \in Prints, NEW i \in 0..MaxIterations, NEW files \in SUBSET Files,
               NEW total \in 0..MaxBytes, StartFromTestFailure(f, i, files, total)
        PROVE  Pledged'
    BY <1>4 DEF StartFromTestFailure, MayStart, Pledged, DeclaresFull, Fits, Terminal,
       Failed
  <1>5. CASE ResumeInvalid
    BY <1>5 DEF ResumeInvalid, Decidable, Pledged, DeclaresFull, Fits, budget
  <1>6. CASE Reject
    BY <1>6 DEF Reject, Decidable, StillValid, Pledged, DeclaresFull, Fits, budget
  <1>7. CASE Approve
    BY <1>7 DEF Approve, Decidable, StillValid, Pledged, DeclaresFull, Fits, budget
  <1>8. CASE Cancel
    BY <1>8 DEF Cancel, Pledged, DeclaresFull, Fits, Testing, Active, budget
  <1>9. CASE Apply
    BY <1>9 DEF Apply, Applying, Pledged, DeclaresFull, Fits, Terminal, Passed, budget
  <1>10. CASE ApplyFails
    BY <1>10 DEF ApplyFails, Pledged, DeclaresFull, Fits, budget
  <1>11. CASE TestGreen
    BY <1>11 DEF TestGreen, Pledged, DeclaresFull, Fits, Terminal, Testing, Passed,
       budget
  <1>12. CASE Raise
    BY <1>12 DEF Raise, Pledged, DeclaresFull, Fits, budget
  <1>13. ASSUME NEW files \in SUBSET Files, NEW cost \in 0..MaxBytes,
                RollbackFails(files, cost)
         PROVE  Pledged'
    BY <1>13 DEF RollbackFails, Applying, Pledged, DeclaresFull, Fits
  <1>14. ASSUME NEW f \in Prints, TestRed(f) PROVE Pledged'
    BY <1>14 DEF TestRed, Pledged, DeclaresFull, Fits, Testing, Failed, budget
  <1>15. CASE UNCHANGED vars
    BY <1>15 DEF Pledged, DeclaresFull, Fits, vars
  <1> QED
    BY <1>1, <1>2, <1>3, <1>4, <1>5, <1>6, <1>7, <1>8, <1>9, <1>10, <1>11, <1>12, <1>13,
       <1>14, <1>15 DEF Next, Step

\* Every step keeps the tests run so far green.
LEMMA StepProving == IInv /\ [Next]_vars => Proving'
  <1> SUFFICES ASSUME IInv, [Next]_vars PROVE Proving'
    OBVIOUS
  <1> USE ProposalAssumption DEF IInv
  <1>1. ASSUME NEW p \in Proposals, Start(p) PROVE Proving'
    BY <1>1 DEF Start, MayStart, Proving, Consent, DeclaresFull, Testing, Terminal
  <1>2. ASSUME NEW p \in Proposals, Submit(p) PROVE Proving'
    BY <1>2 DEF Submit, MaySubmit, RoundsLeft, Proving, Consent, DeclaresFull, Testing,
       budget
  <1>3. ASSUME NEW p \in Proposals, SubmitAtLimit(p) PROVE Proving'
    BY <1>3 DEF SubmitAtLimit, MaySubmit, RoundsLeft, Proving, Consent, DeclaresFull,
       Testing, budget
  <1>4. ASSUME NEW f \in Prints, NEW i \in 0..MaxIterations, NEW files \in SUBSET Files,
               NEW total \in 0..MaxBytes, StartFromTestFailure(f, i, files, total)
        PROVE  Proving'
    BY <1>4 DEF StartFromTestFailure, MayStart, Proving, Consent, DeclaresFull, Testing,
       Terminal, Failed
  <1>5. CASE ResumeInvalid
    BY <1>5 DEF ResumeInvalid, Decidable, Proving, Consent, DeclaresFull, Testing,
       budget
  <1>6. CASE Reject
    BY <1>6 DEF Reject, Decidable, StillValid, Proving, Consent, DeclaresFull, Testing,
       budget
  <1>7. CASE Approve
    BY <1>7 DEF Approve, Decidable, StillValid, Proving, Consent, DeclaresFull, Testing,
       budget
  <1>8. CASE Cancel
    BY <1>8 DEF Cancel, Proving, Consent, DeclaresFull, Testing, Active, budget
  <1>9. CASE Apply
    <2>1. /\ current \in Proposals /\ Full[current] \in Nat \ {0} /\ Focused[current] \in Nat
      BY <1>9 DEF Apply, Applying, Pledged, DeclaresFull
    <2>2. CASE correction /\ iterations >= MaxIterations
      BY <1>9, <2>2 DEF Apply, Proving
    <2>3. CASE ~(correction /\ iterations >= MaxIterations)
      <3>1. runs' = <<>> /\ current' = current
            /\ current \in applied' /\ current \in landed'
        BY <1>9, <2>3 DEF Apply
      <3>2. Len(runs') = 0
        BY <3>1
      <3> QED
        BY <2>1, <3>1, <3>2 DEF Proving, DeclaresFull
    <2> QED
      BY <2>2, <2>3
  <1>10. CASE ApplyFails
    BY <1>10 DEF ApplyFails, Proving, Consent, DeclaresFull, Testing, budget
  <1>11. CASE TestGreen
    <2>1. current \in applied \cap landed /\ DeclaresFull(current) /\ current \in Proposals
          /\ Len(runs) < Focused[current] + Full[current]
      BY <1>11 DEF TestGreen, Proving, TypeOK
    <2>2. runs' \in Seq(BOOLEAN) /\ Len(runs') = Len(runs) + 1 /\ Len(runs) \in Nat
      BY <1>11 DEF TestGreen, TypeOK
    <2>3. \A i \in 1..Len(runs') : runs'[i]
      BY <1>11, <2>2 DEF TestGreen, Proving, TypeOK
    <2>4. busy' => Len(runs') # Focused[current] + Full[current]
      BY <1>11, <2>2 DEF TestGreen, Passed, Terminal
    <2> QED
      BY <1>11, <2>1, <2>2, <2>3, <2>4 DEF TestGreen, Proving, DeclaresFull
  <1>12. CASE Raise
    BY <1>12 DEF Raise, Proving, Consent, DeclaresFull, Testing, budget
  <1>13. ASSUME NEW files \in SUBSET Files, NEW cost \in 0..MaxBytes,
                RollbackFails(files, cost)
         PROVE  Proving'
    BY <1>13 DEF RollbackFails, Applying, Proving, Consent, DeclaresFull, Testing
  <1>14. ASSUME NEW f \in Prints, TestRed(f) PROVE Proving'
    BY <1>14 DEF TestRed, Proving, Consent, DeclaresFull, Testing, Failed, budget
  <1>15. CASE UNCHANGED vars
    BY <1>15 DEF Proving, Consent, DeclaresFull, Testing, vars
  <1> QED
    BY <1>1, <1>2, <1>3, <1>4, <1>5, <1>6, <1>7, <1>8, <1>9, <1>10, <1>11, <1>12, <1>13,
       <1>14, <1>15 DEF Next, Step

\* Every step keeps the approval at hand while a proposal is applied.
LEMMA StepConsent == IInv /\ [Next]_vars => Consent'
  <1> SUFFICES ASSUME IInv, [Next]_vars PROVE Consent'
    OBVIOUS
  <1> USE DEF IInv
  <1>1. ASSUME NEW p \in Proposals, Start(p) PROVE Consent'
    BY <1>1 DEF Start, MayStart, Consent, Now, Snapshot, Terminal, Testing
  <1>2. ASSUME NEW p \in Proposals, Submit(p) PROVE Consent'
    BY <1>2 DEF Submit, MaySubmit, RoundsLeft, Consent, Now, Snapshot, budget, Testing
  <1>3. ASSUME NEW p \in Proposals, SubmitAtLimit(p) PROVE Consent'
    BY <1>3 DEF SubmitAtLimit, MaySubmit, RoundsLeft, Consent, Now, Snapshot, budget,
       Testing
  <1>4. ASSUME NEW f \in Prints, NEW i \in 0..MaxIterations, NEW files \in SUBSET Files,
               NEW total \in 0..MaxBytes, StartFromTestFailure(f, i, files, total)
        PROVE  Consent'
    BY <1>4 DEF StartFromTestFailure, MayStart, Consent, Now, Snapshot, Terminal,
       Testing, Failed
  <1>5. CASE ResumeInvalid
    BY <1>5 DEF ResumeInvalid, Decidable, Consent, Now, Snapshot, budget, Testing
  <1>6. CASE Reject
    BY <1>6 DEF Reject, Decidable, StillValid, Consent, Now, Snapshot, budget, Testing
  <1>7. CASE Approve
    BY <1>7 DEF Approve, Decidable, StillValid, Consent, Now, Snapshot, budget, Testing
  <1>8. CASE Cancel
    BY <1>8 DEF Cancel, Consent, Now, Snapshot, budget, Testing, Active
  <1>9. CASE Apply
    BY <1>9 DEF Apply, Applying, Consent, Now, Snapshot, budget, Terminal, Testing,
       Passed
  <1>10. CASE ApplyFails
    BY <1>10 DEF ApplyFails, Consent, Now, Snapshot, budget, Testing
  <1>11. CASE TestGreen
    BY <1>11 DEF TestGreen, Consent, Now, Snapshot, budget, Terminal, Testing, Passed
  <1>12. CASE Raise
    BY <1>12 DEF Raise, Consent, Now, Snapshot, budget, Testing
  <1>13. ASSUME NEW files \in SUBSET Files, NEW cost \in 0..MaxBytes,
                RollbackFails(files, cost)
         PROVE  Consent'
    BY <1>13 DEF RollbackFails, Applying, Consent, Now, Snapshot, Testing
  <1>14. ASSUME NEW f \in Prints, TestRed(f) PROVE Consent'
    BY <1>14 DEF TestRed, Consent, Now, Snapshot, budget, Testing, Failed
  <1>15. CASE UNCHANGED vars
    BY <1>15 DEF Consent, Now, Snapshot, Testing, vars
  <1> QED
    BY <1>1, <1>2, <1>3, <1>4, <1>5, <1>6, <1>7, <1>8, <1>9, <1>10, <1>11, <1>12, <1>13,
       <1>14, <1>15 DEF Next, Step

\* The application that is under way is new, and the limit allows it.
LEMMA NewApplication ==
    ASSUME IInv, Apply
    PROVE  /\ landed' = landed \cup {current} /\ current \notin landed
           /\ applied' = applied \cup {current} /\ current \notin applied
           /\ iterations' = IF correction THEN iterations + 1 ELSE iterations
           /\ Cardinality(applied') = Cardinality(applied) + 1 /\ IsFiniteSet(applied')
           /\ Cardinality(applied) <= MaxIterations
           /\ Cardinality(applied') <= iterations' + 1
  <1> USE LimitsAssumption
  <1>1. ~(correction /\ iterations >= MaxIterations)
    BY DEF IInv, TypeOK, Apply, Applying, Pledged
  <1>2. /\ landed' = landed \cup {current} /\ applied' = applied \cup {current}
        /\ iterations' = IF correction THEN iterations + 1 ELSE iterations
    BY <1>1 DEF Apply
  <1>3. current \notin landed /\ current \notin applied
    BY DEF IInv, Apply, Applying
  <1>4. Cardinality(applied') = Cardinality(applied) + 1 /\ IsFiniteSet(applied')
    BY <1>2, <1>3, FS_AddElement DEF IInv
  <1>5. Cardinality(applied) \in Nat /\ iterations \in Nat
    BY FS_CardinalityType DEF IInv, TypeOK
  <1>6. CASE correction
    BY <1>1, <1>2, <1>3, <1>4, <1>5, <1>6 DEF IInv
  <1>7. CASE ~correction
    <2>1. Cardinality(applied) = 0
      BY <1>7, FS_EmptySet DEF IInv, Pledged, Apply, Applying
    <2> QED
      BY <1>2, <1>3, <1>4, <1>5, <1>7, <2>1
  <1> QED
    BY <1>6, <1>7 DEF TypeOK, IInv

\* Every step counts what it applies.
LEMMA StepCounts ==
    IInv /\ [Next]_vars =>
        /\ Cardinality(applied') <= iterations' + 1
        /\ IsFiniteSet(applied') /\ applied' \subseteq landed'
  <1> DEFINE Goal == Cardinality(applied') <= iterations' + 1 /\ IsFiniteSet(applied')
                     /\ applied' \subseteq landed'
  <1> SUFFICES ASSUME IInv, [Next]_vars PROVE Goal
    OBVIOUS
  <1> USE LimitsAssumption DEF IInv
  <1>1. ASSUME NEW p \in Proposals, Start(p) PROVE Goal
    BY <1>1, FS_EmptySet DEF Start
  <1>2. ASSUME NEW p \in Proposals, Submit(p) PROVE Goal
    BY <1>2 DEF Submit, budget
  <1>3. ASSUME NEW p \in Proposals, SubmitAtLimit(p) PROVE Goal
    BY <1>3 DEF SubmitAtLimit, budget
  <1>4. ASSUME NEW f \in Prints, NEW i \in 0..MaxIterations, NEW files \in SUBSET Files,
               NEW total \in 0..MaxBytes, StartFromTestFailure(f, i, files, total)
        PROVE  Goal
    BY <1>4, FS_EmptySet DEF StartFromTestFailure
  <1>5. CASE ResumeInvalid
    BY <1>5 DEF ResumeInvalid, budget
  <1>6. CASE Reject
    BY <1>6 DEF Reject, budget
  <1>7. CASE Approve
    BY <1>7 DEF Approve, budget
  <1>8. CASE Cancel
    BY <1>8 DEF Cancel, budget
  <1>9. CASE Apply
    BY <1>9, NewApplication DEF IInv
  <1>10. CASE ApplyFails
    BY <1>10 DEF ApplyFails, budget
  <1>11. CASE TestGreen
    BY <1>11 DEF TestGreen, budget
  <1>12. CASE Raise
    BY <1>12 DEF Raise, budget
  <1>13. ASSUME NEW files \in SUBSET Files, NEW cost \in 0..MaxBytes,
                RollbackFails(files, cost)
         PROVE  Goal
    BY <1>13 DEF RollbackFails
  <1>14. ASSUME NEW f \in Prints, TestRed(f) PROVE Goal
    BY <1>14 DEF TestRed, budget
  <1>15. CASE UNCHANGED vars
    BY <1>15 DEF vars
  <1> QED
    BY <1>1, <1>2, <1>3, <1>4, <1>5, <1>6, <1>7, <1>8, <1>9, <1>10, <1>11, <1>12, <1>13,
       <1>14, <1>15 DEF Next, Step

\* IInv is inductive.
LEMMA NextPreserves == IInv /\ [Next]_vars => IInv'
  BY StepTypes, StepLimits, StepRequest, StepCompleted, StepFailures, StepPledged,
     StepProving, StepConsent, StepCounts DEF IInv

\* The invariant holds in every reachable state.
THEOREM Invariance == Spec => []IInv
  BY InitInvariant, NextPreserves, PTL DEF Spec

\* Every variable keeps its type: TypeOK of CorrectionEngine.
THEOREM TypeCorrect == Spec => []TypeOK
  BY Invariance, PTL DEF IInv

\* The rounds together stay within the limits (_check_accumulated_limits before,
\* record_future_application after), whatever the proposals change.
THEOREM StaysWithinLimits == Spec => []WithinLimits
  BY Invariance, PTL DEF IInv

\* One request at a time, for the proposal and budget as they are (_request_approval,
\* resume, cancel).
THEOREM RequestsAreCurrent == Spec => []OneRequest
  BY Invariance, PTL DEF IInv

\* "completed" stands on the proposal's own tests (resume).
THEOREM CompletedMeansVerified == Spec => []CompletedIsVerified
  BY Invariance, PTL DEF IInv

\* A failure seen too often closes the runtime (register_failure).
THEOREM RepeatedFailuresStop == Spec => []RepeatedFailureStops
  BY Invariance, PTL DEF IInv

-----------------------------------------------------------------------------
\* Only a step of Apply lands anything.
LEMMA OnlyApply == [Next]_vars /\ landed' # landed => Apply
  BY DEF Next, Step, vars, Start, Submit, SubmitAtLimit, StartFromTestFailure,
     ResumeInvalid, Reject, Approve, Cancel, ApplyFails, TestGreen, Raise,
     RollbackFails, TestRed

\* Files are written only under an approval for the state they are written in (resume).
THEOREM ApplicationsAreApproved == Spec => ApprovedIsApplied
  <1>1. IInv /\ [Next]_vars =>
            [landed' # landed => Now \in granted /\ landed' = landed \cup {current}]_vars
    <2> SUFFICES ASSUME IInv, [Next]_vars, landed' # landed
                 PROVE  Now \in granted /\ landed' = landed \cup {current}
      OBVIOUS
    <2>1. Apply
      BY OnlyApply
    <2> QED
      BY <2>1, NewApplication DEF IInv, Consent, Apply, Applying
  <1> QED
    BY <1>1, Invariance, PTL DEF Spec, ApprovedIsApplied

\* What is written is recorded and counted: the limit never refuses what is on disk
\* (record_future_application).
THEOREM ApplicationsAreCounted == Spec => EveryApplicationCounts
  <1>1. IInv /\ [Next]_vars =>
            [landed' # landed => /\ applied' \ applied = landed' \ landed
                                 /\ correction => iterations' = iterations + 1]_vars
    <2> SUFFICES ASSUME IInv, [Next]_vars, landed' # landed
                 PROVE  /\ applied' \ applied = landed' \ landed
                        /\ correction => iterations' = iterations + 1
      OBVIOUS
    <2>1. Apply
      BY OnlyApply
    <2> QED
      BY <2>1, NewApplication
  <1> QED
    BY <1>1, Invariance, PTL DEF Spec, EveryApplicationCounts

-----------------------------------------------------------------------------
(* Refinement of ApprovedRounds.                                           *)

\* Every step of the correction loop is a step of ApprovedRounds, or none.
LEMMA StepImplements == IInv /\ [Next]_vars => [Rounds!Next]_(Rounds!vars)
  <1> SUFFICES ASSUME IInv, [Next]_vars PROVE [Rounds!Next]_(Rounds!vars)
    OBVIOUS
  <1> USE DEF IInv
  <1>1. ASSUME NEW p \in Proposals, Start(p) PROVE [Rounds!Next]_(Rounds!vars)
    <2>1. Phase = "closed"
      BY <1>1 DEF Start, MayStart, Phase
    <2>2. Phase' \in {"drafting", "asking", "closed"}
      BY <1>1 DEF Start, MayStart, Terminal, Phase
    <2>3. Cardinality(applied') = 0 /\ landed' = landed
      BY <1>1, FS_EmptySet DEF Start
    <2> QED
      BY <2>1, <2>2, <2>3 DEF Rounds!Next, Rounds!Open
  <1>2. ASSUME NEW p \in Proposals, Submit(p) PROVE [Rounds!Next]_(Rounds!vars)
    <2>1. Phase = "drafting"
      BY <1>2 DEF Submit, MaySubmit, Consent, Terminal, Testing, Phase
    <2>2. Phase' = "asking"
      BY <1>2 DEF Submit, MaySubmit, Consent, Terminal, Testing, Phase
    <2>3. UNCHANGED <<landed, applied>>
      BY <1>2 DEF Submit
    <2> QED
      BY <2>1, <2>2, <2>3 DEF Rounds!Next, Rounds!Ask, Rounds!Move
  <1>3. ASSUME NEW p \in Proposals, SubmitAtLimit(p) PROVE [Rounds!Next]_(Rounds!vars)
    <2>1. Phase = "drafting"
      BY <1>3 DEF SubmitAtLimit, MaySubmit, Consent, Terminal, Testing, Phase
    <2>2. Phase' = "closed"
      BY <1>3 DEF SubmitAtLimit, MaySubmit, Consent, Terminal, Testing, Phase
    <2>3. UNCHANGED <<landed, applied>>
      BY <1>3 DEF SubmitAtLimit
    <2> QED
      BY <2>1, <2>2, <2>3 DEF Rounds!Next, Rounds!Close, Rounds!Move
  <1>4. ASSUME NEW f \in Prints, NEW i \in 0..MaxIterations, NEW files \in SUBSET Files,
               NEW total \in 0..MaxBytes, StartFromTestFailure(f, i, files, total)
        PROVE  [Rounds!Next]_(Rounds!vars)
    <2>1. Phase = "closed"
      BY <1>4 DEF StartFromTestFailure, MayStart, Phase
    <2>2. Phase' \in {"drafting", "asking", "closed"}
      BY <1>4 DEF StartFromTestFailure, MayStart, Terminal, Failed, Phase
    <2>3. Cardinality(applied') = 0 /\ landed' = landed
      BY <1>4, FS_EmptySet DEF StartFromTestFailure
    <2> QED
      BY <2>1, <2>2, <2>3 DEF Rounds!Next, Rounds!Open
  <1>5. CASE ResumeInvalid
    <2>1. Phase = "asking"
      BY <1>5 DEF ResumeInvalid, Decidable, Consent, Terminal, Testing, Phase
    <2>2. Phase' = "closed"
      BY <1>5 DEF ResumeInvalid, Decidable, Consent, Terminal, Testing, Phase
    <2>3. UNCHANGED <<landed, applied>>
      BY <1>5 DEF ResumeInvalid
    <2> QED
      BY <2>1, <2>2, <2>3 DEF Rounds!Next, Rounds!Close, Rounds!Move
  <1>6. CASE Reject
    <2>1. Phase = "asking"
      BY <1>6 DEF Reject, Decidable, Consent, Terminal, Testing, Phase
    <2>2. Phase' = "drafting"
      BY <1>6 DEF Reject, Decidable, Consent, Terminal, Testing, Phase
    <2>3. UNCHANGED <<landed, applied>>
      BY <1>6 DEF Reject
    <2> QED
      BY <2>1, <2>2, <2>3 DEF Rounds!Next, Rounds!Decline, Rounds!Move
  <1>7. CASE Approve
    <2>1. Phase = "asking"
      BY <1>7 DEF Approve, Decidable, Consent, Terminal, Testing, Phase
    <2>2. Phase' = "acting"
      BY <1>7 DEF Approve, Decidable, Consent, Terminal, Testing, Phase
    <2>3. UNCHANGED <<landed, applied>>
      BY <1>7 DEF Approve
    <2> QED
      BY <2>1, <2>2, <2>3 DEF Rounds!Next, Rounds!Grant, Rounds!Move
  <1>8. CASE Cancel
    <2>1. Phase \in {"drafting", "asking", "broken"}
      BY <1>8 DEF Cancel, Consent, Terminal, Testing, Active, Phase
    <2>2. Phase' = "closed"
      BY <1>8 DEF Cancel, Consent, Terminal, Testing, Active, Phase
    <2>3. UNCHANGED <<landed, applied>>
      BY <1>8 DEF Cancel
    <2> QED
      BY <2>1, <2>2, <2>3 DEF Rounds!Next, Rounds!Close, Rounds!Move
  <1>9. CASE Apply
    <2>1. Phase = "acting"
      BY <1>9 DEF Apply, Applying, Terminal, Phase
    <2>2. Phase' \in {"judging", "closed"}
      BY <1>9, NewApplication DEF Apply, Passed, Terminal, Phase
    <2>3. landed' = landed \cup {current} /\ current \in Proposals \ landed
      BY <1>9, NewApplication DEF Apply, Applying, Pledged
    <2>4. Cardinality(applied) <= MaxIterations
          /\ Cardinality(applied') = Cardinality(applied) + 1
      BY <1>9, NewApplication
    <2> QED
      BY <2>1, <2>2, <2>3, <2>4 DEF Rounds!Next, Rounds!Act
  <1>10. CASE ApplyFails
    <2>1. Phase = "acting"
      BY <1>10 DEF ApplyFails, Consent, Terminal, Testing, Phase
    <2>2. Phase' = "closed"
      BY <1>10 DEF ApplyFails, Consent, Terminal, Testing, Phase
    <2>3. UNCHANGED <<landed, applied>>
      BY <1>10 DEF ApplyFails
    <2> QED
      BY <2>1, <2>2, <2>3 DEF Rounds!Next, Rounds!Close, Rounds!Move
  <1>11. CASE TestGreen
    <2>1. Phase = "judging"
      BY <1>11 DEF TestGreen, Terminal, Testing, Phase
    <2>2. Phase' \in {"judging", "closed"}
      BY <1>11 DEF TestGreen, Passed, Terminal, Testing, Phase
    <2>3. UNCHANGED <<landed, applied>>
      BY <1>11 DEF TestGreen
    <2> QED
      BY <2>1, <2>2, <2>3 DEF Rounds!Next, Rounds!Judge, Rounds!Move, Rounds!vars
  <1>12. CASE Raise
    <2>1. Phase \in {"acting", "judging"}
      BY <1>12 DEF Raise, Consent, Terminal, Testing, Phase
    <2>2. Phase' = "broken"
      BY <1>12 DEF Raise, Consent, Terminal, Testing, Phase
    <2>3. UNCHANGED <<landed, applied>>
      BY <1>12 DEF Raise
    <2> QED
      BY <2>1, <2>2, <2>3 DEF Rounds!Next, Rounds!Break, Rounds!Move
  <1>13. ASSUME NEW files \in SUBSET Files, NEW cost \in 0..MaxBytes,
                RollbackFails(files, cost)
         PROVE  [Rounds!Next]_(Rounds!vars)
    <2>1. Phase = "acting"
      BY <1>13 DEF RollbackFails, Applying, Consent, Terminal, Testing, Phase
    <2>2. Phase' = "closed"
      BY <1>13 DEF RollbackFails, Applying, Consent, Terminal, Testing, Phase
    <2>3. UNCHANGED <<landed, applied>>
      BY <1>13 DEF RollbackFails
    <2> QED
      BY <2>1, <2>2, <2>3 DEF Rounds!Next, Rounds!Close, Rounds!Move
  <1>14. ASSUME NEW f \in Prints, TestRed(f) PROVE [Rounds!Next]_(Rounds!vars)
    <2>1. Phase = "judging"
      BY <1>14 DEF TestRed, Consent, Terminal, Testing, Phase
    <2>2. Phase' \in {"drafting", "closed"}
      BY <1>14 DEF TestRed, Consent, Terminal, Testing, Failed, Phase
    <2>3. UNCHANGED <<landed, applied>>
      BY <1>14 DEF TestRed
    <2> QED
      BY <2>1, <2>2, <2>3 DEF Rounds!Next, Rounds!Judge, Rounds!Move
  <1>15. CASE UNCHANGED vars
    BY <1>15 DEF vars, Rounds!vars, Phase
  <1> QED
    BY <1>1, <1>2, <1>3, <1>4, <1>5, <1>6, <1>7, <1>8, <1>9, <1>10, <1>11, <1>12, <1>13,
       <1>14, <1>15 DEF Next, Step

\* CorrectionEngine implements ApprovedRounds, with the proposals as effects.
THEOREM Implementation == Spec => RoundsSpec
  <1>1. Init => Rounds!Init
    BY FS_EmptySet DEF Init, Rounds!Init, Phase
  <1> QED
    BY <1>1, StepImplements, Invariance, PTL DEF Spec, RoundsSpec, Rounds!Spec
-----------------------------------------------------------------------------
(* What makes ResumeReturns hold, but for fairness.                        *)

\* How many steps a call of resume still takes at most: the transaction, and each declared
\* test once.
StepsLeft ==
    IF ~busy THEN 0
    ELSE IF status = "applying" THEN Focused[current] + Full[current] + 1
    ELSE Focused[current] + Full[current] - Len(runs)

\* Every step of resume, an exception included, brings its end nearer: no test is run twice
\* in a round, and neither a red test nor a failed transaction starts another (resume).
ResumeIsShort == [][ busy => StepsLeft' < StepsLeft ]_vars

\* A call under way has a step left.
LEMMA StepsLeftType == IInv => StepsLeft \in Nat /\ (busy => StepsLeft > 0)
  <1> SUFFICES ASSUME IInv PROVE StepsLeft \in Nat /\ (busy => StepsLeft > 0)
    OBVIOUS
  <1>1. CASE ~busy
    BY <1>1 DEF StepsLeft
  <1>2. CASE busy /\ status = "applying"
    <2>1. current \in Proposals
      BY <1>2 DEF IInv, Pledged
    <2>2. Focused[current] \in Nat /\ Full[current] \in Nat
      BY <2>1, ProposalAssumption
    <2> QED
      BY <1>2, <2>2 DEF StepsLeft
  <1>3. CASE busy /\ status \in Testing
    <2>1. current \in Proposals /\ Len(runs) < Focused[current] + Full[current]
      BY <1>3 DEF IInv, Proving, TypeOK
    <2>2. Focused[current] \in Nat /\ Full[current] \in Nat /\ Len(runs) \in Nat
      BY <2>1, ProposalAssumption DEF IInv, TypeOK
    <2>3. StepsLeft = Focused[current] + Full[current] - Len(runs)
      BY <1>3 DEF StepsLeft, Testing
    <2> QED
      BY ONLY <2>1, <2>2, <2>3
  <1> QED
    BY <1>1, <1>2, <1>3 DEF IInv, Consent

\* What a step of resume does to the number of steps left, when it goes on.
LEMMA GoingOn ==
    ASSUME IInv, busy, busy', current' = current, status' \in Testing,
           \/ status = "applying" /\ runs' = <<>>
           \/ status \in Testing /\ runs' = Append(runs, TRUE)
    PROVE  StepsLeft' < StepsLeft
  <1>1. current \in Proposals /\ runs \in Seq(BOOLEAN)
    BY DEF IInv, Pledged, Proving, TypeOK
  <1>2. Focused[current] \in Nat /\ Full[current] \in Nat
    BY <1>1, ProposalAssumption
  <1>3. StepsLeft' = Focused[current] + Full[current] - Len(runs')
    BY DEF StepsLeft, Testing
  <1>4. CASE status = "applying" /\ runs' = <<>>
    BY <1>2, <1>3, <1>4 DEF StepsLeft
  <1>5. CASE status \in Testing /\ runs' = Append(runs, TRUE)
    <2>1. Len(runs') = Len(runs) + 1 /\ Len(runs) \in Nat
      BY <1>1, <1>5
    <2>2. StepsLeft = Focused[current] + Full[current] - Len(runs)
      BY <1>5 DEF StepsLeft, Testing
    <2> QED
      BY ONLY <1>2, <1>3, <2>1, <2>2
  <1> QED
    BY <1>4, <1>5

\* A call of resume ends after the transaction and the declared tests, at the latest
\* (resume): ResumeReturns, given that its steps are taken.
THEOREM ResumesAreBounded ==
    Spec => [](StepsLeft \in Nat /\ (busy => StepsLeft > 0)) /\ ResumeIsShort
  <1>1. IInv /\ [Next]_vars => [busy => StepsLeft' < StepsLeft]_vars
    <2> SUFFICES ASSUME IInv, Next, busy PROVE StepsLeft' < StepsLeft
      OBVIOUS
    <2>1. CASE ~busy'
      BY <2>1, StepsLeftType DEF StepsLeft
    <2>2. CASE Apply /\ busy'
      <3>1. status = "applying" /\ current' = current
        BY <2>2 DEF Apply, Applying
      <3>2. runs' = <<>> /\ status' = Passed(current, 0) /\ status' \notin Terminal
        BY <2>2 DEF Apply
      <3>3. status' \in Testing
        BY <3>2 DEF Passed, Terminal, Testing
      <3> QED
        BY <2>2, <3>1, <3>2, <3>3, GoingOn
    <2>3. CASE TestGreen /\ busy'
      <3>1. status' \in Testing
        BY <2>3 DEF TestGreen, Passed, Terminal, Testing
      <3> QED
        BY <2>3, <3>1, GoingOn DEF TestGreen
    <2> QED
      BY <2>1, <2>2, <2>3
      DEF Next, Step, IInv, Consent, Testing, Start, Submit, SubmitAtLimit, MaySubmit, MayStart,
          StartFromTestFailure, ResumeInvalid, Reject, Approve, Decidable, Cancel, ApplyFails,
          Raise, RollbackFails, TestRed
  <1> QED
    BY <1>1, StepsLeftType, Invariance, PTL DEF Spec, ResumeIsShort
=============================================================================
