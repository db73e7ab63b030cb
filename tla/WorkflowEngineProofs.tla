------------------------ MODULE WorkflowEngineProofs ------------------------
(***************************************************************************)
(* The safety of WorkflowEngine for every plan: every number of steps,     *)
(* every dependency graph, and every choice of kinds, gates and repeats.   *)
(*                                                                         *)
(* The invariants only hold together: an operation in the slot is          *)
(* resumable because pauses and statuses agree, they agree because a call  *)
(* finds the workflow running, and a call may start because the operation  *)
(* it executes was resumable.  IInv is their conjunction, and each action  *)
(* is shown to preserve it, in three steps: what the user's decisions rely *)
(* on, what the running call relies on, and what results rely on.          *)
(*                                                                         *)
(* At the end: which steps can leave a pause that nobody can answer, and   *)
(* how many steps a call takes at most.                                    *)
(***************************************************************************)
EXTENDS WorkflowEngine, TLAPS

\* The invariant that is preserved by every step.
IInv ==
    /\ TypeOK
    /\ PauseAgreement
    /\ OperationIsResumable
    /\ CallDiscipline
    /\ ControllersAreInUse
    /\ PausedDependenciesOk
    /\ EffectsWereApproved

-----------------------------------------------------------------------------
(* Types of the records.                                                   *)

\* Operations as the pauses build them.
LEMMA OperationTypes ==
    /\ NoOp \in Operations /\ OtherOp \in Operations
    /\ \A s \in Steps, r \in BOOLEAN, t \in BOOLEAN :
          ToolOp(s, t) \in Operations /\ CorrectionOp(s, r, t) \in Operations
  BY DEF Operations, NoOp, OtherOp, ToolOp, CorrectionOp

\* Calls as they are entered, and moved on by the loop.
LEMMA CallTypes ==
    /\ Idle \in Calls
    /\ \A k \in {"run", "tool", "correction", "abort"}, t \in BOOLEAN :
          LoopOf(k, t) \in Calls
    /\ \A o \in Operations :
          o.kind \in {"tool", "correction"} => EffectOf(o) \in Calls
    /\ \A c \in Calls : c.pos \in Steps => [c EXCEPT !.pos = @ + 1] \in Calls
  BY PlanAssumption DEF Operations, Calls, Idle, LoopOf, EffectOf, Steps, None

\* The fields of operations and calls.
LEMMA FieldTypes ==
    /\ \A o \in Operations : /\ o.step \in Steps \cup {None}
                             /\ o.reopens \in BOOLEAN /\ o.traced \in BOOLEAN
    /\ \A c \in Calls : /\ c.step \in Steps \cup {None} /\ c.traced \in BOOLEAN
                        /\ c.kind \in {"none", "run", "tool", "correction", "abort"}
  BY DEF Operations, Calls

\* However a call goes on or ends, the slot and the stack keep their types.
LEMMA SlotTypes ==
  ASSUME TypeOK
  PROVE  /\ Leave => op' \in Operations /\ call' \in Calls
         /\ \A s \in Steps : Visiting(s) /\ Advance => op' \in Operations /\ call' \in Calls
         /\ call.kind \in {"tool", "correction"} /\ LoopAfterEffect
              => op' \in Operations /\ call' \in Calls
         /\ \A s \in Steps, o \in Operations :
              Deliver(s, o) => op' \in Operations /\ request' \in Steps \cup {None}
  BY OperationTypes, CallTypes, FieldTypes
     DEF TypeOK, Leave, Advance, Visiting, LoopAfterEffect, Deliver

-----------------------------------------------------------------------------
(* An iteration of the loop. *)

\* An iteration of the loop keeps the types.
LEMMA VisitTypes ==
  ASSUME IInv, NEW s \in Steps, Visit(s)
  PROVE  TypeOK'
  <1> USE OperationTypes, CallTypes, FieldTypes DEF IInv, CallDiscipline, TypeOK,
         StepStatuses, WorkflowStatuses, ApprovalStatuses, CorrectionStatuses
  <1>1. CASE PassSettled(s)
    <2>1. op' \in Operations /\ call' \in Calls
      BY <1>1, SlotTypes DEF Visiting, PassSettled
    <2> QED
      BY <1>1, <2>1 DEF PassSettled
  <1>2. CASE SkipBlocked(s)
    <2>1. op' \in Operations /\ call' \in Calls
      BY <1>2, SlotTypes DEF Visiting, SkipBlocked
    <2> QED
      BY <1>2, <2>1 DEF SkipBlocked
  <1>3. CASE RefuseUnfinished(s)
    <2>1. op' \in Operations /\ call' \in Calls
      BY <1>3, SlotTypes DEF Visiting, RefuseUnfinished
    <2> QED
      BY <1>3, <2>1 DEF RefuseUnfinished
  <1>4. CASE ResolverFails(s)
    <2>1. op' \in Operations /\ call' \in Calls
      BY <1>4, SlotTypes DEF Visiting, Startable, ResolverFails
    <2> QED
      BY <1>4, <2>1 DEF Record, ResolverFails
  <1>5. CASE RunTool(s)
    <2>1. op' \in Operations /\ call' \in Calls
      BY <1>5, SlotTypes DEF Visiting, Startable, RunTool
    <2>2. PICK status \in {"ok", "failed", "partial"} : Record(s, status)
      BY <1>5 DEF RunTool
    <2> QED
      BY <1>5, <2>1, <2>2 DEF RunTool, Record
  <1>6. CASE ToolRaises(s)
    <2>1. op' \in Operations /\ call' \in Calls
      BY <1>6, SlotTypes DEF Visiting, Startable, ToolRaises
    <2> QED
      BY <1>6, <2>1 DEF ToolRaises
  <1>7. CASE PauseTool(s)
    <2>1. op' \in Operations /\ call' \in Calls /\ request' \in Steps \cup {None}
      BY <1>7, SlotTypes DEF Visiting, Startable, PauseTool
    <2> QED
      BY <1>7, <2>1 DEF Pause, PauseTool
  <1>8. CASE PauseCorrection(s)
    <2>1. op' \in Operations /\ call' \in Calls /\ request' \in Steps \cup {None}
      BY <1>8, SlotTypes DEF Visiting, Startable, PauseCorrection
    <2> QED
      BY <1>8, <2>1 DEF Pause, PauseCorrection
  <1>9. CASE StartRefused(s)
    <2>1. op' \in Operations /\ call' \in Calls
      BY <1>9, SlotTypes DEF Visiting, Startable, StartRefused
    <2> QED
      BY <1>9, <2>1 DEF AwaitCorrection, StartRefused
  <1>10. CASE StartUnadaptable(s)
    <2>1. op' \in Operations /\ call' \in Calls
      BY <1>10, SlotTypes DEF Visiting, Startable, StartUnadaptable
    <2> QED
      BY <1>10, <2>1 DEF Record, StartUnadaptable
  <1>11. CASE StartRaises(s)
    <2>1. op' \in Operations /\ call' \in Calls
      BY <1>11, SlotTypes DEF Visiting, Startable, StartRaises
    <2> QED
      BY <1>11, <2>1 DEF Verdict, RecordException, StartRaises
  <1> QED
    BY <1>1, <1>2, <1>3, <1>4, <1>5, <1>6, <1>7, <1>8, <1>9, <1>10, <1>11 DEF Visit

\* An iteration of the loop preserves the invariant.
LEMMA VisitPreserves ==
  ASSUME IInv, NEW s \in Steps, Visit(s)
  PROVE  IInv'
  <1>1. TypeOK'
    BY VisitTypes
  <1> USE PlanAssumption DEF Steps, None, IInv, TypeOK, PauseAgreement,
         OperationIsResumable, CallDiscipline, ControllersAreInUse,
         PausedDependenciesOk, EffectsWereApproved, WaitsFor, NeedsApproval,
         Blocked, Idle, Calls, Operations
  <1>2. CASE PassSettled(s)
    <2>1. PauseAgreement' /\ OperationIsResumable'
      BY <1>2 DEF PassSettled, Visiting, Settled, Advance
    <2>2. CallDiscipline' /\ ControllersAreInUse'
      BY <1>2 DEF PassSettled, Visiting, Settled, Advance
    <2>3. PausedDependenciesOk' /\ EffectsWereApproved'
      BY <1>2 DEF PassSettled, Visiting, Settled, Advance
    <2> QED
      BY <1>1, <2>1, <2>2, <2>3
  <1>3. CASE SkipBlocked(s)
    <2>1. PauseAgreement' /\ OperationIsResumable'
      BY <1>3 DEF SkipBlocked, Visiting, Advance
    <2>2. CallDiscipline' /\ ControllersAreInUse'
      BY <1>3 DEF SkipBlocked, Visiting, Advance
    <2>3. PausedDependenciesOk' /\ EffectsWereApproved'
      BY <1>3 DEF SkipBlocked, Visiting, Advance
    <2> QED
      BY <1>1, <2>1, <2>2, <2>3
  <1>4. CASE RefuseUnfinished(s)
    <2>1. PauseAgreement' /\ OperationIsResumable'
      BY <1>4 DEF RefuseUnfinished, Visiting, Settled, Leave, NoOp
    <2>2. CallDiscipline' /\ ControllersAreInUse'
      BY <1>4 DEF RefuseUnfinished, Visiting, Settled, Leave, NoOp
    <2>3. PausedDependenciesOk' /\ EffectsWereApproved'
      BY <1>4 DEF RefuseUnfinished, Visiting, Settled, Leave, NoOp
    <2> QED
      BY <1>1, <2>1, <2>2, <2>3
  <1>5. CASE ResolverFails(s)
    <2>1. PauseAgreement' /\ OperationIsResumable'
      BY <1>5 DEF ResolverFails, Startable, Record, Advance, Visiting
    <2>2. CallDiscipline' /\ ControllersAreInUse'
      BY <1>5 DEF ResolverFails, Startable, Record, Advance, Visiting
    <2>3. PausedDependenciesOk' /\ EffectsWereApproved'
      BY <1>5 DEF ResolverFails, Startable, Record, Advance, Visiting
    <2> QED
      BY <1>1, <2>1, <2>2, <2>3
  <1>6. CASE RunTool(s)
    <2>1. PauseAgreement' /\ OperationIsResumable'
      BY <1>6 DEF RunTool, Startable, Record, Advance, Visiting, Leave,
         NoOp
    <2>2. CallDiscipline' /\ ControllersAreInUse'
      BY <1>6 DEF RunTool, Startable, Record, Advance, Visiting, Leave,
         NoOp
    <2>3. PausedDependenciesOk' /\ EffectsWereApproved'
      BY <1>6 DEF RunTool, Startable, Record, Advance, Visiting, Leave,
         NoOp
    <2> QED
      BY <1>1, <2>1, <2>2, <2>3
  <1>7. CASE ToolRaises(s)
    <2>1. PauseAgreement' /\ OperationIsResumable'
      BY <1>7 DEF ToolRaises, Startable, Leave, Visiting, NoOp
    <2>2. CallDiscipline' /\ ControllersAreInUse'
      BY <1>7 DEF ToolRaises, Startable, Leave, Visiting, NoOp
    <2>3. PausedDependenciesOk' /\ EffectsWereApproved'
      BY <1>7 DEF ToolRaises, Startable, Leave, Visiting, NoOp
    <2> QED
      BY <1>1, <2>1, <2>2, <2>3
  <1>8. CASE PauseTool(s)
    <2>1. PauseAgreement' /\ OperationIsResumable'
      BY <1>8 DEF PauseTool, Startable, Pause, Deliver, ToolOp, Visiting, NoOp
    <2>2. CallDiscipline' /\ ControllersAreInUse'
      BY <1>8 DEF PauseTool, Startable, Pause, Deliver, ToolOp, Visiting, NoOp
    <2>3. PausedDependenciesOk' /\ EffectsWereApproved'
      BY <1>8 DEF PauseTool, Startable, Pause, Deliver, ToolOp, Visiting, NoOp
    <2> QED
      BY <1>1, <2>1, <2>2, <2>3
  <1>9. CASE PauseCorrection(s)
    <2>1. PauseAgreement' /\ OperationIsResumable'
      BY <1>9 DEF PauseCorrection, Startable, Pause, Deliver, CorrectionOp,
         Visiting, NoOp
    <2>2. CallDiscipline' /\ ControllersAreInUse'
      BY <1>9 DEF PauseCorrection, Startable, Pause, Deliver, CorrectionOp,
         Visiting, NoOp
    <2>3. PausedDependenciesOk' /\ EffectsWereApproved'
      BY <1>9 DEF PauseCorrection, Startable, Pause, Deliver, CorrectionOp,
         Visiting, NoOp
    <2> QED
      BY <1>1, <2>1, <2>2, <2>3
  <1>10. CASE StartRefused(s)
    <2>1. PauseAgreement' /\ OperationIsResumable'
      BY <1>10 DEF StartRefused, Startable, AwaitCorrection, Leave, Visiting, NoOp
    <2>2. CallDiscipline' /\ ControllersAreInUse'
      BY <1>10 DEF StartRefused, Startable, AwaitCorrection, Leave, Visiting, NoOp
    <2>3. PausedDependenciesOk' /\ EffectsWereApproved'
      BY <1>10 DEF StartRefused, Startable, AwaitCorrection, Leave, Visiting, NoOp
    <2> QED
      BY <1>1, <2>1, <2>2, <2>3
  <1>11. CASE StartUnadaptable(s)
    <2>1. PauseAgreement' /\ OperationIsResumable'
      BY <1>11 DEF StartUnadaptable, Startable, Record, Advance, Visiting,
         Leave, NoOp
    <2>2. CallDiscipline' /\ ControllersAreInUse'
      BY <1>11 DEF StartUnadaptable, Startable, Record, Advance, Visiting,
         Leave, NoOp
    <2>3. PausedDependenciesOk' /\ EffectsWereApproved'
      BY <1>11 DEF StartUnadaptable, Startable, Record, Advance, Visiting,
         Leave, NoOp
    <2> QED
      BY <1>1, <2>1, <2>2, <2>3
  <1>12. CASE StartRaises(s)
    <2>1. PauseAgreement' /\ OperationIsResumable'
      BY <1>12 DEF StartRaises, Startable, RecordException, Leave, Visiting,
         Verdict, NoOp
    <2>2. CallDiscipline' /\ ControllersAreInUse'
      BY <1>12 DEF StartRaises, Startable, RecordException, Leave, Visiting,
         Verdict, NoOp
    <2>3. PausedDependenciesOk' /\ EffectsWereApproved'
      BY <1>12 DEF StartRaises, Startable, RecordException, Leave, Visiting,
         Verdict, NoOp
    <2> QED
      BY <1>1, <2>1, <2>2, <2>3
  <1> QED
    BY <1>2, <1>3, <1>4, <1>5, <1>6, <1>7, <1>8, <1>9, <1>10, <1>11, <1>12 DEF
       Visit

-----------------------------------------------------------------------------
(* The effect of an approved operation. *)

\* The effect of an approved operation keeps the types.
LEMMA EffectTypes ==
  ASSUME IInv, Effect
  PROVE  TypeOK'
  <1> USE OperationTypes, CallTypes, FieldTypes DEF IInv, CallDiscipline, TypeOK,
         StepStatuses, WorkflowStatuses, ApprovalStatuses, CorrectionStatuses
  <1>1. CASE ToolCompletes
    <2>1. op' \in Operations /\ call' \in Calls
      BY <1>1, SlotTypes DEF InEffect, ToolCompletes
    <2>2. PICK status \in {"ok", "failed", "partial"} : Record(call.step, status)
      BY <1>1 DEF ToolCompletes
    <2> QED
      BY <1>1, <2>1, <2>2 DEF ToolCompletes, Record, InEffect
  <1>2. CASE ApprovedToolRaises
    <2>1. op' \in Operations /\ call' \in Calls
      BY <1>2, SlotTypes DEF InEffect, ApprovedToolRaises
    <2> QED
      BY <1>2, <2>1 DEF Verdict, InEffect, ApprovedToolRaises
  <1>3. CASE RedTestOpensCorrection
    <2>1. op' \in Operations /\ call' \in Calls
      BY <1>3, SlotTypes DEF InEffect, RedTestOpensCorrection
    <2> QED
      BY <1>3, <2>1 DEF AwaitCorrection, InEffect, RedTestOpensCorrection
  <1>4. CASE RedTestRefused
    <2>1. op' \in Operations /\ call' \in Calls
      BY <1>4, SlotTypes DEF InEffect, RedTestRefused
    <2> QED
      BY <1>4, <2>1 DEF InEffect, RedTestRefused
  <1>5. CASE CorrectionEnds
    <2>1. op' \in Operations /\ call' \in Calls
      BY <1>5, SlotTypes DEF InEffect, CorrectionEnds
    <2>2. corr' \in [Steps -> CorrectionStatuses]
      BY <1>5 DEF CorrectionEnds
    <2>3. st' \in [Steps -> StepStatuses] /\ wf' = "running"
           /\ awaiting' = None /\ request' = None
      BY <1>5 DEF CorrectionEnds, Record, CorrectionOutcome
    <2> QED
      BY <1>5, <2>1, <2>2, <2>3 DEF CorrectionEnds, InEffect
  <1>6. CASE CorrectionStaysRed
    <2>1. op' \in Operations /\ call' \in Calls
      BY <1>6, SlotTypes DEF InEffect, CorrectionStaysRed
    <2> QED
      BY <1>6, <2>1 DEF AwaitCorrection, InEffect, CorrectionStaysRed
  <1>7. CASE CorrectionRaises
    <2>1. op' \in Operations /\ call' \in Calls
      BY <1>7, SlotTypes DEF InEffect, CorrectionRaises
    <2>2. corr' \in [Steps -> CorrectionStatuses]
      BY <1>7 DEF CorrectionRaises
    <2>3. st' \in [Steps -> StepStatuses] /\ wf' \in WorkflowStatuses /\ ctl' \subseteq Steps
           /\ awaiting' = None /\ request' = None
      BY <1>7 DEF CorrectionRaises, RecordException, Verdict
    <2> QED
      BY <1>7, <2>1, <2>2, <2>3 DEF CorrectionRaises
  <1> QED
    BY <1>1, <1>2, <1>3, <1>4, <1>5, <1>6, <1>7 DEF Effect

\* The effect of an approved operation preserves the invariant.
LEMMA EffectPreserves ==
  ASSUME IInv, Effect
  PROVE  IInv'
  <1>1. TypeOK'
    BY EffectTypes
  <1> USE PlanAssumption DEF Steps, None, IInv, TypeOK, PauseAgreement,
         OperationIsResumable, CallDiscipline, ControllersAreInUse,
         PausedDependenciesOk, EffectsWereApproved, WaitsFor, NeedsApproval,
         Blocked, Idle, Calls, Operations
  <1>2. CASE ToolCompletes
    <2>1. PauseAgreement' /\ OperationIsResumable'
      BY <1>2 DEF ToolCompletes, InEffect, Record, LoopAfterEffect, Leave,
         LoopOf, NoOp
    <2>2. CallDiscipline' /\ ControllersAreInUse'
      BY <1>2 DEF ToolCompletes, InEffect, Record, LoopAfterEffect, Leave,
         LoopOf, NoOp
    <2>3. PausedDependenciesOk' /\ EffectsWereApproved'
      BY <1>2 DEF ToolCompletes, InEffect, Record, LoopAfterEffect, Leave,
         LoopOf, NoOp
    <2> QED
      BY <1>1, <2>1, <2>2, <2>3
  <1>3. CASE ApprovedToolRaises
    <2>1. PauseAgreement' /\ OperationIsResumable'
      BY <1>3 DEF ApprovedToolRaises, InEffect, Verdict, Leave, NoOp
    <2>2. CallDiscipline' /\ ControllersAreInUse'
      BY <1>3 DEF ApprovedToolRaises, InEffect, Verdict, Leave, NoOp
    <2>3. PausedDependenciesOk' /\ EffectsWereApproved'
      BY <1>3 DEF ApprovedToolRaises, InEffect, Verdict, Leave, NoOp
    <2> QED
      BY <1>1, <2>1, <2>2, <2>3
  <1>4. CASE RedTestOpensCorrection
    <2>1. PauseAgreement' /\ OperationIsResumable'
      BY <1>4 DEF RedTestOpensCorrection, InEffect, AwaitCorrection, Leave, NoOp
    <2>2. CallDiscipline' /\ ControllersAreInUse'
      BY <1>4 DEF RedTestOpensCorrection, InEffect, AwaitCorrection, Leave, NoOp
    <2>3. PausedDependenciesOk' /\ EffectsWereApproved'
      BY <1>4 DEF RedTestOpensCorrection, InEffect, AwaitCorrection, Leave, NoOp
    <2> QED
      BY <1>1, <2>1, <2>2, <2>3
  <1>5. CASE RedTestRefused
    <2>1. PauseAgreement' /\ OperationIsResumable'
      BY <1>5 DEF RedTestRefused, InEffect, Leave, NoOp
    <2>2. CallDiscipline' /\ ControllersAreInUse'
      BY <1>5 DEF RedTestRefused, InEffect, Leave, NoOp
    <2>3. PausedDependenciesOk' /\ EffectsWereApproved'
      BY <1>5 DEF RedTestRefused, InEffect, Leave, NoOp
    <2> QED
      BY <1>1, <2>1, <2>2, <2>3
  <1>6. CASE CorrectionEnds
    <2>1. PauseAgreement' /\ OperationIsResumable'
      BY <1>6 DEF CorrectionEnds, InEffect, Record, CorrectionOutcome, LoopAfterEffect, Leave, LoopOf, NoOp
    <2>2. CallDiscipline' /\ ControllersAreInUse'
      BY <1>6 DEF CorrectionEnds, InEffect, Record, CorrectionOutcome, LoopAfterEffect, Leave, LoopOf, NoOp
    <2>3. PausedDependenciesOk' /\ EffectsWereApproved'
      BY <1>6 DEF CorrectionEnds, InEffect, Record, CorrectionOutcome, LoopAfterEffect, Leave, LoopOf, NoOp
    <2> QED
      BY <1>1, <2>1, <2>2, <2>3
  <1>7. CASE CorrectionStaysRed
    <2>1. PauseAgreement' /\ OperationIsResumable'
      BY <1>7 DEF CorrectionStaysRed, InEffect, AwaitCorrection, Leave, NoOp
    <2>2. CallDiscipline' /\ ControllersAreInUse'
      BY <1>7 DEF CorrectionStaysRed, InEffect, AwaitCorrection, Leave, NoOp
    <2>3. PausedDependenciesOk' /\ EffectsWereApproved'
      BY <1>7 DEF CorrectionStaysRed, InEffect, AwaitCorrection, Leave, NoOp
    <2> QED
      BY <1>1, <2>1, <2>2, <2>3
  <1>8. CASE CorrectionRaises
    <2>1. PauseAgreement' /\ OperationIsResumable'
      BY <1>8 DEF CorrectionRaises, InEffect, RecordException, Leave, Verdict, NoOp
    <2>2. CallDiscipline' /\ ControllersAreInUse'
      BY <1>8 DEF CorrectionRaises, InEffect, RecordException, Leave, Verdict, NoOp
    <2>3. PausedDependenciesOk' /\ EffectsWereApproved'
      BY <1>8 DEF CorrectionRaises, InEffect, RecordException, Leave, Verdict, NoOp
    <2> QED
      BY <1>1, <2>1, <2>2, <2>3
  <1> QED
    BY <1>2, <1>3, <1>4, <1>5, <1>6, <1>7, <1>8 DEF Effect

-----------------------------------------------------------------------------
(* A decision of the user. *)

\* A decision of the user keeps the types.
LEMMA UserTypes ==
  ASSUME IInv, User
  PROVE  TypeOK'
  <1> USE OperationTypes, CallTypes, FieldTypes DEF IInv, CallDiscipline, TypeOK,
         StepStatuses, WorkflowStatuses, ApprovalStatuses, CorrectionStatuses
  <1>1. CASE Approve
    <2>1. op' \in Operations /\ call' \in Calls
      BY <1>1, SlotTypes DEF Approve
    <2> QED
      BY <1>1, <2>1 DEF Approve
  <1>2. CASE DeclineTool
    <2>1. op' \in Operations /\ call' \in Calls
      BY <1>2, SlotTypes DEF DeclineTool
    <2>2. PICK verdict \in {"denied", "cancelled"} : MarkCancelled(op.step, verdict)
      BY <1>2 DEF DeclineTool
    <2> QED
      BY <1>2, <2>1, <2>2 DEF DeclineTool, MarkCancelled
  <1>3. CASE DeclineCorrection
    <2>1. op' \in Operations /\ call' \in Calls
      BY <1>3, SlotTypes DEF DeclineCorrection
    <2>2. PICK verdict \in {"denied", "cancelled"} : MarkCancelled(op.step, verdict)
      BY <1>3 DEF DeclineCorrection
    <2> QED
      BY <1>3, <2>1, <2>2 DEF DeclineCorrection, MarkCancelled
  <1>4. CASE RejectReopens
    <2>1. op' \in Operations /\ call' \in Calls
      BY <1>4, SlotTypes DEF RejectReopens
    <2> QED
      BY <1>4, <2>1 DEF AwaitCorrection, RejectReopens
  <1>5. CASE DeclineStale
    <2>1. op' \in Operations /\ call' \in Calls
      BY <1>5, SlotTypes DEF DeclineStale
    <2> QED
      BY <1>5, <2>1 DEF DeclineStale
  <1>6. CASE Invalidate
    <2>1. op' \in Operations /\ call' \in Calls
      BY <1>6, SlotTypes DEF Invalidate
    <2> QED
      BY <1>6, <2>1 DEF MarkCancelled, Invalidate
  <1>7. CASE SubmitPauses
    <2>1. op' \in Operations /\ call' \in Calls
      BY <1>7, SlotTypes DEF None, AwaitsProposal, SubmitPauses
    <2> QED
      BY <1>7, <2>1 DEF Pause, AwaitsProposal, SubmitPauses
  <1>8. CASE SubmitRaises
    <2>1. op' \in Operations /\ call' \in Calls
      BY <1>8, SlotTypes DEF AwaitsProposal, SubmitRaises
    <2>2. corr' \in [Steps -> CorrectionStatuses]
      BY <1>8 DEF SubmitRaises
    <2>3. st' \in [Steps -> StepStatuses] /\ wf' \in WorkflowStatuses /\ ctl' \subseteq Steps
           /\ awaiting' = None /\ request' = None
      BY <1>8 DEF SubmitRaises, RecordException, Verdict
    <2> QED
      BY <1>8, <2>1, <2>2, <2>3 DEF SubmitRaises
  <1>9. CASE Abort
    <2>1. op' \in Operations /\ call' \in Calls
      BY <1>9, SlotTypes DEF AwaitsProposal, Abort
    <2> QED
      BY <1>9, <2>1 DEF Record, AwaitsProposal, Abort
  <1>10. CASE Rerun
    <2>1. op' \in Operations /\ call' \in Calls
      BY <1>10, SlotTypes DEF Rerun
    <2> QED
      BY <1>10, <2>1 DEF Rerun
  <1>11. CASE OtherRequest
    <2>1. op' \in Operations /\ call' \in Calls
      BY <1>11, SlotTypes DEF OtherRequest
    <2> QED
      BY <1>11, <2>1 DEF OtherRequest
  <1> QED
    BY <1>1, <1>2, <1>3, <1>4, <1>5, <1>6, <1>7, <1>8, <1>9, <1>10, <1>11 DEF User

\* A decision of the user preserves the invariant.
LEMMA UserPreserves ==
  ASSUME IInv, User
  PROVE  IInv'
  <1>1. TypeOK'
    BY UserTypes
  <1> USE PlanAssumption DEF Steps, None, IInv, TypeOK, PauseAgreement,
         OperationIsResumable, CallDiscipline, ControllersAreInUse,
         PausedDependenciesOk, EffectsWereApproved, WaitsFor, NeedsApproval,
         Blocked, Idle, Calls, Operations
  <1>2. CASE Approve
    <2>1. PauseAgreement' /\ OperationIsResumable'
      BY <1>2 DEF Approve, EffectOf
    <2>2. CallDiscipline' /\ ControllersAreInUse'
      BY <1>2 DEF Approve, EffectOf
    <2>3. PausedDependenciesOk' /\ EffectsWereApproved'
      BY <1>2 DEF Approve, EffectOf
    <2> QED
      BY <1>1, <2>1, <2>2, <2>3
  <1>3. CASE DeclineTool
    <2>1. PauseAgreement' /\ OperationIsResumable'
      BY <1>3 DEF DeclineTool, MarkCancelled, NoOp
    <2>2. CallDiscipline' /\ ControllersAreInUse'
      BY <1>3 DEF DeclineTool, MarkCancelled, NoOp
    <2>3. PausedDependenciesOk' /\ EffectsWereApproved'
      BY <1>3 DEF DeclineTool, MarkCancelled, NoOp
    <2> QED
      BY <1>1, <2>1, <2>2, <2>3
  <1>4. CASE DeclineCorrection
    <2>1. PauseAgreement' /\ OperationIsResumable'
      BY <1>4 DEF DeclineCorrection, MarkCancelled, NoOp
    <2>2. CallDiscipline' /\ ControllersAreInUse'
      BY <1>4 DEF DeclineCorrection, MarkCancelled, NoOp
    <2>3. PausedDependenciesOk' /\ EffectsWereApproved'
      BY <1>4 DEF DeclineCorrection, MarkCancelled, NoOp
    <2> QED
      BY <1>1, <2>1, <2>2, <2>3
  <1>5. CASE RejectReopens
    <2>1. PauseAgreement' /\ OperationIsResumable'
      BY <1>5 DEF RejectReopens, AwaitCorrection, NoOp
    <2>2. CallDiscipline' /\ ControllersAreInUse'
      BY <1>5 DEF RejectReopens, AwaitCorrection, NoOp
    <2>3. PausedDependenciesOk' /\ EffectsWereApproved'
      BY <1>5 DEF RejectReopens, AwaitCorrection, NoOp
    <2> QED
      BY <1>1, <2>1, <2>2, <2>3
  <1>6. CASE DeclineStale
    <2>1. PauseAgreement' /\ OperationIsResumable'
      BY <1>6 DEF DeclineStale, NoOp
    <2>2. CallDiscipline' /\ ControllersAreInUse'
      BY <1>6 DEF DeclineStale, NoOp
    <2>3. PausedDependenciesOk' /\ EffectsWereApproved'
      BY <1>6 DEF DeclineStale, NoOp
    <2> QED
      BY <1>1, <2>1, <2>2, <2>3
  <1>7. CASE Invalidate
    <2>1. PauseAgreement' /\ OperationIsResumable'
      BY <1>7 DEF Invalidate, MarkCancelled, NoOp
    <2>2. CallDiscipline' /\ ControllersAreInUse'
      BY <1>7 DEF Invalidate, MarkCancelled, NoOp
    <2>3. PausedDependenciesOk' /\ EffectsWereApproved'
      BY <1>7 DEF Invalidate, MarkCancelled, NoOp
    <2> QED
      BY <1>1, <2>1, <2>2, <2>3
  <1>8. CASE SubmitPauses
    <2>1. PauseAgreement' /\ OperationIsResumable'
      BY <1>8 DEF SubmitPauses, AwaitsProposal, Pause, NoOp, CorrectionOp
    <2>2. CallDiscipline' /\ ControllersAreInUse'
      BY <1>8 DEF SubmitPauses, AwaitsProposal, Pause, NoOp, CorrectionOp
    <2>3. PausedDependenciesOk' /\ EffectsWereApproved'
      BY <1>8 DEF SubmitPauses, AwaitsProposal, Pause, NoOp, CorrectionOp
    <2> QED
      BY <1>1, <2>1, <2>2, <2>3
  <1>9. CASE SubmitRaises
    <2>1. PauseAgreement' /\ OperationIsResumable'
      BY <1>9 DEF SubmitRaises, AwaitsProposal, RecordException, Verdict
    <2>2. CallDiscipline' /\ ControllersAreInUse'
      BY <1>9 DEF SubmitRaises, AwaitsProposal, RecordException, Verdict
    <2>3. PausedDependenciesOk' /\ EffectsWereApproved'
      BY <1>9 DEF SubmitRaises, AwaitsProposal, RecordException, Verdict
    <2> QED
      BY <1>1, <2>1, <2>2, <2>3
  <1>10. CASE Abort
    <2>1. PauseAgreement' /\ OperationIsResumable'
      BY <1>10 DEF Abort, AwaitsProposal, Record, LoopOf
    <2>2. CallDiscipline' /\ ControllersAreInUse'
      BY <1>10 DEF Abort, AwaitsProposal, Record, LoopOf
    <2>3. PausedDependenciesOk' /\ EffectsWereApproved'
      BY <1>10 DEF Abort, AwaitsProposal, Record, LoopOf
    <2> QED
      BY <1>1, <2>1, <2>2, <2>3
  <1>11. CASE Rerun
    <2>1. PauseAgreement' /\ OperationIsResumable'
      BY <1>11 DEF Rerun, LoopOf
    <2>2. CallDiscipline' /\ ControllersAreInUse'
      BY <1>11 DEF Rerun, LoopOf
    <2>3. PausedDependenciesOk' /\ EffectsWereApproved'
      BY <1>11 DEF Rerun, LoopOf
    <2> QED
      BY <1>1, <2>1, <2>2, <2>3
  <1>12. CASE OtherRequest
    <2>1. PauseAgreement' /\ OperationIsResumable'
      BY <1>12 DEF OtherRequest, NoOp, OtherOp
    <2>2. CallDiscipline' /\ ControllersAreInUse'
      BY <1>12 DEF OtherRequest, NoOp, OtherOp
    <2>3. PausedDependenciesOk' /\ EffectsWereApproved'
      BY <1>12 DEF OtherRequest, NoOp, OtherOp
    <2> QED
      BY <1>1, <2>1, <2>2, <2>3
  <1> QED
    BY <1>2, <1>3, <1>4, <1>5, <1>6, <1>7, <1>8, <1>9, <1>10, <1>11, <1>12 DEF User

-----------------------------------------------------------------------------
(* The theorems.                                                           *)

\* The end of the loop: the verdict is given and the call returns.
LEMMA FinishPreserves ==
  ASSUME IInv, Finish
  PROVE  IInv'
  <1>1. op' \in Operations /\ call' \in Calls
    BY SlotTypes DEF IInv, Finish
  <1>2. TypeOK'
    BY <1>1 DEF IInv, TypeOK, Finish, Verdict, WorkflowStatuses
  <1>3. PauseAgreement' /\ OperationIsResumable' /\ CallDiscipline'
    BY FieldTypes DEF IInv, TypeOK, PauseAgreement, OperationIsResumable,
       CallDiscipline, Finish, Visiting, Verdict, Leave, Idle, NoOp, WaitsFor
  <1>4. ControllersAreInUse'
    BY DEF IInv, ControllersAreInUse, Finish, Visiting
  <1>5. PausedDependenciesOk' /\ EffectsWereApproved'
    BY DEF IInv, PausedDependenciesOk, EffectsWereApproved, Blocked, Finish
  <1> QED
    BY <1>2, <1>3, <1>4, <1>5 DEF IInv

\* The invariant holds of a fresh runtime.
LEMMA InitEstablishes ==
  ASSUME Init
  PROVE  IInv
  <1>1. op \in Operations /\ call \in Calls
    BY OperationTypes, CallTypes DEF Init
  <1>2. TypeOK
    BY <1>1 DEF Init, TypeOK, WorkflowStatuses, StepStatuses, ApprovalStatuses, CorrectionStatuses
  <1>3. PauseAgreement /\ OperationIsResumable /\ CallDiscipline
    BY DEF Init, PauseAgreement, OperationIsResumable, CallDiscipline, NoOp, OtherOp, LoopOf
  <1>4. ControllersAreInUse /\ PausedDependenciesOk /\ EffectsWereApproved
    BY DEF Init, ControllersAreInUse, PausedDependenciesOk, EffectsWereApproved
  <1> QED
    BY <1>2, <1>3, <1>4 DEF IInv

\* Every step of the engine and of its user preserves the invariant.
LEMMA NextPreserves ==
  ASSUME IInv, [Next]_vars
  PROVE  IInv'
  <1>1. CASE \E s \in Steps : Visit(s)
    BY <1>1, VisitPreserves
  <1>2. CASE Effect
    BY <1>2, EffectPreserves
  <1>3. CASE Finish
    BY <1>3, FinishPreserves
  <1>4. CASE User
    BY <1>4, UserPreserves
  <1>5. CASE UNCHANGED vars
    BY <1>5 DEF vars, IInv, TypeOK, PauseAgreement, OperationIsResumable, CallDiscipline,
       ControllersAreInUse, PausedDependenciesOk, EffectsWereApproved, WaitsFor, Blocked
  <1> QED
    BY <1>1, <1>2, <1>3, <1>4, <1>5 DEF Next, Machine

\* The invariant holds in every behaviour of the engine, whatever the plan.
THEOREM Invariance == Spec => []IInv
  <1>1. Init => IInv
    BY InitEstablishes
  <1>2. IInv /\ [Next]_vars => IInv'
    BY NextPreserves
  <1> QED
    BY <1>1, <1>2, PTL DEF Spec

\* Every status is one of the code's literals, every pointer names a step.
THEOREM TypeCorrect == Spec => []TypeOK
  <1>1. IInv => TypeOK
    BY DEF IInv
  <1> QED
    BY <1>1, Invariance, PTL

\* The runtime and its steps always agree on what the workflow waits for.
THEOREM PausesAgree == Spec => []PauseAgreement
  <1>1. IInv => PauseAgreement
    BY DEF IInv
  <1> QED
    BY <1>1, Invariance, PTL

\* Whatever the user decides, the operation in the slot can be carried out.
THEOREM OperationsAreResumable == Spec => []OperationIsResumable
  <1>1. IInv => OperationIsResumable
    BY DEF IInv
  <1> QED
    BY <1>1, Invariance, PTL

\* No result of a gated tool and no correction without an approval.
THEOREM ResultsAreApproved == Spec => []EffectsWereApproved
  <1>1. IInv => EffectsWereApproved
    BY DEF IInv
  <1> QED
    BY <1>1, Invariance, PTL

\* A workflow that ended has no operation and no correction controller left: they
\* belong to steps that wait or to a call that runs, and there is neither.
THEOREM NothingOutlives == Spec => []NothingOutlivesTheWorkflow
  <1>1. IInv => NothingOutlivesTheWorkflow
    <2>1. SUFFICES ASSUME IInv, wf \in Terminal
                   PROVE  op.kind \notin {"tool", "correction"} /\ ctl = {}
      BY DEF NothingOutlivesTheWorkflow
    <2>2. call = Idle
      BY <2>1 DEF IInv, CallDiscipline, Terminal
    <2>3. op.kind \notin {"tool", "correction"}
      BY <2>1, <2>2 DEF IInv, OperationIsResumable, Terminal
    <2>4. ctl = {}
      BY <2>1, <2>2 DEF IInv, TypeOK, ControllersAreInUse, PauseAgreement, Idle, Terminal
    <2> QED
      BY <2>3, <2>4
  <1> QED
    BY <1>1, Invariance, PTL

-----------------------------------------------------------------------------
(* The engine implements WorkflowLifecycle.                                *)

\* What a step's change of status is for the lifecycle: settling it...
LEMMA SettlingOutcome ==
  ASSUME TypeOK, NEW s \in Steps, NEW r \in Settled, st' = [st EXCEPT ![s] = r]
  PROVE  Outcome' = [Outcome EXCEPT ![s] = r]
  BY DEF TypeOK, Outcome

\* ... or nothing, as long as it stays open.
LEMMA OpenOutcome ==
  ASSUME TypeOK, NEW s \in Steps, st[s] \notin Settled,
         NEW r \in StepStatuses \ Settled, st' = [st EXCEPT ![s] = r]
  PROVE  Outcome' = Outcome
  BY DEF TypeOK, Outcome

\* Both sides agree on what is open and on what is ok.
LEMMA OutcomeAgrees ==
  ASSUME NEW s \in Steps
  PROVE  /\ (Outcome[s] = "open") = (st[s] \notin Settled)
         /\ (Outcome[s] = "ok") = (st[s] = "ok")
         /\ Lifecycle!AllOk(Deps[s]) = ~Blocked(s)
  BY PlanAssumption DEF Outcome, Settled, Lifecycle!AllOk, Blocked

\* The verdict of the engine is the verdict of the lifecycle.
LEMMA VerdictAgrees ==
  ASSUME NEW status, NEW result,
         \A s \in Steps : (result[s] = "ok") = (status[s] = "ok")
  PROVE  Lifecycle!VerdictOn(result) = Verdict(status)
  BY PlanAssumption DEF Lifecycle!VerdictOn, Verdict

\* A step that gets a result, by whatever action, settles in the lifecycle.
LEMMA SettlingStep ==
  ASSUME TypeOK, NEW s \in Steps, NEW r \in Settled, st' = [st EXCEPT ![s] = r],
         st[s] \notin Settled,
         wf = "running" \/ (wf = "awaiting_correction" /\ awaiting = s /\ r = "failed"),
         r = "ok" => ~Blocked(s), r = "skipped" => Blocked(s),
         wf' \in {"running", Verdict(st')}, awaiting' = None
  PROVE  Lifecycle!Next
  <1>1. Outcome' = [Outcome EXCEPT ![s] = r]
    BY SettlingOutcome
  <1>2. Lifecycle!VerdictOn(Outcome') = Verdict(st')
    <2>1. \A x \in Steps : (Outcome'[x] = "ok") = (st'[x] = "ok")
      BY DEF TypeOK, Outcome, Settled
    <2> QED
      BY <2>1, VerdictAgrees
  <1>3. Lifecycle!Settle(s, r)
    BY <1>1, <1>2, OutcomeAgrees DEF Lifecycle!Settle
  <1> QED
    BY <1>3 DEF Lifecycle!Next, Settled

\* A step that starts to wait, or waits in the other way, waits in the lifecycle.
LEMMA WaitingStep ==
  ASSUME TypeOK, NEW s \in Steps,
         NEW r \in {"awaiting_approval", "awaiting_correction"},
         st' = [st EXCEPT ![s] = r], st[s] \notin Settled, ~Blocked(s),
         wf = "running" \/ (wf \in {"awaiting_approval", "awaiting_correction"}
                            /\ awaiting = s),
         wf' = r, awaiting' = s
  PROVE  Lifecycle!Next
  <1>1. Outcome' = Outcome
    BY OpenOutcome DEF StepStatuses, Settled
  <1> QED
    BY <1>1, OutcomeAgrees DEF Lifecycle!Wait, Lifecycle!Next

\* The loop: a step is passed, settled, or waits.
LEMMA VisitImplements ==
  ASSUME IInv, NEW s \in Steps, Visit(s)
  PROVE  Lifecycle!Next \/ UNCHANGED <<wf, Outcome, awaiting>>
  <1>1. TypeOK /\ wf = "running" /\ awaiting = None
    BY DEF IInv, CallDiscipline, Visit, PassSettled, SkipBlocked, RefuseUnfinished,
       ResolverFails, RunTool, ToolRaises, PauseTool, PauseCorrection, StartRefused,
       StartUnadaptable, StartRaises, Startable, Visiting
  <1>2. CASE PassSettled(s) \/ RefuseUnfinished(s)
    BY <1>2 DEF PassSettled, RefuseUnfinished, Outcome
  <1>3. CASE SkipBlocked(s)
    BY <1>1, <1>3, SettlingStep DEF SkipBlocked, Settled
  <1>4. CASE ResolverFails(s) \/ StartUnadaptable(s)
    BY <1>1, <1>4, SettlingStep
       DEF ResolverFails, StartUnadaptable, Startable, Record, Settled
  <1>5. CASE RunTool(s)
    BY <1>1, <1>5, SettlingStep DEF RunTool, Startable, Record, Settled
  <1>6. CASE ToolRaises(s)
    BY <1>1, <1>6, OpenOutcome DEF ToolRaises, Startable, StepStatuses, Settled
  <1>7. CASE PauseTool(s) \/ PauseCorrection(s)
    BY <1>1, <1>7, WaitingStep DEF PauseTool, PauseCorrection, Startable, Pause, Settled
  <1>8. CASE StartRefused(s)
    BY <1>1, <1>8, WaitingStep DEF StartRefused, Startable, AwaitCorrection, Settled
  <1>9. CASE StartRaises(s)
    BY <1>1, <1>9, SettlingStep DEF StartRaises, Startable, RecordException, Settled
  <1> QED
    BY <1>2, <1>3, <1>4, <1>5, <1>6, <1>7, <1>8, <1>9 DEF Visit

\* The effect of an approved operation settles its step, or makes it wait.
LEMMA EffectImplements ==
  ASSUME IInv, Effect
  PROVE  Lifecycle!Next \/ UNCHANGED <<wf, Outcome, awaiting>>
  <1> DEFINE s == call.step
  <1>1. TypeOK /\ wf = "running" /\ awaiting = None /\ s \in Steps /\ ~Blocked(s)
        /\ st[s] = "running"
    BY DEF IInv, CallDiscipline, Effect, ToolCompletes, ApprovedToolRaises,
       RedTestOpensCorrection, RedTestRefused, CorrectionEnds, CorrectionStaysRed,
       CorrectionRaises, InEffect
  <1>2. st[s] \notin Settled
    BY <1>1 DEF Settled
  <1> HIDE DEF s
  <1>3. CASE ToolCompletes
    BY <1>1, <1>2, <1>3, SettlingStep DEF ToolCompletes, Record, Settled, s
  <1>4. CASE ApprovedToolRaises
    BY <1>1, <1>2, <1>4, SettlingStep DEF ApprovedToolRaises, Settled, s
  <1>5. CASE RedTestOpensCorrection \/ CorrectionStaysRed
    BY <1>1, <1>2, <1>5, WaitingStep
       DEF RedTestOpensCorrection, CorrectionStaysRed, AwaitCorrection, s
  <1>6. CASE RedTestRefused
    BY <1>6 DEF RedTestRefused, Outcome
  <1>7. CASE CorrectionEnds
    BY <1>1, <1>2, <1>7, SettlingStep
       DEF CorrectionEnds, CorrectionOutcome, Record, Settled, s
  <1>8. CASE CorrectionRaises
    BY <1>1, <1>2, <1>8, SettlingStep DEF CorrectionRaises, RecordException, Settled, s
  <1> QED
    BY <1>3, <1>4, <1>5, <1>6, <1>7, <1>8 DEF Effect

\* The verdict ends the lifecycle.
LEMMA FinishImplements ==
  ASSUME IInv, Finish
  PROVE  Lifecycle!Next
  <1>1. wf = "running" /\ UNCHANGED Outcome
    BY DEF IInv, CallDiscipline, Finish, Visiting, Outcome
  <1>2. Lifecycle!VerdictOn(Outcome) = Verdict(st)
    BY OutcomeAgrees, VerdictAgrees
  <1> QED
    BY <1>1, <1>2 DEF Finish, Lifecycle!Finish, Lifecycle!Next

\* Cancelling a paused step cancels the lifecycle.
LEMMA CancellingStep ==
  ASSUME TypeOK, NEW s \in Steps, NEW verdict, MarkCancelled(s, verdict),
         wf = "awaiting_approval", awaiting = s
  PROVE  Lifecycle!Next
  <1>1. Outcome' = [Outcome EXCEPT ![s] = "skipped"]
    BY SettlingOutcome DEF MarkCancelled, Settled
  <1> QED
    BY <1>1 DEF MarkCancelled, Lifecycle!Cancel, Lifecycle!Next

\* What the user decides is an approval, a cancellation, a wait or a new run.
LEMMA UserImplements ==
  ASSUME IInv, User
  PROVE  Lifecycle!Next \/ UNCHANGED <<wf, Outcome, awaiting>>
  <1>1. TypeOK
    BY DEF IInv
  <1>2. op.kind \in {"tool", "correction"} /\ call = Idle =>
           /\ wf = "awaiting_approval" /\ awaiting = op.step /\ op.step \in Steps
           /\ st[op.step] = "awaiting_approval" /\ ~Blocked(op.step)
    BY DEF IInv, OperationIsResumable, PauseAgreement, PausedDependenciesOk, WaitsFor
  <1>3. AwaitsProposal =>
           /\ awaiting \in Steps /\ st[awaiting] = "awaiting_correction"
           /\ wf = "awaiting_correction" /\ ~Blocked(awaiting)
    BY DEF IInv, AwaitsProposal, PauseAgreement, PausedDependenciesOk, WaitsFor
  <1>4. CASE Approve
    <2>1. Outcome' = Outcome
      BY <1>1, <1>2, <1>4, OpenOutcome DEF Approve, StepStatuses, Settled
    <2> QED
      BY <1>4, <2>1 DEF Approve, Lifecycle!Approve, Lifecycle!Next
  <1>5. CASE DeclineTool \/ DeclineCorrection \/ Invalidate
    BY <1>1, <1>2, <1>5, CancellingStep DEF DeclineTool, DeclineCorrection, Invalidate
  <1>6. CASE RejectReopens
    BY <1>1, <1>2, <1>6, WaitingStep DEF RejectReopens, AwaitCorrection, Settled
  <1>7. CASE DeclineStale \/ OtherRequest
    BY <1>7 DEF DeclineStale, OtherRequest, Outcome
  <1>8. CASE SubmitPauses
    BY <1>1, <1>3, <1>8, WaitingStep DEF SubmitPauses, Pause, Settled
  <1>9. CASE SubmitRaises
    BY <1>1, <1>3, <1>9, SettlingStep DEF SubmitRaises, RecordException, Settled
  <1>10. CASE Abort
    BY <1>1, <1>3, <1>10, SettlingStep DEF Abort, Record, Settled
  <1>11. CASE Rerun
    <2>1. Outcome' = [x \in Steps |-> IF Outcome[x] = "ok" /\ x \in Repeat
                                      THEN "open" ELSE Outcome[x]]
      BY <1>1, <1>11 DEF Rerun, TypeOK, Outcome, Settled
    <2> QED
      BY <1>11, <2>1 DEF Rerun, Lifecycle!RunAgain, Lifecycle!Next
  <1> QED
    BY <1>4, <1>5, <1>6, <1>7, <1>8, <1>9, <1>10, <1>11 DEF User

\* Every behaviour of the engine is one of the lifecycle.
THEOREM Implementation == Spec => LifecycleSpec
  <1>1. Init => Lifecycle!Init
    BY DEF Init, Lifecycle!Init, Outcome, Settled
  <1>2. IInv /\ [Next]_vars => [Lifecycle!Next]_(Lifecycle!vars)
    <2>1. SUFFICES ASSUME IInv, [Next]_vars
                   PROVE  Lifecycle!Next \/ UNCHANGED <<wf, Outcome, awaiting>>
      BY DEF Lifecycle!vars
    <2>2. CASE \E s \in Steps : Visit(s)
      BY <2>1, <2>2, VisitImplements
    <2>3. CASE Effect
      BY <2>1, <2>3, EffectImplements
    <2>4. CASE Finish
      BY <2>1, <2>4, FinishImplements
    <2>5. CASE User
      BY <2>1, <2>5, UserImplements
    <2>6. CASE UNCHANGED vars
      BY <2>6 DEF vars, Outcome
    <2> QED
      BY <2>1, <2>2, <2>3, <2>4, <2>5, <2>6 DEF Next, Machine
  <1> QED
    BY <1>1, <1>2, Invariance, PTL DEF Spec, LifecycleSpec, Lifecycle!Spec

\* A step that needs approval gets its result from the effect of its own
\* operation, never from an approval of an earlier start.
THEOREM StartsAreApproved == Spec => EveryStartIsApproved
  <1>1. IInv /\ [Next]_vars =>
          [ \A s \in Steps :
              NeedsApproval(s) /\ st[s] \notin {"ok", "partial"} /\ st'[s] \in {"ok", "partial"}
                => call.at = "effect" /\ call.step = s /\ op.step = s /\ st[s] = "running" ]_vars
    <2>1. SUFFICES ASSUME IInv, Next, NEW s \in Steps, NeedsApproval(s),
                          st[s] \notin {"ok", "partial"}, st'[s] \in {"ok", "partial"}
                   PROVE  call.at = "effect" /\ call.step = s /\ op.step = s
                          /\ st[s] = "running"
      OBVIOUS
    <2>2. ASSUME NEW x \in Steps, Visit(x)  PROVE FALSE
      BY <2>1, <2>2 DEF IInv, TypeOK, Visit, PassSettled, SkipBlocked, RefuseUnfinished,
         ResolverFails, RunTool, ToolRaises, PauseTool, PauseCorrection, StartRefused,
         StartUnadaptable, StartRaises, Startable, Record, RecordException, Pause,
         AwaitCorrection, NeedsApproval
    <2>3. CASE Effect
      BY <2>1, <2>3 DEF IInv, TypeOK, CallDiscipline, Effect, ToolCompletes,
         ApprovedToolRaises, RedTestOpensCorrection, RedTestRefused, CorrectionEnds,
         CorrectionStaysRed, CorrectionRaises, InEffect, Record, RecordException,
         AwaitCorrection
    <2>4. ~Finish
      BY <2>1 DEF Finish
    <2>5. ~User
      BY <2>1 DEF IInv, TypeOK, User, Approve, DeclineTool, DeclineCorrection, RejectReopens,
         DeclineStale, Invalidate, SubmitPauses, SubmitRaises, Abort, Rerun,
         OtherRequest, Record, RecordException, Pause, AwaitCorrection, MarkCancelled
    <2> QED
      BY <2>1, <2>2, <2>3, <2>4, <2>5 DEF Next, Machine
  <1> QED
    BY <1>1, Invariance, PTL DEF Spec, EveryStartIsApproved
-----------------------------------------------------------------------------
(* Which pauses can be answered.                                           *)

\* An empty slot is empty: nothing is left of the operation that was in it.
SlotIsClear == op.kind = "none" => op = NoOp

\* The steps that can leave a workflow waiting for an approval that nobody can give: the
\* loop of a corrected or aborted correction meets a further pause, another command holds
\* the slot when a pause is to be put there, and a correction that went stale is declined.
LosesTheAnswer ==
    \/ call.kind \in {"correction", "abort"}
    \/ op.kind = "other"
    \/ call = Idle /\ op.kind = "correction"

AnswersAreLostOnlySo ==
    [][PauseIsAnswerable /\ ~PauseIsAnswerable' => LosesTheAnswer]_vars

\* Without corrections and without other commands: what the calls and the slot can be.
ToolsOnly ==
    /\ call.kind \in {"none", "run", "tool"} /\ op.kind \in {"none", "tool"}
    /\ wf # "awaiting_correction"
    /\ SlotIsClear /\ PauseIsAnswerable

\* Whatever leaves the slot leaves it clear.
LEMMA ClearSlot == Spec => []SlotIsClear
  <1>1. Init => SlotIsClear
    BY DEF Init, SlotIsClear, NoOp, OtherOp
  <1>2. SlotIsClear /\ [Next]_vars => SlotIsClear'
    <2>1. SUFFICES ASSUME SlotIsClear, [Next]_vars
                   PROVE  op' = op \/ op' = NoOp \/ op'.kind # "none"
      BY DEF SlotIsClear
    <2>2. ASSUME NEW s \in Steps, Visit(s) PROVE op' = op \/ op' = NoOp \/ op'.kind # "none"
      BY <2>2 DEF Visit, PassSettled, SkipBlocked, RefuseUnfinished, ResolverFails, RunTool,
         ToolRaises, PauseTool, PauseCorrection, StartRefused, StartUnadaptable, StartRaises,
         Advance, Leave, Deliver, ToolOp, CorrectionOp
    <2>3. CASE Effect
      BY <2>3 DEF Effect, ToolCompletes, ApprovedToolRaises, RedTestOpensCorrection,
         RedTestRefused, CorrectionEnds, CorrectionStaysRed, CorrectionRaises,
         LoopAfterEffect, Leave
    <2>4. CASE Finish
      BY <2>4 DEF Finish, Leave
    <2>5. CASE User
      <3>1. OtherOp.kind # "none" /\ CorrectionOp(awaiting, TRUE, FALSE).kind # "none"
        BY DEF OtherOp, CorrectionOp
      <3>2. op' \in {op, NoOp, OtherOp, CorrectionOp(awaiting, TRUE, FALSE)}
        BY <2>5 DEF User, Approve, DeclineTool, DeclineCorrection, RejectReopens, DeclineStale,
           Invalidate, SubmitPauses, SubmitRaises, Abort, Rerun, OtherRequest
      <3> QED
        BY <3>1, <3>2
    <2>6. CASE UNCHANGED vars
      BY <2>6 DEF vars
    <2> QED
      BY <2>1, <2>2, <2>3, <2>4, <2>5, <2>6 DEF Next, Machine
  <1> QED
    BY <1>1, <1>2, PTL DEF Spec

\* A step into a wait for approval, out of a state in which every such wait had its operation.
LEMMA PausingLosesOnlySo ==
  ASSUME IInv, SlotIsClear, PauseIsAnswerable, Next, wf' = "awaiting_approval",
         ~LosesTheAnswer
  PROVE  PauseIsAnswerable'
  <1>1. ASSUME NEW s \in Steps, Visit(s) PROVE PauseIsAnswerable'
    <2>1. /\ wf = "running" /\ call.kind \in {"run", "tool"}
          /\ call.kind = "run" => op = NoOp
      BY <1>1 DEF IInv, TypeOK, Calls, CallDiscipline, SlotIsClear, LosesTheAnswer, Visit,
         PassSettled, SkipBlocked, RefuseUnfinished, ResolverFails, RunTool, ToolRaises,
         PauseTool, PauseCorrection, StartRefused, StartUnadaptable, StartRaises, Startable,
         Visiting
    <2>2. PauseTool(s) \/ PauseCorrection(s)
      BY <1>1, <2>1 DEF Visit, PassSettled, SkipBlocked, RefuseUnfinished, ResolverFails,
         RunTool, ToolRaises, StartRefused, StartUnadaptable, StartRaises, Record,
         RecordException, AwaitCorrection, Verdict
    <2> QED
      BY <2>1, <2>2 DEF PauseTool, PauseCorrection, Pause, Deliver, ToolOp, CorrectionOp,
         PauseIsAnswerable
  <1>2. ~Effect
    BY DEF IInv, CallDiscipline, Effect, ToolCompletes, ApprovedToolRaises,
       RedTestOpensCorrection, RedTestRefused, CorrectionEnds, CorrectionStaysRed,
       CorrectionRaises, InEffect, Record, RecordException, AwaitCorrection, Verdict
  <1>3. ~Finish
    BY DEF Finish, Verdict
  <1>4. CASE User
    <2>1. call = Idle /\ op.kind \in {"none", "tool"}
      <3>1. call = Idle
        BY <1>4 DEF User, Approve, DeclineTool, DeclineCorrection, RejectReopens, DeclineStale,
           Invalidate, SubmitPauses, SubmitRaises, Abort, Rerun, OtherRequest, AwaitsProposal
      <3>2. op.kind \in {"none", "other", "tool", "correction"}
        BY DEF IInv, TypeOK, Operations
      <3> QED
        BY <3>1, <3>2 DEF LosesTheAnswer
    <2>2. CASE SubmitPauses
      <3>1. op = NoOp
        BY <2>1, <2>2 DEF IInv, OperationIsResumable, SlotIsClear, SubmitPauses, AwaitsProposal
      <3> QED
        BY <2>2, <3>1 DEF SubmitPauses, Pause, CorrectionOp, PauseIsAnswerable
    <2>3. CASE OtherRequest
      BY <2>1, <2>3 DEF OtherRequest, PauseIsAnswerable
    <2> QED
      BY <1>4, <2>1, <2>2, <2>3 DEF User, Approve, DeclineTool, DeclineCorrection,
         RejectReopens, DeclineStale, Invalidate, SubmitRaises, Abort, Rerun, MarkCancelled,
         AwaitCorrection, Record, RecordException, Verdict
  <1> QED
    BY <1>1, <1>2, <1>3, <1>4 DEF Next, Machine

\* Where the answer to a pause can get lost, for every plan: only in the three places that
\* LosesTheAnswer lists, which are those of the findings.  In particular run_workflow and an
\* approved tool never leave a pause that nobody can answer, unless another command of the
\* conversation holds the slot (ExecutionEngine._continue_workflow, ApprovalController).
THEOREM LostAnswers == Spec => AnswersAreLostOnlySo
  <1>1. IInv /\ SlotIsClear /\ [Next]_vars =>
          [PauseIsAnswerable /\ ~PauseIsAnswerable' => LosesTheAnswer]_vars
    <2>1. SUFFICES ASSUME IInv, SlotIsClear, Next, PauseIsAnswerable, ~PauseIsAnswerable'
                   PROVE  LosesTheAnswer
      OBVIOUS
    <2>2. wf' = "awaiting_approval"
      BY <2>1 DEF PauseIsAnswerable
    <2> QED
      BY <2>1, <2>2, PausingLosesOnlySo
  <1> QED
    BY <1>1, Invariance, ClearSlot, PTL DEF Spec, AnswersAreLostOnlySo

\* A plan without corrections, when no other command uses the slot: every pause of it can be
\* answered, whatever the number of steps, their gates and the order of the decisions.
THEOREM ToolPausesAreAnswerable ==
  ASSUME \A s \in Steps : Kind[s] = "tool", ~OtherRequests
  PROVE  Spec => []PauseIsAnswerable
  <1>1. Init => ToolsOnly
    BY DEF Init, ToolsOnly, SlotIsClear, PauseIsAnswerable, LoopOf, NoOp
  <1>2. IInv /\ SlotIsClear' /\ ToolsOnly /\ [Next]_vars => ToolsOnly'
    <2>1. SUFFICES ASSUME IInv, SlotIsClear', ToolsOnly, [Next]_vars PROVE ToolsOnly'
      OBVIOUS
    <2>2. CASE Next
      <3>1. ~LosesTheAnswer
        BY <2>1 DEF ToolsOnly, LosesTheAnswer
      <3>2. PauseIsAnswerable'
        <4>1. CASE wf' = "awaiting_approval"
          BY <2>1, <2>2, <3>1, <4>1, PausingLosesOnlySo DEF ToolsOnly
        <4>2. CASE wf' # "awaiting_approval"
          BY <4>2 DEF PauseIsAnswerable
        <4> QED
          BY <4>1, <4>2
      <3>3. /\ call'.kind \in {"none", "run", "tool"} /\ op'.kind \in {"none", "tool"}
            /\ wf' # "awaiting_correction"
        <4>1. ASSUME NEW s \in Steps, Visit(s)
              PROVE  /\ call'.kind \in {"none", "run", "tool"} /\ op'.kind \in {"none", "tool"}
                     /\ wf' # "awaiting_correction"
          <5>1. call \in Calls /\ Kind[s] # "correction"
            BY <2>1 DEF IInv, TypeOK
          <5>2. [call EXCEPT !.pos = @ + 1].kind = call.kind
            BY <5>1 DEF Calls
          <5>3. ToolOp(s, call.traced).kind = "tool" /\ NoOp.kind = "none" /\ Idle.kind = "none"
            BY DEF ToolOp, NoOp, Idle
          <5>4. CASE PauseTool(s)
            BY <2>1, <4>1, <5>3, <5>4 DEF ToolsOnly, PauseTool, Pause, Deliver
          <5>5. CASE ~PauseTool(s)
            <6>1. wf' \in {wf, "running"} /\ (Advance \/ Leave)
              BY <4>1, <5>1, <5>5 DEF Visit, PassSettled, SkipBlocked, RefuseUnfinished,
                 ResolverFails, RunTool, ToolRaises, PauseCorrection, StartRefused,
                 StartUnadaptable, StartRaises, Startable, Record
            <6> QED
              BY <2>1, <5>2, <5>3, <6>1 DEF ToolsOnly, Advance, Leave
          <5> QED
            BY <5>4, <5>5
        <4>2. CASE Effect
          BY <2>1, <4>2 DEF IInv, CallDiscipline, ToolsOnly, Effect, ToolCompletes,
             ApprovedToolRaises, RedTestOpensCorrection, RedTestRefused, CorrectionEnds,
             CorrectionStaysRed, CorrectionRaises, InEffect, Record, Verdict, Leave,
             LoopAfterEffect, LoopOf, Idle, NoOp
        <4>3. CASE Finish
          BY <2>1, <4>3 DEF ToolsOnly, Finish, Verdict, Leave, Idle, NoOp
        <4>4. CASE User
          <5>1. Approve \/ DeclineTool \/ Rerun
            BY <2>1, <4>4 DEF ToolsOnly, User, DeclineCorrection, RejectReopens, DeclineStale,
               Invalidate, SubmitPauses, SubmitRaises, Abort, OtherRequest, AwaitsProposal
          <5>2. EffectOf(op).kind = op.kind /\ LoopOf("run", FALSE).kind = "run"
                /\ NoOp.kind = "none"
            BY DEF EffectOf, LoopOf, NoOp
          <5> QED
            BY <2>1, <5>1, <5>2 DEF ToolsOnly, Approve, DeclineTool, Rerun, MarkCancelled
        <4> QED
          BY <2>2, <4>1, <4>2, <4>3, <4>4 DEF Next, Machine
      <3> QED
        BY <2>1, <3>2, <3>3 DEF ToolsOnly
    <2>3. CASE UNCHANGED vars
      BY <2>1, <2>3 DEF vars, ToolsOnly, SlotIsClear, PauseIsAnswerable
    <2> QED
      BY <2>1, <2>2, <2>3
  <1>3. ToolsOnly => PauseIsAnswerable
    BY DEF ToolsOnly
  <1> QED
    BY <1>1, <1>2, <1>3, Invariance, ClearSlot, PTL DEF Spec

-----------------------------------------------------------------------------
(* Calls come to an end.                                                   *)

\* How many steps a call still takes at most.
WorkLeft ==
    IF call.kind = "none" THEN 0
    ELSE IF call.at = "effect" THEN N + 2
    ELSE N + 2 - call.pos

CallsAreShort == [][call # Idle => WorkLeft' < WorkLeft]_vars

\* What is left of a call is a number, of at most two more than the plan has steps.
LEMMA WorkLeftType ==
  ASSUME TypeOK
  PROVE  WorkLeft \in 0..(N + 2) /\ (call.kind # "none" => WorkLeft > 0)
  <1>1. call.pos \in 1..(N + 1) /\ N \in Nat
    BY PlanAssumption DEF TypeOK, Calls
  <1> QED
    BY <1>1 DEF WorkLeft

\* Every step while a call runs takes it closer to its end: the loop moves on or leaves, and
\* an approved effect, which is executed before the loop, is executed once.  So a call takes
\* at most N + 2 steps: with the fairness of the thread it runs on, which TLC assumes for
\* CallsReturn, it returns (ExecutionEngine._continue_workflow).
THEOREM CallsGetShorter == Spec => CallsAreShort
  <1>1. IInv /\ [Next]_vars => [call # Idle => WorkLeft' < WorkLeft]_vars
    <2>1. SUFFICES ASSUME IInv, Next, call # Idle PROVE WorkLeft' < WorkLeft
      OBVIOUS
    <2>2. call.kind # "none" /\ WorkLeft \in 0..(N + 2) /\ WorkLeft > 0
      BY <2>1, WorkLeftType DEF IInv, CallDiscipline
    <2>3. ~User
      BY <2>1 DEF User, Approve, DeclineTool, DeclineCorrection, RejectReopens, DeclineStale,
         Invalidate, SubmitPauses, SubmitRaises, Abort, Rerun, OtherRequest, AwaitsProposal
    <2>4. call' = Idle => WorkLeft' < WorkLeft
      BY <2>2 DEF WorkLeft, Idle
    <2>5. ASSUME NEW s \in Steps, Visit(s), call' # Idle PROVE WorkLeft' < WorkLeft
      <3>1. Visiting(s) /\ Advance
        BY <2>5 DEF Visit, PassSettled, SkipBlocked, RefuseUnfinished, ResolverFails, RunTool,
           ToolRaises, PauseTool, PauseCorrection, StartRefused, StartUnadaptable, StartRaises,
           Startable, Leave
      <3>2. call \in Calls /\ N \in Nat /\ call.pos \in 1..N
        BY <2>1, <3>1, PlanAssumption DEF IInv, TypeOK, Visiting, Steps
      <3>3. /\ call'.kind = call.kind /\ call'.at = call.at /\ call'.pos = call.pos + 1
            /\ call.kind # "none" /\ call.at = "loop"
        BY <3>1, <3>2 DEF Advance, Visiting, Calls
      <3> QED
        BY <3>2, <3>3 DEF WorkLeft
    <2>6. CASE Effect
      <3>1. call' = Idle \/ call' = LoopOf(call.kind, call.traced)
        BY <2>6 DEF Effect, ToolCompletes, ApprovedToolRaises, RedTestOpensCorrection,
           RedTestRefused, CorrectionEnds, CorrectionStaysRed, CorrectionRaises,
           LoopAfterEffect, Leave
      <3>2. call.at = "effect" /\ call.kind # "none"
        BY <2>2, <2>6 DEF Effect, ToolCompletes, ApprovedToolRaises, RedTestOpensCorrection,
           RedTestRefused, CorrectionEnds, CorrectionStaysRed, CorrectionRaises, InEffect
      <3> QED
        BY <2>4, <3>1, <3>2, PlanAssumption DEF WorkLeft, LoopOf
    <2>7. CASE Finish
      BY <2>4, <2>7 DEF Finish, Leave
    <2> QED
      BY <2>1, <2>3, <2>4, <2>5, <2>6, <2>7 DEF Next, Machine
  <1> QED
    BY <1>1, Invariance, PTL DEF Spec, CallsAreShort
=============================================================================
