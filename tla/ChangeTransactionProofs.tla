---------------------- MODULE ChangeTransactionProofs ----------------------
(***************************************************************************)
(* Proofs about the transaction, for proposals of any number of files and  *)
(* any number of calls and of edits by others.                             *)
(*                                                                         *)
(* IInv is inductive.  It adds to the properties what a call in progress   *)
(* may rely on: which files can hold the new content by now, that a check  *)
(* that cleared a file saw it, and, as long as nobody else writes, what    *)
(* every file holds.                                                       *)
(***************************************************************************)
EXTENDS ChangeTransaction, TLAPS

Publishing == pc \in {"check", "replace"}
RollingBack == pc \in {"rollback", "restore"}

\* Where a call is, and what it has done by then.
Progress ==
    /\ pc # "idle" => ~applied /\ outcome # "interrupted"
    /\ pc = "snapshot" => published = 0 /\ pos >= 1
    /\ Publishing => pos = published + 1
    /\ pc = "replace" => pos <= N
    /\ RollingBack => pos <= published
    /\ pc = "restore" => pos >= 1
    /\ pc \in {"snapshot", "check", "replace"} => temps = {}

\* The files that may hold the new content in the middle of a call.
TracesAreKnown ==
    /\ pc = "snapshot" => Traces \subseteq report
    /\ Publishing => Traces \subseteq report \cup 1..published
    /\ RollingBack =>
          Traces \subseteq report \cup (IF errors THEN 1..published ELSE 1..pos)

\* Without an error, what the rollback has passed is undone.
Undone ==
    RollingBack /\ ~errors => \A f \in (pos + 1)..published : content[f] # "new"

\* Somebody else's content was written after the last check of its file.
OthersAreRaced == \A f \in Files : content[f] = "other" => f \in raced

\* What was published is still there, unless somebody wrote since.
PublishedStays == Publishing => \A f \in 1..published : content[f] = "new" \/ f \in raced

\* While nobody else writes, the files are as the call made them.
Exact ==
    edits = 0 =>
        /\ pc = "snapshot" => \A f \in 1..(pos - 1) : content[f] = Original(f)
        /\ Publishing => \A f \in Files :
              content[f] = IF f <= published THEN "new" ELSE Original(f)
        /\ pc = "restore" => content[pos] = "new"

IInv ==
    /\ TypeOK /\ EveryTraceIsReported /\ NoTemporaryForgotten
    /\ Progress /\ TracesAreKnown /\ Undone /\ OthersAreRaced /\ PublishedStays /\ Exact

\* The original of a file is one of the contents, and neither the new one nor another.
LEMMA OriginalType ==
    \A f \in Files : Original(f) \in Contents /\ Original(f) \notin {"new", "other"}
  BY ProposalAssumption DEF Original, Contents

-----------------------------------------------------------------------------
\* Before any call.
LEMMA InitInvariant == Init => IInv
  <1> USE OriginalType, ProposalAssumption DEF Files
  <1> SUFFICES ASSUME Init PROVE IInv
    OBVIOUS
  <1>1. TypeOK
    <2>1. content \in [Files -> Contents]
      BY DEF Init
    <2>2. pos \in 0..(N + 1) /\ published \in 0..N /\ edits \in 0..MaxEdits /\ calls \in 0..MaxCalls
      BY DEF Init
    <2> QED
      BY <2>1, <2>2 DEF Init, TypeOK
  <1>2. Traces = {}
    BY DEF Init, Traces
  <1> QED
    BY <1>1, <1>2 DEF Init, IInv, EveryTraceIsReported, NoTemporaryForgotten, Progress,
       TracesAreKnown, Undone, OthersAreRaced, PublishedStays, Exact, Publishing, RollingBack

\* Calls begin, look, and are refused.
LEMMA BeginInvariant == IInv /\ (Begin \/ Snapshot \/ SnapshotRefused \/ StartPublishing) => IInv'
  <1> USE OriginalType, ProposalAssumption DEF Files, IInv, TypeOK, EveryTraceIsReported,
      NoTemporaryForgotten, Progress, TracesAreKnown, Undone, OthersAreRaced, PublishedStays, Exact,
      Publishing, RollingBack, Traces, End
  <1> SUFFICES ASSUME IInv, Begin \/ Snapshot \/ SnapshotRefused \/ StartPublishing PROVE IInv'
    OBVIOUS
  <1>1. CASE Begin
    <2>1. /\ pc = "idle" /\ outcome # "interrupted"
          /\ UNCHANGED <<content, cause, report, applied, raced, edits>>
          /\ calls' \in 0..MaxCalls
      BY <1>1 DEF Begin
    <2>2. CASE applied
      <3>1. pc' = "idle" /\ outcome' = "duplicate" /\ UNCHANGED <<pos, published, temps, errors>>
        BY ONLY <1>1, <2>2, Zenon DEF Begin, End
      <3> QED
        BY <2>1, <2>2, <3>1
    <2>3. CASE ~applied
      <3>1. /\ pc' = "snapshot" /\ pos' = 1 /\ published' = 0
            /\ temps' = {} /\ errors' = FALSE /\ outcome' = outcome
        BY ONLY <1>1, <2>3, Zenon DEF Begin, End
      <3>2. Traces' \subseteq report'
        BY <2>1, <2>3
      <3>3. TypeOK'
        <4>1. /\ content' \in [Files -> Contents] /\ pos' \in 0..(N + 1) /\ published' \in 0..N
              /\ edits' \in 0..MaxEdits
          BY <2>1, <3>1
        <4>2. /\ temps' \subseteq Files /\ report' \subseteq Files /\ raced' \subseteq Files
              /\ cause' \in {"none", "precondition", "os"}
              /\ errors' \in BOOLEAN /\ applied' \in BOOLEAN
          BY <2>1, <3>1
        <4> QED
          BY <2>1, <3>1, <4>1, <4>2
      <3> QED
        BY <2>1, <2>3, <3>1, <3>2, <3>3
    <2> QED
      BY <2>2, <2>3
  <1>2. CASE Snapshot
    BY <1>2 DEF Snapshot, Valid
  <1>3. CASE SnapshotRefused
    BY <1>3 DEF SnapshotRefused
  <1>4. CASE StartPublishing
    BY <1>4 DEF StartPublishing
  <1> QED
    BY <1>1, <1>2, <1>3, <1>4

\* Publication.
LEMMA PublishInvariant ==
    IInv /\ (Check \/ CheckRefused \/ Replace \/ ReplaceFails \/ Commit) => IInv'
  <1> USE OriginalType, ProposalAssumption DEF Files, IInv, TypeOK, EveryTraceIsReported,
      NoTemporaryForgotten, Progress, TracesAreKnown, Undone, OthersAreRaced, PublishedStays, Exact,
      Publishing, RollingBack, Traces, End, StartRollback
  <1> SUFFICES ASSUME IInv, Check \/ CheckRefused \/ Replace \/ ReplaceFails \/ Commit
               PROVE  IInv'
    OBVIOUS
  <1>1. CASE Check
    BY <1>1 DEF Check, Valid
  <1>2. CASE CheckRefused
    BY <1>2 DEF CheckRefused
  <1>3. CASE Replace
    BY <1>3 DEF Replace, Contents
  <1>4. CASE ReplaceFails
    BY <1>4 DEF ReplaceFails
  <1>5. CASE Commit
    BY <1>5 DEF Commit
  <1> QED
    BY <1>1, <1>2, <1>3, <1>4, <1>5

\* The rollback, an interrupt, and what others do.
LEMMA RollbackInvariant ==
    IInv /\ (RestoreCheck \/ RestoreRefused \/ Restore \/ RestoreFails \/ Conclude) => IInv'
  <1> USE OriginalType, ProposalAssumption DEF Files, IInv, TypeOK, EveryTraceIsReported,
      NoTemporaryForgotten, Progress, TracesAreKnown, Undone, OthersAreRaced, PublishedStays, Exact,
      Publishing, RollingBack, Traces, End
  <1> SUFFICES ASSUME IInv,
                      RestoreCheck \/ RestoreRefused \/ Restore \/ RestoreFails \/ Conclude
               PROVE  IInv'
    OBVIOUS
  <1>1. CASE RestoreCheck
    BY <1>1 DEF RestoreCheck
  <1>2. CASE RestoreRefused
    BY <1>2 DEF RestoreRefused
  <1>3. CASE Restore
    BY <1>3 DEF Restore, Contents
  <1>4. CASE RestoreFails
    BY <1>4 DEF RestoreFails
  <1>5. CASE Conclude
    BY <1>5 DEF Conclude
  <1> QED
    BY <1>1, <1>2, <1>3, <1>4, <1>5

LEMMA OthersInvariant == IInv /\ (Interrupt \/ \E f \in Files : Edit(f)) => IInv'
  <1> USE OriginalType, ProposalAssumption DEF Files, IInv, TypeOK, EveryTraceIsReported,
      NoTemporaryForgotten, Progress, TracesAreKnown, Undone, OthersAreRaced, PublishedStays, Exact,
      Publishing, RollingBack, Traces, End
  <1>1. ASSUME IInv, Interrupt PROVE IInv'
    BY <1>1 DEF Interrupt
  <1>2. ASSUME IInv, NEW f \in Files, Edit(f) PROVE IInv'
    BY <1>2 DEF Edit, Contents
  <1> QED
    BY <1>1, <1>2

LEMMA StepInvariant == IInv /\ [Next]_vars => IInv'
  <1> SUFFICES ASSUME IInv, [Next]_vars PROVE IInv'
    OBVIOUS
  <1>1. CASE UNCHANGED vars
    BY <1>1 DEF vars, IInv, TypeOK, EveryTraceIsReported, NoTemporaryForgotten, Progress,
       TracesAreKnown, Undone, OthersAreRaced, PublishedStays, Exact, Publishing, RollingBack, Traces
  <1> QED
    BY <1>1, BeginInvariant, PublishInvariant, RollbackInvariant, OthersInvariant
    DEF Next, Step

-----------------------------------------------------------------------------
\* The invariant holds in every reachable state (ChangeTransaction.apply).
THEOREM Invariance == Spec => []IInv
  BY InitInvariant, StepInvariant, PTL DEF Spec

\* The state keeps its types, also over a call that follows a failed one.
THEOREM TypeCorrect == Spec => []TypeOK
  BY Invariance, PTL DEF IInv

\* What a failed call leaves behind it has reported (_rollback).
THEOREM TracesAreReported == Spec => []EveryTraceIsReported
  BY Invariance, PTL DEF IInv

\* A call that reports no trouble leaves no temporary (_remove_temporaries).
THEOREM TemporariesAreRemoved == Spec => []NoTemporaryForgotten
  BY Invariance, PTL DEF IInv

\* Nobody's edit is overwritten that a check could have seen (_revalidate_before_publication,
\* _ensure_rollback_owns_path).
THEOREM EditsSurvive == Spec => OthersEditsSurvive
  <1>1. IInv /\ [Next]_vars =>
            [\A f \in Files :
                content[f] = "other" /\ content'[f] \in {"new", Original(f)} => f \in raced]_vars
    BY DEF IInv, OthersAreRaced
  <1> QED
    BY <1>1, Invariance, PTL DEF Spec, OthersEditsSurvive

\* Only Commit applies a proposal.
LEMMA OnlyCommit == [Next]_vars /\ ~applied /\ applied' => Commit
  BY DEF Next, Step, vars, Begin, Snapshot, SnapshotRefused, StartPublishing, Check,
     CheckRefused, Replace, ReplaceFails, RestoreCheck, RestoreRefused, Restore,
     RestoreFails, Conclude, Interrupt, Edit

\* An applied proposal is there, all of it, but for what others wrote since (apply).
THEOREM AppliedProposalsAreWhole == Spec => AppliedIsWhole
  <1>1. IInv /\ [Next]_vars =>
            [~applied /\ applied' =>
                 published = N /\ \A f \in Files : content[f] = "new" \/ f \in raced]_vars
    <2> SUFFICES ASSUME IInv, [Next]_vars, ~applied, applied'
                 PROVE  published = N /\ \A f \in Files : content[f] = "new" \/ f \in raced
      OBVIOUS
    <2>1. Commit
      BY OnlyCommit
    <2>2. published = N
      BY <2>1, ProposalAssumption DEF Commit, IInv, TypeOK, Progress, Publishing
    <2> QED
      BY <2>1, <2>2 DEF Commit, IInv, PublishedStays, Publishing, Files
  <1> QED
    BY <1>1, Invariance, PTL DEF Spec, AppliedIsWhole

-----------------------------------------------------------------------------
(* The transaction implements AtomicUpdate: publishing a file changes no    *)
(* logical content, and what a call that gives up leaves is uncertain.      *)

\* A step that leaves the files and the number of published ones alone, inside a call.
LEMMA LogicalStays ==
    content' = content /\ published' = published /\ (pc = "idle") = (pc' = "idle")
        => Logical' = Logical
  BY DEF Logical

\* When a call gives up, what it published and did not undo becomes visible.
LEMMA GivingUp ==
    ASSUME TypeOK, pc # "idle", pc' = "idle", content' = content
    PROVE  \E undone \in SUBSET Files :
               Logical' = [f \in Files |-> IF f \in undone THEN Logical[f] ELSE "new"]
  <1> DEFINE undone == {f \in Files : ~(f <= published /\ content[f] = "new")}
  <1>1. \A f \in Files :
            content[f] = IF f \in undone THEN Logical[f] ELSE "new"
    BY DEF Logical
  <1>2. Logical' = [f \in Files |-> content[f]]
    BY DEF Logical
  <1> QED
    BY <1>1, <1>2

\* Initially nothing is written.
LEMMA InitRefines == Init => Atomic!Init
  BY ProposalAssumption DEF Init, Atomic!Init, Logical

\* A step is a step of AtomicUpdate or changes nothing that it speaks of.
LEMMA StepRefines == IInv /\ [Next]_vars => [Atomic!Next]_Atomic!vars
  <1> SUFFICES ASSUME IInv, [Next]_vars PROVE [Atomic!Next]_Atomic!vars
    OBVIOUS
  <1> USE DEF IInv, TypeOK
  <1>1. CASE edits' > 0
    BY <1>1 DEF Atomic!Next, Atomic!Others
  <1>2. CASE ~(edits' > 0)
    <2>1. edits = 0 /\ edits' = 0
      BY <1>2, StepInvariant, ProposalAssumption DEF Next, Step, vars, Begin, Snapshot,
         SnapshotRefused, StartPublishing, Check, CheckRefused, Replace, ReplaceFails, Commit,
         RestoreCheck, RestoreRefused, Restore, RestoreFails, Conclude, Interrupt, Edit
    <2> DEFINE Stutter == Logical' = Logical /\ outcome' = outcome
    <2>2. Stutter => UNCHANGED Atomic!vars
      BY <2>1 DEF Atomic!vars
    <2> HIDE DEF Stutter
    <2>3. CASE Check \/ CheckRefused \/ ReplaceFails \/ RestoreCheck \/ RestoreRefused
               \/ RestoreFails \/ Snapshot \/ UNCHANGED vars
      <3>1. Stutter
        BY <2>3, LogicalStays DEF Stutter, vars, Check, CheckRefused, ReplaceFails,
           RestoreCheck, RestoreRefused, RestoreFails, Snapshot, StartRollback
      <3> QED
        BY <2>2, <3>1
    <2>4. CASE StartPublishing
      BY <2>2, <2>4, LogicalStays DEF Stutter, StartPublishing
    <2>5. CASE Begin
      <3>1. Logical' = Logical
        BY <2>5 DEF Begin, End, Logical, Files
      <3>2. outcome' = outcome \/ outcome' = "duplicate"
        BY <2>5 DEF Begin, End
      <3> QED
        BY <1>2, <2>2, <3>1, <3>2 DEF Stutter, Atomic!Next, Atomic!Fail
    <2>6. CASE SnapshotRefused
      <3>1. Logical' = Logical
        BY <2>6 DEF SnapshotRefused, End, Logical, Progress, Files
      <3> QED
        BY <1>2, <2>6, <3>1 DEF SnapshotRefused, End, Atomic!Next, Atomic!Fail
    <2>7. CASE Replace
      <3>1. content[pos] = Original(pos) /\ pos = published + 1
        BY <2>1, <2>7 DEF Replace, Exact, Progress, Publishing, Files
      <3>2. \A f \in Files : Logical'[f] = Logical[f]
        BY <2>7, <3>1, ProposalAssumption DEF Replace, Logical, Files
      <3> QED
        BY <2>2, <2>7, <3>2 DEF Stutter, Replace, Logical
    <2>8. CASE Restore
      <3>1. content[pos] = "new" /\ pos \in Files /\ pos <= published
        BY <2>1, <2>8, ProposalAssumption DEF Restore, Exact, Progress, RollingBack, Files
      <3>2. \A f \in Files : Logical'[f] = Logical[f]
        BY <2>8, <3>1 DEF Restore, Logical
      <3> QED
        BY <2>2, <2>8, <3>2 DEF Stutter, Restore, Logical
    <2>9. CASE Commit
      <3>1. published = N /\ \A f \in Files : f <= published /\ content[f] = "new"
        BY <2>1, <2>9, ProposalAssumption DEF Commit, Exact, Progress, Publishing, Files
      <3>2. Logical = [f \in Files |-> Original(f)] /\ Logical' = [f \in Files |-> "new"]
        BY <2>9, <3>1 DEF Commit, End, Logical
      <3> QED
        BY <1>2, <2>9, <3>2 DEF Commit, End, Atomic!Next, Atomic!Commit
    <2>10. CASE Conclude
      <3>1. outcome' \in {"rollback_failed", "apply_error", "precondition"}
        BY <2>10 DEF Conclude, End
      <3>2. CASE outcome' = "rollback_failed"
        BY <1>2, <2>10, <3>2, GivingUp DEF Conclude, End, Atomic!Next, Atomic!Uncertain
      <3>3. CASE outcome' # "rollback_failed"
        <4>1. ~errors
          BY <2>10, <3>3 DEF Conclude, End
        <4>2. \A f \in Files : f <= published => content[f] # "new"
          BY <2>10, <4>1, ProposalAssumption DEF Conclude, Undone, RollingBack, Files
        <4>3. Logical' = Logical
          BY <2>10, <4>2 DEF Conclude, End, Logical
        <4> QED
          BY <1>2, <3>1, <3>3, <4>3 DEF Atomic!Next, Atomic!Fail
      <3> QED
        BY <3>2, <3>3
    <2>11. CASE Interrupt
      BY <1>2, <2>11, GivingUp DEF Interrupt, End, Atomic!Next, Atomic!Uncertain
    <2>12. CASE \E f \in Files : Edit(f)
      BY <2>1, <2>12 DEF Edit
    <2> QED
      BY <2>3, <2>4, <2>5, <2>6, <2>7, <2>8, <2>9, <2>10, <2>11, <2>12 DEF Next, Step
  <1> QED
    BY <1>1, <1>2

\* The files of a proposal change together or not at all, or the call says that it is not
\* certain; until somebody else writes (apply).
THEOREM Implementation == Spec => AtomicSpec
  BY InitRefines, StepRefines, Invariance, PTL DEF Spec, AtomicSpec, Atomic!Spec
-----------------------------------------------------------------------------
(* What makes ApplyReturns hold, but for fairness: every step of a call uses up    *)
(* something, and an edit by others gives nothing back.                            *)

\* How many steps of its own a call of apply still takes at most.  The rollback takes two
\* a file (check, restore) and the end; the publication two a file and may still have to
\* undo all of them; the snapshot one a file, with all of that ahead.
StepsLeft ==
    CASE pc = "idle" -> 0
      [] pc = "rollback" -> 2 * pos + 1
      [] pc = "restore" -> 2 * pos
      [] pc = "check" -> 2 * (N + 1 - pos) + 2 * N + 2
      [] pc = "replace" -> 2 * (N + 1 - pos) + 2 * N + 1
      [] pc = "snapshot" -> (N + 2 - pos) + 4 * N + 2

\* Every step of a call brings its end nearer, and an edit by others does not put it off:
\* neither the publication nor the rollback goes back to a file (apply, _rollback).
ApplyIsShort ==
    [][ pc # "idle" =>
          \/ edits' = edits /\ StepsLeft' < StepsLeft
          \/ edits' = edits + 1 /\ StepsLeft' = StepsLeft ]_vars

\* A call in progress has a step left, and never more than 5N + 3.
LEMMA StepsLeftType == IInv => StepsLeft \in 0..(5 * N + 3) /\ (pc # "idle" => StepsLeft > 0)
  BY ProposalAssumption DEF IInv, TypeOK, Progress, Publishing, RollingBack, StepsLeft

\* No call of apply takes more than 5N + 3 steps, of N files, however others edit (apply).
THEOREM CallsAreBounded == Spec => []( StepsLeft \in 0..(5 * N + 3)
                                       /\ (pc # "idle" => StepsLeft > 0) ) /\ ApplyIsShort
  <1>1. IInv /\ [Next]_vars =>
            [pc # "idle" =>
                \/ edits' = edits /\ StepsLeft' < StepsLeft
                \/ edits' = edits + 1 /\ StepsLeft' = StepsLeft]_vars
    <2> SUFFICES ASSUME IInv, Next, pc # "idle"
                 PROVE  \/ edits' = edits /\ StepsLeft' < StepsLeft
                        \/ edits' = edits + 1 /\ StepsLeft' = StepsLeft
      OBVIOUS
    <2>0. /\ pos \in 0..(N + 1) /\ published \in 0..N /\ edits \in Nat /\ N \in Nat
          /\ Publishing => pos = published + 1
          /\ pc = "replace" => pos <= N
          /\ pc = "snapshot" => pos >= 1
          /\ RollingBack => pos <= published
      BY ProposalAssumption DEF IInv, TypeOK, Progress
    <2> USE <2>0 DEF StepsLeft
    <2>1. CASE Snapshot
      BY <2>1 DEF Snapshot
    <2>2. CASE SnapshotRefused
      BY <2>2 DEF SnapshotRefused, End
    <2>3. CASE StartPublishing
      BY <2>3 DEF StartPublishing
    <2>4. CASE Check
      BY <2>4 DEF Check
    <2>5. CASE CheckRefused
      BY <2>5 DEF CheckRefused, StartRollback
    <2>6. CASE Replace
      BY <2>6 DEF Replace
    <2>7. CASE ReplaceFails
      BY <2>7 DEF ReplaceFails, StartRollback
    <2>8. CASE Commit
      BY <2>8 DEF Commit, End
    <2>9. CASE RestoreCheck
      BY <2>9 DEF RestoreCheck
    <2>10. CASE RestoreRefused
      BY <2>10 DEF RestoreRefused
    <2>11. CASE Restore
      BY <2>11 DEF Restore
    <2>12. CASE RestoreFails
      BY <2>12 DEF RestoreFails
    <2>13. CASE Conclude
      BY <2>13 DEF Conclude, End
    <2>14. CASE Interrupt
      <3>1. StepsLeft > 0
        BY StepsLeftType
      <3>2. StepsLeft' = 0 /\ edits' = edits
        BY <2>14 DEF Interrupt, End
      <3> QED
        BY <3>1, <3>2
    <2>15. CASE \E f \in Files : Edit(f)
      BY <2>15 DEF Edit
    <2> QED
      BY <2>1, <2>2, <2>3, <2>4, <2>5, <2>6, <2>7, <2>8, <2>9, <2>10, <2>11, <2>12, <2>13,
         <2>14, <2>15 DEF Next, Step, Begin
  <1> QED
    BY <1>1, StepsLeftType, Invariance, PTL DEF Spec, ApplyIsShort
=============================================================================
