---------------------- MODULE ProgrammingSessionProofs ----------------------
(***************************************************************************)
(* Proofs about the session and the review controller, for any plans, any  *)
(* number of records and any budgets.                                      *)
(*                                                                         *)
(* IInv is inductive.  Between two messages it is what the session says of *)
(* its run; in the middle of one, what the handler may rely on until it    *)
(* says something.  The run of the session and those of the conversation   *)
(* are told apart by who started them, so that neither disturbs the other. *)
(***************************************************************************)
EXTENDS ProgrammingSession, TLAPS

\* What the review controller knows: one plan waits, and those that were not decided on
\* were never run.
ReviewInv ==
    /\ pending # None => records[pending].status = "pending"
    /\ \A r \in Records : records[r].status = "pending" => r = pending
    /\ \A r \in Records : records[r].status \in {"unused", "pending"} =>
          run[r] = "none" /\ starter[r] = Nobody /\ ~records[r].finished
    /\ \A r \in Records : r > made => records[r].status = "unused"
    /\ \A r \in Records : starter[r] # Nobody => lastRun \in Records

Noteworthy(r) ==
    records[r].status \in {"executing", "awaiting_operation_approval"} /\ ~records[r].finished

\* Where a handler is.
HandlerInv ==
    /\ (owner = Nobody) = (at = "done")
    /\ at \notin {"done", "claim"} => cur \in Records
    /\ at \in {"claim", "correction", "generate", "submit", "abort"} => Mine
    /\ at = "start" => run[cur] = "none" /\ starter[cur] = Nobody
    /\ at \in {"start", "run", "tool"} => Noteworthy(cur)
    /\ at \in {"run", "tool", "correction"} => run[cur] = "running"
    /\ at \in {"generate", "submit", "abort"} => run[cur] = "awaiting_correction"
    /\ at \notin {"done", "claim", "start"} => starter[cur] = owner

\* What is asked of the user.
Asked(o) ==
    /\ slot[o].run \in Records /\ slot[o].kind \in {"tool", "correction"}
    /\ starter[slot[o].run] = o
    /\ slot[o].kind = "correction" => o = "session"
    /\ slot[o].kind = "tool" =>
          /\ records[slot[o].run].status = "awaiting_operation_approval"
          /\ ~records[slot[o].run].finished
    /\ slot[o].claimed => owner = o /\ at \in {"tool", "correction"} /\ cur = slot[o].run
    /\ ~slot[o].claimed => run[slot[o].run] = "awaiting_approval"

SlotInv == \A o \in Owners : slot[o] # NoPause => Asked(o)

\* The session while a message is for it ...
BusyInv ==
    Mine =>
        /\ state = "running" \/ at \in {"generate", "abort"}
        /\ at \in {"claim", "start", "run"} => mine = None /\ ~bound
        /\ at \notin {"claim", "start", "run"} => mine = cur
        /\ at \notin {"tool", "correction"} => slot["session"] = NoPause
        /\ at = "tool" => ~bound
        /\ at = "submit" => bound = assisted
        /\ at = "generate" => assisted

\* ... and otherwise.
RestInv ==
    ~Mine =>
        /\ state # "running"
        /\ state = "pending_plan" => mine = None /\ ~bound
        /\ state = "awaiting_approval" =>
              /\ slot["session"] # NoPause /\ slot["session"].run = mine
              /\ bound = (assisted /\ slot["session"].kind = "correction")
        /\ state = "awaiting_correction" =>
              /\ mine \in Records /\ run[mine] = "awaiting_correction"
              /\ starter[mine] = "session" /\ ~assisted /\ ~bound
        /\ state = "completed" =>
              mine \in Records /\ run[mine] = "completed" /\ starter[mine] = "session"
        /\ state = "cancelled" /\ mine # None =>
              run[mine] = "cancelled" /\ starter[mine] = "session"
        /\ slot["session"] # NoPause => state = "awaiting_approval"

\* What the corrections cost so far.
CostInv == asked = tried /\ tried <= MaxGenerations

IInv ==
    /\ TypeOK /\ CorrectionsBelongToTheSession
    /\ ReviewInv /\ HandlerInv /\ SlotInv /\ BusyInv /\ RestInv /\ CostInv


USE RecordAssumption

-----------------------------------------------------------------------------
(* What the operations on the state do, one element at a time.             *)

Slots == [run: Records \cup {None}, kind: {"none", "tool", "correction"}, claimed: BOOLEAN]

LEMMA NoneIsNoRecord == None \notin Records
  BY DEF None, Records

USE NoneIsNoRecord

LEMMA RegisterFacts ==
    ASSUME ReviewTypeOK, ReviewInv, NEW p \in Plans, Register(p)
    PROVE  /\ ReviewTypeOK'
           /\ pending' \in Records /\ pending' # pending
           /\ records[pending'].status = "unused"
           /\ records'[pending'].status = "pending" /\ ~records'[pending'].finished
           /\ made' = pending' /\ made < made'
           /\ pending # None =>
                 /\ pending \in Records
                 /\ records'[pending].status = "superseded"
                 /\ records'[pending].finished = records[pending].finished
           /\ \A r \in Records : r # pending' /\ r # pending => records'[r] = records[r]
           /\ \A r \in Records :
                 records[r].status \notin {"unused", "pending"} => records'[r] = records[r]
  <1> USE DEF ReviewTypeOK, Register, Records, None
  <1>1. made + 1 \in Records /\ made + 1 > made /\ made' \in 0..MaxRecords
    OBVIOUS
  <1>2. records[made + 1].status = "unused" /\ made + 1 # pending
    BY <1>1 DEF ReviewInv
  <1>3. [Unused EXCEPT !.plan = p, !.status = "pending"]
          \in [plan: Plans \cup {NoPlan}, status: RecordStatuses,
               sees: Records \cup {None}, finished: BOOLEAN]
    BY DEF Unused, RecordStatuses
  <1>4. pending # None => [records[pending] EXCEPT !.status = "superseded"]
          \in [plan: Plans \cup {NoPlan}, status: RecordStatuses,
               sees: Records \cup {None}, finished: BOOLEAN]
    BY DEF RecordStatuses
  <1>5. ReviewTypeOK'
    BY <1>1, <1>3, <1>4
  <1>6. records'[made + 1] = [Unused EXCEPT !.plan = p, !.status = "pending"]
    BY <1>1, <1>2
  <1>7. records'[made + 1].status = "pending" /\ ~records'[made + 1].finished
    BY <1>6 DEF Unused
  <1>8. \A r \in Records : records[r].status \notin {"unused", "pending"} =>
           r # made + 1 /\ (r = pending => pending = None)
    BY <1>2 DEF ReviewInv
  <1> QED
    BY <1>1, <1>2, <1>5, <1>7, <1>8

LEMMA DecideFacts ==
    ASSUME ReviewTypeOK, pending # None, NEW verdict \in RecordStatuses, Decide(verdict)
    PROVE  /\ ReviewTypeOK'
           /\ pending \in Records /\ pending' = None /\ made' = made
           /\ records'[pending].status = verdict
           /\ records'[pending].finished = records[pending].finished
           /\ records'[pending].plan = records[pending].plan
           /\ \A r \in Records : r # pending => records'[r] = records[r]
  BY DEF ReviewTypeOK, Decide, None

LEMMA NoteFacts ==
    ASSUME ReviewTypeOK, NEW r \in Records, NEW seen \in Records \cup {None},
           NEW status \in RecordStatuses, Note(r, seen, status)
    PROVE  /\ ReviewTypeOK'
           /\ pending' = pending /\ made' = made
           /\ records'[r].status = status
           /\ records'[r].finished =
                 (records[r].finished \/ status # "awaiting_operation_approval")
           /\ \A q \in Records : q # r => records'[q] = records[q]
  <1> DEFINE noted == [records[r] EXCEPT !.sees = seen, !.status = status,
                          !.finished = @ \/ status # "awaiting_operation_approval"]
  <1>1. records[r] \in [plan: Plans \cup {NoPlan}, status: RecordStatuses,
                        sees: Records \cup {None}, finished: BOOLEAN]
    BY DEF ReviewTypeOK
  <1>2. /\ noted \in [plan: Plans \cup {NoPlan}, status: RecordStatuses,
                     sees: Records \cup {None}, finished: BOOLEAN]
        /\ noted.status = status
        /\ noted.finished = (records[r].finished \/ status # "awaiting_operation_approval")
    BY <1>1
  <1>3. records' = [records EXCEPT ![r] = noted] /\ pending' = pending /\ made' = made
    BY DEF Note
  <1> HIDE DEF noted
  <1> QED
    BY <1>2, <1>3 DEF ReviewTypeOK

LEMMA NoteDeclinedFacts ==
    ASSUME ReviewTypeOK, NEW r \in Records, NEW seen \in Records \cup {None},
           NEW status, NoteDeclined(r, seen, status)
    PROVE  /\ ReviewTypeOK'
           /\ pending' = pending /\ made' = made
           /\ records'[r].status \in {"completed", "failed", "cancelled"}
           /\ records'[r].finished
           /\ \A q \in Records : q # r => records'[q] = records[q]
  <1> DEFINE noted == IF Verdict(status) = "awaiting_operation_approval"
                      THEN "cancelled" ELSE Verdict(status)
  <1>1. noted \in {"completed", "failed", "cancelled"}
    BY DEF Verdict
  <1>2. noted \in RecordStatuses /\ noted # "awaiting_operation_approval"
    BY <1>1 DEF RecordStatuses
  <1>3. Note(r, seen, noted)
    BY DEF NoteDeclined
  <1> HIDE DEF noted
  <1> QED
    BY <1>1, <1>2, <1>3, NoteFacts

LEMMA VerdictFacts ==
    ASSUME NEW status
    PROVE  /\ Verdict(status) \in {"awaiting_operation_approval", "completed", "failed",
                                   "cancelled"}
           /\ Verdict(status) = "awaiting_operation_approval" => status = "awaiting_approval"
           /\ status \in {"completed", "failed", "cancelled"} => Verdict(status) = status
           /\ Verdict(status) \in {"completed", "cancelled"} => Verdict(status) = status
  BY DEF Verdict

LEMMA EndsFacts ==
    ASSUME run \in [Records -> RunStatuses], NEW r \in Records, NEW status \in RunStatuses,
           Ends(r, status)
    PROVE  /\ run' \in [Records -> RunStatuses] /\ run'[r] = status
           /\ \A q \in Records : q # r => run'[q] = run[q]
           /\ starter' = starter /\ traced' = traced /\ lastRun' = lastRun
  BY DEF Ends

LEMMA FreesFacts ==
    ASSUME slot \in [Owners -> Slots], NEW o \in Owners, Frees(o)
    PROVE  /\ slot' \in [Owners -> Slots] /\ slot'[o] = NoPause
           /\ \A q \in Owners : q # o => slot'[q] = slot[q]
  BY DEF Frees, NoPause, Asks, Slots

LEMMA HoldsFacts ==
    ASSUME slot \in [Owners -> Slots], NEW o \in Owners, NEW r \in Records,
           NEW kind \in {"tool", "correction"}, Holds(o, r, kind)
    PROVE  /\ slot' \in [Owners -> Slots]
           /\ slot'[o].run = r /\ slot'[o].kind = kind /\ ~slot'[o].claimed
           /\ slot'[o] # NoPause
           /\ \A q \in Owners : q # o => slot'[q] = slot[q]
  BY DEF Holds, NoPause, Asks, Slots

LEMMA ClaimsFacts ==
    ASSUME slot \in [Owners -> Slots], NEW o \in Owners,
           slot' = [slot EXCEPT ![o].claimed = TRUE]
    PROVE  /\ slot' \in [Owners -> Slots]
           /\ slot'[o].run = slot[o].run /\ slot'[o].kind = slot[o].kind /\ slot'[o].claimed
           /\ \A q \in Owners : q # o => slot'[q] = slot[q]
  BY DEF Slots

-----------------------------------------------------------------------------
(* The controller, when a plan comes, is decided on, or its run is noted.  *)

LEMMA RegisteredReview ==
    ASSUME TypeOK, ReviewInv, NEW p \in Plans, Register(p), UNCHANGED engine
    PROVE  ReviewInv'
  <1> USE DEF ReviewInv, engine, TypeOK
  <1>1. /\ pending' \in Records /\ pending' # pending
        /\ records[pending'].status = "unused"
        /\ records'[pending'].status = "pending" /\ ~records'[pending'].finished
        /\ made' = pending' /\ made < made'
        /\ pending # None =>
              /\ pending \in Records
              /\ records'[pending].status = "superseded"
              /\ records'[pending].finished = records[pending].finished
        /\ \A r \in Records : r # pending' /\ r # pending => records'[r] = records[r]
    BY RegisterFacts
  <1>2. \A r \in Records : records'[r].status = "pending" => r = pending'
    BY <1>1
  <1>3. ASSUME NEW r \in Records, records'[r].status \in {"unused", "pending"}
        PROVE  run'[r] = "none" /\ starter'[r] = Nobody /\ ~records'[r].finished
    BY <1>1, <1>3
  <1>4. ASSUME NEW r \in Records, r > made' PROVE records'[r].status = "unused"
    <2>1. r \in Nat /\ made \in Nat /\ made' \in Nat
      BY <1>1 DEF Records, ReviewTypeOK
    <2>2. r > made /\ r # pending'
      BY <2>1, <1>1, <1>4
    <2>3. records[r].status = "unused"
      BY <2>2
    <2>4. r # pending
      BY <2>3, <1>1
    <2> QED
      BY <2>2, <2>3, <2>4, <1>1
  <1> QED
    BY <1>1, <1>2, <1>3, <1>4

\* What becomes of the plans that were run.
LEMMA KeptReview ==
    ASSUME TypeOK, ReviewInv, pending' = pending, made' = made,
           starter' = starter, lastRun' = lastRun,
           \A q \in Records : records[q].status \in {"unused", "pending"} =>
              records'[q] = records[q] /\ run'[q] = run[q],
           \A q \in Records :
              records'[q] = records[q] \/ records'[q].status \notin {"unused", "pending"}
    PROVE  ReviewInv'
  <1>1. \A q \in Records : records'[q].status \in {"unused", "pending"} =>
           records'[q] = records[q] /\ run'[q] = run[q]
    BY DEF ReviewInv
  <1>2. \A q \in Records : records[q].status \in {"unused", "pending"} =>
           records'[q] = records[q]
    BY DEF ReviewInv
  <1>3. pending # None => pending \in Records
    BY DEF TypeOK, ReviewTypeOK
  <1> QED
    BY <1>1, <1>2, <1>3 DEF ReviewInv

\* The plan that waits is decided on; if it is executed, its run is still to be started.
LEMMA DecidedReview ==
    ASSUME TypeOK, ReviewInv, UNCHANGED engine,
           pending \in Records, pending' = None, made' = made,
           records'[pending].status \notin {"unused", "pending"},
           \A r \in Records : r # pending => records'[r] = records[r]
    PROVE  ReviewInv'
  <1>1. \A r \in Records : records'[r].status \in {"unused", "pending"} =>
           r # pending /\ records[r].status = "unused" /\ records'[r] = records[r]
    BY DEF ReviewInv
  <1>2. \A r \in Records : records[r].status = "unused" => r # pending
    BY DEF ReviewInv
  <1> QED
    BY <1>1, <1>2 DEF ReviewInv, engine

-----------------------------------------------------------------------------
(* Each action.                                                            *)

LEMMA SubmitInvariant ==
    ASSUME IInv, NEW p \in Plans, Submit(p) PROVE IInv'
  <1>1. ReviewTypeOK'
    BY RegisterFacts DEF Submit, IInv, TypeOK
  <1>2. /\ pending' \in Records /\ pending' # pending
        /\ records[pending'].status = "unused"
        /\ records'[pending'].status = "pending" /\ ~records'[pending'].finished
        /\ made' = pending' /\ made < made'
        /\ pending # None =>
              /\ pending \in Records
              /\ records'[pending].status = "superseded"
              /\ records'[pending].finished = records[pending].finished
        /\ \A r \in Records : r # pending' /\ r # pending => records'[r] = records[r]
        /\ \A r \in Records :
              records[r].status \notin {"unused", "pending"} => records'[r] = records[r]
    BY RegisterFacts DEF Submit, IInv, TypeOK
  <1>3. TypeOK'
    BY <1>1 DEF Submit, handler, engine, Reset, IInv, TypeOK, SessionStates
  <1>4. CorrectionsBelongToTheSession'
    BY <1>2 DEF Submit, engine, IInv, CorrectionsBelongToTheSession
  <1>5. ReviewInv'
    BY RegisteredReview DEF Submit, IInv
  <1>6. HandlerInv'
    BY <1>2 DEF Submit, handler, Submittable, Idle, IInv, HandlerInv
  <1>7. SlotInv'
    <2> SUFFICES ASSUME NEW o \in Owners, slot'[o] # NoPause PROVE Asked(o)'
      BY DEF SlotInv
    <2>1. Asked(o) /\ slot'[o] = slot[o]
      BY DEF Submit, IInv, SlotInv
    <2>2. slot[o].kind = "tool" => records'[slot[o].run] = records[slot[o].run]
      BY <1>2, <2>1 DEF Asked
    <2> QED
      BY <2>1, <2>2 DEF Asked, Submit, engine, handler
  <1>8. BusyInv'
    BY <1>2 DEF Submit, handler, engine, Reset, Submittable, Idle, Nobody, BusyInv, Mine
  <1>9. RestInv'
    BY <1>2, VerdictFacts DEF Submit, handler, Reset, Submittable, Ended, IInv, RestInv,
       BusyInv
  <1>10. CostInv'
    BY PolicyAssumption DEF Submit, Reset, CostInv
  <1> QED
    BY <1>3, <1>4, <1>5, <1>6, <1>7, <1>8, <1>9, <1>10 DEF IInv

LEMMA PlanningFailsInvariant ==
    ASSUME IInv, PlanningFails PROVE IInv'
  <1>1. ReviewTypeOK'
    BY DEF PlanningFails, review, IInv, TypeOK, ReviewTypeOK
  <1>2. TypeOK'
    BY <1>1 DEF PlanningFails, handler, engine, Reset, Ended, IInv, TypeOK, SessionStates
  <1>3. CorrectionsBelongToTheSession'
    BY DEF PlanningFails, engine, IInv, CorrectionsBelongToTheSession
  <1>4. ReviewInv'
    BY DEF PlanningFails, engine, review, IInv, ReviewInv
  <1>5. HandlerInv'
    BY DEF PlanningFails, handler, Submittable, Idle, IInv, HandlerInv
  <1>6. SlotInv'
    <2> SUFFICES ASSUME NEW o \in Owners, slot'[o] # NoPause PROVE Asked(o)'
      BY DEF SlotInv
    <2> QED
      BY VerdictFacts DEF PlanningFails, handler, engine, review, IInv, SlotInv, Asked
  <1>7. BusyInv'
    BY DEF PlanningFails, handler, engine, review, Reset, Submittable, Idle, Nobody,
       BusyInv, Mine
  <1>8. RestInv'
    BY VerdictFacts DEF PlanningFails, handler, engine, Submittable, Ended, IInv, RestInv,
       BusyInv
  <1>9. CostInv'
    BY PolicyAssumption DEF PlanningFails, Reset, CostInv
  <1> QED
    BY <1>2, <1>3, <1>4, <1>5, <1>6, <1>7, <1>8, <1>9 DEF IInv

LEMMA CloseInvariant ==
    ASSUME IInv, Close PROVE IInv'
  <1>1. ReviewTypeOK'
    BY DEF Close, review, IInv, TypeOK, ReviewTypeOK
  <1>2. TypeOK'
    BY <1>1 DEF Close, handler, engine, Reset, IInv, TypeOK, SessionStates
  <1>3. CorrectionsBelongToTheSession'
    BY DEF Close, engine, IInv, CorrectionsBelongToTheSession
  <1>4. ReviewInv'
    BY DEF Close, engine, review, IInv, ReviewInv
  <1>5. HandlerInv'
    BY DEF Close, handler, Submittable, Idle, IInv, HandlerInv
  <1>6. SlotInv'
    <2> SUFFICES ASSUME NEW o \in Owners, slot'[o] # NoPause PROVE Asked(o)'
      BY DEF SlotInv
    <2> QED
      BY VerdictFacts DEF Close, handler, engine, review, IInv, SlotInv, Asked
  <1>7. BusyInv'
    BY DEF Close, handler, engine, review, Reset, Submittable, Idle, Nobody, BusyInv, Mine
  <1>8. RestInv'
    BY VerdictFacts DEF Close, handler, engine, Submittable, Ended, IInv, RestInv, BusyInv
  <1>9. CostInv'
    BY PolicyAssumption DEF Close, Reset, CostInv
  <1> QED
    BY <1>2, <1>3, <1>4, <1>5, <1>6, <1>7, <1>8, <1>9 DEF IInv

LEMMA DropPlanInvariant ==
    ASSUME IInv, DropPlan PROVE IInv'
  <1>1. ReviewTypeOK'
    BY DecideFacts DEF DropPlan, Waits, IInv, TypeOK, RecordStatuses
  <1>2. /\ pending \in Records /\ pending' = None /\ made' = made
        /\ records'[pending].status \in {"rejected", "cancelled"}
        /\ records'[pending].finished = records[pending].finished
        /\ \A r \in Records : r # pending => records'[r] = records[r]
    BY DecideFacts DEF DropPlan, Waits, IInv, TypeOK, RecordStatuses
  <1>3. TypeOK'
    BY <1>1 DEF DropPlan, handler, engine, IInv, TypeOK, SessionStates, Ended
  <1>4. CorrectionsBelongToTheSession'
    BY DEF DropPlan, engine, IInv, CorrectionsBelongToTheSession
  <1>5. ReviewInv'
    BY <1>2, DecidedReview DEF DropPlan, IInv
  <1>6. HandlerInv'
    BY DEF DropPlan, handler, Idle, IInv, HandlerInv
  <1>7. SlotInv'
    <2> SUFFICES ASSUME NEW o \in Owners, slot'[o] # NoPause PROVE Asked(o)'
      BY DEF SlotInv
    <2> QED
      BY <1>2, VerdictFacts DEF DropPlan, handler, engine, IInv, SlotInv, Asked, ReviewInv
  <1>8. BusyInv'
    BY <1>2 DEF DropPlan, handler, engine, Waits, Idle, Nobody, BusyInv, Mine
  <1>9. RestInv'
    BY <1>2, VerdictFacts DEF DropPlan, Idle, IInv, RestInv, HandlerInv, BusyInv
  <1>10. CostInv'
    BY DEF DropPlan, IInv, CostInv
  <1> QED
    BY <1>3, <1>4, <1>5, <1>6, <1>7, <1>8, <1>9, <1>10 DEF IInv

LEMMA ApprovePlanInvariant ==
    ASSUME IInv, ApprovePlan PROVE IInv'
  <1>1. ReviewTypeOK'
    BY DEF ApprovePlan, review, IInv, TypeOK, ReviewTypeOK
  <1>2. TypeOK'
    BY <1>1 DEF ApprovePlan, engine, IInv, TypeOK, SessionStates, Places, Owners
  <1>3. CorrectionsBelongToTheSession'
    BY DEF ApprovePlan, engine, IInv, CorrectionsBelongToTheSession
  <1>4. ReviewInv'
    BY DEF ApprovePlan, engine, review, IInv, ReviewInv
  <1>5. HandlerInv'
    BY DEF ApprovePlan, Nobody, HandlerInv, Mine
  <1>6. SlotInv'
    <2> SUFFICES ASSUME NEW o \in Owners, slot'[o] # NoPause PROVE Asked(o)'
      BY DEF SlotInv
    <2> QED
      BY DEF ApprovePlan, engine, review, Idle, IInv, SlotInv, Asked, Slots, HandlerInv
  <1>7. BusyInv'
    BY DEF ApprovePlan, Idle, IInv, BusyInv, HandlerInv, RestInv
  <1>8. RestInv'
    BY VerdictFacts DEF ApprovePlan, engine, review, RestInv, Mine
  <1>9. CostInv'
    BY DEF ApprovePlan, IInv, CostInv
  <1> QED
    BY <1>2, <1>3, <1>4, <1>5, <1>6, <1>7, <1>8, <1>9 DEF IInv

LEMMA PlanWithModelInvariant ==
    ASSUME IInv, NEW p \in Plans, PlanWithModel(p) PROVE IInv'
  <1>1. ReviewTypeOK'
    BY RegisterFacts DEF PlanWithModel, IInv, TypeOK
  <1>2. /\ pending' \in Records /\ pending' # pending
        /\ records[pending'].status = "unused"
        /\ records'[pending'].status = "pending" /\ ~records'[pending'].finished
        /\ made' = pending' /\ made < made'
        /\ pending # None =>
              /\ pending \in Records
              /\ records'[pending].status = "superseded"
              /\ records'[pending].finished = records[pending].finished
        /\ \A r \in Records : r # pending' /\ r # pending => records'[r] = records[r]
        /\ \A r \in Records :
              records[r].status \notin {"unused", "pending"} => records'[r] = records[r]
    BY RegisterFacts DEF PlanWithModel, IInv, TypeOK
  <1>3. TypeOK'
    BY <1>1 DEF PlanWithModel, handler, engine, session, IInv, TypeOK
  <1>4. CorrectionsBelongToTheSession'
    BY DEF PlanWithModel, engine, IInv, CorrectionsBelongToTheSession
  <1>5. ReviewInv'
    BY RegisteredReview DEF PlanWithModel, IInv
  <1>6. HandlerInv'
    <2>1. at \in {"start", "run", "tool"} => records'[cur] = records[cur]
      BY <1>2 DEF IInv, HandlerInv, Noteworthy
    <2> QED
      BY <2>1 DEF PlanWithModel, IInv, HandlerInv, Noteworthy, Mine, engine, handler
  <1>7. SlotInv'
    <2> SUFFICES ASSUME NEW o \in Owners, slot'[o] # NoPause PROVE Asked(o)'
      BY DEF SlotInv
    <2>1. Asked(o) /\ slot'[o] = slot[o]
      BY DEF PlanWithModel, IInv, SlotInv
    <2>2. slot[o].kind = "tool" => records'[slot[o].run] = records[slot[o].run]
      BY <1>2, <2>1 DEF Asked
    <2> QED
      BY <2>1, <2>2 DEF Asked, PlanWithModel, engine, handler
  <1>8. BusyInv'
    BY <1>2 DEF PlanWithModel, handler, session, IInv, BusyInv, Mine
  <1>9. RestInv'
    BY <1>2, VerdictFacts DEF PlanWithModel, handler, engine, session, IInv, RestInv, Mine
  <1>10. CostInv'
    BY DEF PlanWithModel, session, IInv, CostInv
  <1> QED
    BY <1>3, <1>4, <1>5, <1>6, <1>7, <1>8, <1>9, <1>10 DEF IInv

LEMMA DropModelPlanInvariant ==
    ASSUME IInv, DropModelPlan PROVE IInv'
  <1>1. ReviewTypeOK'
    BY DecideFacts DEF DropModelPlan, IInv, TypeOK, RecordStatuses
  <1>2. /\ pending \in Records /\ pending' = None /\ made' = made
        /\ records'[pending].status \in {"rejected", "cancelled"}
        /\ records'[pending].finished = records[pending].finished
        /\ \A r \in Records : r # pending => records'[r] = records[r]
    BY DecideFacts DEF DropModelPlan, IInv, TypeOK, RecordStatuses
  <1>3. TypeOK'
    BY <1>1 DEF DropModelPlan, handler, engine, session, IInv, TypeOK
  <1>4. CorrectionsBelongToTheSession'
    BY DEF DropModelPlan, engine, IInv, CorrectionsBelongToTheSession
  <1>5. ReviewInv'
    BY <1>2, DecidedReview DEF DropModelPlan, IInv
  <1>6. HandlerInv'
    BY <1>2 DEF DropModelPlan, handler, engine, IInv, HandlerInv, Mine, Noteworthy,
       ReviewInv
  <1>7. SlotInv'
    <2> SUFFICES ASSUME NEW o \in Owners, slot'[o] # NoPause PROVE Asked(o)'
      BY DEF SlotInv
    <2> QED
      BY <1>2 DEF DropModelPlan, handler, engine, IInv, SlotInv, Asked, ReviewInv
  <1>8. BusyInv'
    BY <1>2 DEF DropModelPlan, handler, session, IInv, BusyInv, Mine
  <1>9. RestInv'
    BY <1>2, VerdictFacts DEF DropModelPlan, handler, engine, session, IInv, RestInv, Mine
  <1>10. CostInv'
    BY DEF DropModelPlan, session, IInv, CostInv
  <1> QED
    BY <1>3, <1>4, <1>5, <1>6, <1>7, <1>8, <1>9, <1>10 DEF IInv

LEMMA ApproveModelPlanInvariant ==
    ASSUME IInv, ApproveModelPlan PROVE IInv'
  <1>1. ReviewTypeOK'
    BY DecideFacts DEF ApproveModelPlan, IInv, TypeOK, RecordStatuses
  <1>2. /\ pending \in Records /\ pending' = None /\ made' = made
        /\ records'[pending].status \in {"executing"}
        /\ records'[pending].finished = records[pending].finished
        /\ \A r \in Records : r # pending => records'[r] = records[r]
    BY DecideFacts DEF ApproveModelPlan, IInv, TypeOK, RecordStatuses
  <1>3. TypeOK'
    BY <1>1, <1>2 DEF ApproveModelPlan, engine, session, IInv, TypeOK, Places, Owners
  <1>4. CorrectionsBelongToTheSession'
    BY DEF ApproveModelPlan, engine, IInv, CorrectionsBelongToTheSession
  <1>5. ReviewInv'
    BY <1>2, DecidedReview DEF ApproveModelPlan, IInv
  <1>6. HandlerInv'
    BY <1>2 DEF ApproveModelPlan, engine, Nobody, IInv, HandlerInv, Noteworthy, ReviewInv
  <1>7. SlotInv'
    <2> SUFFICES ASSUME NEW o \in Owners, slot'[o] # NoPause PROVE Asked(o)'
      BY DEF SlotInv
    <2> QED
      BY <1>2, VerdictFacts DEF ApproveModelPlan, engine, Idle, IInv, SlotInv, Asked,
         HandlerInv, ReviewInv
  <1>8. BusyInv'
    BY <1>2 DEF ApproveModelPlan, engine, session, BusyInv, Mine
  <1>9. RestInv'
    BY <1>2, VerdictFacts DEF ApproveModelPlan, engine, session, Idle, Nobody, IInv,
       RestInv, Mine
  <1>10. CostInv'
    BY DEF ApproveModelPlan, session, IInv, CostInv
  <1> QED
    BY <1>3, <1>4, <1>5, <1>6, <1>7, <1>8, <1>9, <1>10 DEF IInv

LEMMA ClaimInvariant ==
    ASSUME IInv, Claim PROVE IInv'
  <1>1. ReviewTypeOK'
    BY DecideFacts DEF Claim, Waits, IInv, TypeOK, RecordStatuses
  <1>2. /\ pending \in Records /\ pending' = None /\ made' = made
        /\ records'[pending].status \in {"executing"}
        /\ records'[pending].finished = records[pending].finished
        /\ \A r \in Records : r # pending => records'[r] = records[r]
    BY DecideFacts DEF Claim, Waits, IInv, TypeOK, RecordStatuses
  <1>3. TypeOK'
    BY <1>1, <1>2 DEF Claim, engine, session, IInv, TypeOK, Places
  <1>4. CorrectionsBelongToTheSession'
    BY DEF Claim, engine, IInv, CorrectionsBelongToTheSession
  <1>5. ReviewInv'
    BY <1>2, DecidedReview DEF Claim, IInv
  <1>6. HandlerInv'
    BY <1>2 DEF Claim, engine, IInv, HandlerInv, Noteworthy, ReviewInv
  <1>7. SlotInv'
    <2> SUFFICES ASSUME NEW o \in Owners, slot'[o] # NoPause PROVE Asked(o)'
      BY DEF SlotInv
    <2> QED
      BY <1>2 DEF Claim, engine, IInv, SlotInv, Asked, ReviewInv
  <1>8. BusyInv'
    BY DEF Claim, session, IInv, BusyInv, HandlerInv
  <1>9. RestInv'
    BY <1>2, VerdictFacts DEF Claim, engine, session, IInv, RestInv, Mine
  <1>10. CostInv'
    BY DEF Claim, session, IInv, CostInv
  <1> QED
    BY <1>3, <1>4, <1>5, <1>6, <1>7, <1>8, <1>9, <1>10 DEF IInv

LEMMA ClaimFailsInvariant ==
    ASSUME IInv, ClaimFails PROVE IInv'
  <1>1. ReviewTypeOK'
    <2>1. CASE UNCHANGED review
      BY <2>1 DEF review, IInv, TypeOK, ReviewTypeOK
    <2>2. CASE Waits(plan) /\ Decide("revalidation_failed")
      BY <2>2, DecideFacts DEF Waits, IInv, TypeOK, RecordStatuses
    <2> QED
      BY <2>1, <2>2 DEF ClaimFails
  <1>2. TypeOK'
    BY <1>1 DEF ClaimFails, engine, Done, Turns, IInv, TypeOK, SessionStates, Ended, Places
  <1>3. CorrectionsBelongToTheSession'
    BY DEF ClaimFails, engine, IInv, CorrectionsBelongToTheSession
  <1>4. ReviewInv'
    <2>1. UNCHANGED engine
      BY DEF ClaimFails
    <2>2. CASE UNCHANGED review
      BY <2>1, <2>2 DEF review, engine, IInv, ReviewInv
    <2>3. CASE Waits(plan) /\ Decide("revalidation_failed")
      BY <2>1, <2>3, DecideFacts, DecidedReview DEF Waits, IInv, TypeOK, RecordStatuses
    <2> QED
      BY <2>2, <2>3 DEF ClaimFails
  <1>5. HandlerInv'
    BY DEF ClaimFails, Done, HandlerInv
  <1>6. SlotInv'
    <2> SUFFICES ASSUME NEW o \in Owners, slot'[o] # NoPause PROVE Asked(o)'
      BY DEF SlotInv
    <2>1. slot'[o] = slot[o] /\ Asked(o) /\ ~slot[o].claimed
      BY DEF ClaimFails, IInv, SlotInv, Asked
    <2>2. slot[o].kind = "tool" => records'[slot[o].run] = records[slot[o].run]
      <3>1. CASE UNCHANGED review
        BY <3>1 DEF review
      <3>2. CASE Waits(plan) /\ Decide("revalidation_failed")
        BY <2>1, <3>2, DecideFacts DEF Waits, IInv, TypeOK, RecordStatuses, Asked, ReviewInv
      <3> QED
        BY <3>1, <3>2 DEF ClaimFails
    <2> QED
      BY <2>1, <2>2 DEF Asked, ClaimFails, engine, TypeOK
  <1>7. BusyInv'
    BY DEF ClaimFails, Done, Nobody, Mine, BusyInv
  <1>8. RestInv'
    BY VerdictFacts DEF ClaimFails, engine, Turns, IInv, RestInv, BusyInv
  <1>9. CostInv'
    BY DEF ClaimFails, Turns, IInv, CostInv
  <1> QED
    BY <1>2, <1>3, <1>4, <1>5, <1>6, <1>7, <1>8, <1>9 DEF IInv

LEMMA RevalidationFailsInvariant ==
    ASSUME IInv, RevalidationFails PROVE IInv'
  <1>1. ReviewTypeOK'
    BY DecideFacts DEF RevalidationFails, IInv, TypeOK, RecordStatuses
  <1>2. /\ pending \in Records /\ pending' = None /\ made' = made
        /\ records'[pending].status \in {"revalidation_failed"}
        /\ records'[pending].finished = records[pending].finished
        /\ \A r \in Records : r # pending => records'[r] = records[r]
    BY DecideFacts DEF RevalidationFails, IInv, TypeOK, RecordStatuses
  <1>3. TypeOK'
    BY <1>1 DEF RevalidationFails, handler, engine, session, IInv, TypeOK
  <1>4. CorrectionsBelongToTheSession'
    BY DEF RevalidationFails, engine, IInv, CorrectionsBelongToTheSession
  <1>5. ReviewInv'
    BY <1>2, DecidedReview DEF RevalidationFails, IInv
  <1>6. HandlerInv'
    BY DEF RevalidationFails, handler, Idle, IInv, HandlerInv
  <1>7. SlotInv'
    <2> SUFFICES ASSUME NEW o \in Owners, slot'[o] # NoPause PROVE Asked(o)'
      BY DEF SlotInv
    <2> QED
      BY <1>2, VerdictFacts DEF RevalidationFails, handler, engine, IInv, SlotInv, Asked,
         ReviewInv
  <1>8. BusyInv'
    BY <1>2 DEF RevalidationFails, handler, engine, session, Idle, Nobody, BusyInv, Mine
  <1>9. RestInv'
    BY <1>2, VerdictFacts DEF RevalidationFails, handler, engine, session, IInv, RestInv,
       Mine
  <1>10. CostInv'
    BY DEF RevalidationFails, session, IInv, CostInv
  <1> QED
    BY <1>3, <1>4, <1>5, <1>6, <1>7, <1>8, <1>9, <1>10 DEF IInv

LEMMA StartRunInvariant ==
    ASSUME IInv, StartRun PROVE IInv'
  <1>1. ReviewTypeOK'
    BY DEF StartRun, review, IInv, TypeOK, ReviewTypeOK
  <1>2. TypeOK'
    <2>1. Authorised(cur) \in BOOLEAN
      BY DEF Authorised
    <2>2. traced' \in [Records -> BOOLEAN]
      BY <2>1 DEF StartRun, IInv, TypeOK
    <2>3. run' \in [Records -> RunStatuses] /\ lastRun' \in Records \cup {None}
      BY DEF StartRun, IInv, TypeOK, RunStatuses
    <2>4. starter' \in [Records -> Owners \cup {Nobody}]
      BY DEF StartRun, IInv, TypeOK
    <2> QED
      BY <1>1, <2>2, <2>3 DEF StartRun, session, GoOn, IInv, TypeOK, Places
  <1>3. CorrectionsBelongToTheSession'
    BY DEF StartRun, IInv, TypeOK, CorrectionsBelongToTheSession
  <1>4. ReviewInv'
    BY DEF StartRun, review, IInv, ReviewInv, HandlerInv, Noteworthy
  <1>5. HandlerInv'
    BY DEF StartRun, review, GoOn, IInv, TypeOK, HandlerInv, Noteworthy
  <1>6. SlotInv'
    <2> SUFFICES ASSUME NEW o \in Owners, slot'[o] # NoPause PROVE Asked(o)'
      BY DEF SlotInv
    <2> QED
      BY DEF StartRun, review, IInv, SlotInv, Asked, HandlerInv
  <1>7. BusyInv'
    BY DEF StartRun, session, GoOn, IInv, BusyInv, Mine
  <1>8. RestInv'
    BY VerdictFacts DEF StartRun, session, GoOn, IInv, RestInv, HandlerInv, Mine
  <1>9. CostInv'
    BY DEF StartRun, session, IInv, CostInv
  <1> QED
    BY <1>2, <1>3, <1>4, <1>5, <1>6, <1>7, <1>8, <1>9 DEF IInv

LEMMA StartFailsInvariant ==
    ASSUME IInv, StartFails PROVE IInv'
  <1>1. ReviewTypeOK' /\ pending' = pending /\ made' = made
    BY NoteFacts DEF StartFails, IInv, TypeOK, HandlerInv, RecordStatuses
  <1>2. /\ records'[cur].status = "failed"
        /\ records'[cur].finished =
              (records[cur].finished \/ "failed" # "awaiting_operation_approval")
        /\ \A q \in Records : q # cur => records'[q] = records[q]
    BY NoteFacts DEF StartFails, IInv, TypeOK, HandlerInv, RecordStatuses
  <1>3. TypeOK'
    BY <1>1 DEF StartFails, engine, Done, TakesRun, IInv, TypeOK, SessionStates, Ended,
       Places
  <1>4. CorrectionsBelongToTheSession'
    BY DEF StartFails, engine, IInv, CorrectionsBelongToTheSession
  <1>5. /\ \A q \in Records : records[q].status \in {"unused", "pending"} =>
              records'[q] = records[q] /\ run'[q] = run[q]
        /\ \A q \in Records :
              records'[q] = records[q] \/ records'[q].status \notin {"unused", "pending"}
    BY <1>2 DEF StartFails, IInv, HandlerInv, Noteworthy, engine
  <1>6. ReviewInv'
    BY <1>1, <1>5, KeptReview DEF StartFails, engine, IInv
  <1>7. HandlerInv'
    BY DEF StartFails, Done, HandlerInv
  <1>8. SlotInv'
    <2> SUFFICES ASSUME NEW o \in Owners, slot'[o] # NoPause PROVE Asked(o)'
      BY DEF SlotInv
    <2> QED
      BY <1>1, <1>2, VerdictFacts DEF StartFails, engine, IInv, SlotInv, Asked, Slots,
         HandlerInv
  <1>9. BusyInv'
    BY <1>1 DEF StartFails, Done, Nobody, Mine, BusyInv
  <1>10. RestInv'
    BY <1>1, <1>2, VerdictFacts DEF StartFails, engine, TakesRun, IInv, RestInv, BusyInv
  <1>11. CostInv'
    BY DEF StartFails, IInv, CostInv
  <1> QED
    BY <1>3, <1>4, <1>6, <1>7, <1>8, <1>9, <1>10, <1>11 DEF IInv

LEMMA RunEndsInvariant ==
    ASSUME IInv, NEW s \in {"completed", "failed", "running", "awaiting_approval"}, RunEnds(s)
    PROVE IInv'
  <1>1. cur \in Records /\ starter[cur] # Nobody /\ starter[cur] = owner /\ owner \in Owners
    BY DEF RunEnds, IInv, TypeOK, HandlerInv
  <1>2. /\ run' \in [Records -> RunStatuses]
        /\ starter' = starter /\ traced' = traced /\ lastRun' = lastRun
    BY EndsFacts, <1>1 DEF RunEnds, IInv, TypeOK, RunStatuses
  <1>3. /\ run'[cur] = s
        /\ \A q \in Records : q # cur => run'[q] = run[q]
    BY EndsFacts, <1>1 DEF RunEnds, IInv, TypeOK, RunStatuses
  <1>4. ReviewTypeOK' /\ pending' = pending /\ made' = made
    BY NoteFacts, <1>1, VerdictFacts DEF RunEnds, IInv, TypeOK, RecordStatuses
  <1>5. /\ records'[cur].status = Verdict(s)
        /\ records'[cur].finished =
              (records[cur].finished \/ Verdict(s) # "awaiting_operation_approval")
        /\ \A q \in Records : q # cur => records'[q] = records[q]
    BY NoteFacts, <1>1, VerdictFacts DEF RunEnds, IInv, TypeOK, RecordStatuses
  <1>6. TypeOK'
    BY <1>2, <1>4, VerdictFacts DEF RunEnds, Done, TakesRun, IInv, TypeOK, SessionStates,
       Ended, Places
  <1>7. CorrectionsBelongToTheSession'
    BY <1>1, <1>2, <1>3 DEF IInv, CorrectionsBelongToTheSession
  <1>8. /\ \A q \in Records : records[q].status \in {"unused", "pending"} =>
              records'[q] = records[q] /\ run'[q] = run[q]
        /\ \A q \in Records :
              records'[q] = records[q] \/ records'[q].status \notin {"unused", "pending"}
    BY <1>1, <1>3, <1>5, VerdictFacts DEF IInv, ReviewInv
  <1>9. ReviewInv'
    BY <1>2, <1>4, <1>8, KeptReview DEF IInv
  <1>10. HandlerInv'
    BY <1>1, <1>2, <1>3, <1>4 DEF RunEnds, Done, HandlerInv
  <1>11. SlotInv'
    <2> SUFFICES ASSUME NEW o \in Owners, slot'[o] # NoPause PROVE Asked(o)'
      BY DEF SlotInv
    <2> QED
      BY <1>1, <1>2, <1>3, <1>4, <1>5 DEF RunEnds, IInv, SlotInv, Asked, Slots, HandlerInv
  <1>12. BusyInv'
    BY <1>1, <1>2, <1>3 DEF RunEnds, Done, Nobody, Mine, BusyInv
  <1>13. RestInv'
    <2>1. CASE Mine
      BY <2>1, <1>1, <1>2, <1>3, <1>4, <1>5, VerdictFacts DEF RunEnds, Mine, TakesRun,
         IInv, RestInv, BusyInv
    <2>2. CASE ~Mine
      BY <2>2, <1>1, <1>2, <1>3 DEF RunEnds, Mine, TakesRun, IInv, TypeOK, RestInv
    <2> QED
      BY <2>1, <2>2
  <1>14. CostInv'
    BY DEF RunEnds, IInv, CostInv
  <1> QED
    BY <1>6, <1>7, <1>9, <1>10, <1>11, <1>12, <1>13, <1>14 DEF IInv

LEMMA RunPausesInvariant ==
    ASSUME IInv, RunPauses PROVE IInv'
  <1>1. cur \in Records /\ starter[cur] # Nobody /\ starter[cur] = owner /\ owner \in Owners
    BY DEF RunPauses, IInv, TypeOK, HandlerInv
  <1>2. /\ run' \in [Records -> RunStatuses]
        /\ starter' = starter /\ traced' = traced /\ lastRun' = lastRun
    BY EndsFacts, <1>1 DEF RunPauses, IInv, TypeOK, RunStatuses
  <1>3. /\ run'[cur] = "awaiting_approval"
        /\ \A q \in Records : q # cur => run'[q] = run[q]
    BY EndsFacts, <1>1 DEF RunPauses, IInv, TypeOK, RunStatuses
  <1>4. ReviewTypeOK' /\ pending' = pending /\ made' = made
    BY NoteFacts, <1>1 DEF RunPauses, IInv, TypeOK, RecordStatuses
  <1>5. /\ records'[cur].status = "awaiting_operation_approval"
        /\ records'[cur].finished =
              (records[cur].finished \/ "awaiting_operation_approval" # "awaiting_operation_approval")
        /\ \A q \in Records : q # cur => records'[q] = records[q]
    BY NoteFacts, <1>1 DEF RunPauses, IInv, TypeOK, RecordStatuses
  <1>6. slot' \in [Owners -> Slots]
    BY HoldsFacts, <1>1 DEF RunPauses, IInv, TypeOK, Slots
  <1>7. /\ slot[owner] # NoPause => slot' = slot
        /\ slot[owner] = NoPause =>
              /\ slot'[owner].run = cur /\ slot'[owner].kind = "tool" /\ ~slot'[owner].claimed
              /\ slot'[owner] # NoPause
        /\ \A q \in Owners : q # owner => slot'[q] = slot[q]
    BY HoldsFacts, <1>1 DEF RunPauses, IInv, TypeOK, Slots
  <1>8. TypeOK'
    BY <1>2, <1>4, <1>6, <1>1 DEF RunPauses, Done, TakesRun, IInv, TypeOK, SessionStates,
       Places, Slots
  <1>9. CorrectionsBelongToTheSession'
    BY <1>1, <1>2, <1>3 DEF IInv, CorrectionsBelongToTheSession
  <1>10. /\ \A q \in Records : records[q].status \in {"unused", "pending"} =>
               records'[q] = records[q] /\ run'[q] = run[q]
         /\ \A q \in Records :
               records'[q] = records[q] \/ records'[q].status \notin {"unused", "pending"}
    BY <1>1, <1>3, <1>5 DEF IInv, ReviewInv
  <1>11. ReviewInv'
    BY <1>2, <1>4, <1>10, KeptReview DEF IInv
  <1>12. HandlerInv'
    BY <1>1, <1>2, <1>3, <1>4, <1>5 DEF RunPauses, Done, HandlerInv
  <1>13. SlotInv'
    <2> SUFFICES ASSUME NEW o \in Owners, slot'[o] # NoPause PROVE Asked(o)'
      BY DEF SlotInv
    <2>1. CASE o = owner /\ slot[owner] = NoPause
      BY <2>1, <1>2, <1>3, <1>5, <1>7 DEF RunPauses, IInv, HandlerInv, Noteworthy, Asked
    <2>2. CASE ~(o = owner /\ slot[owner] = NoPause)
      <3>1. slot'[o] = slot[o] /\ Asked(o)
        BY <2>2, <1>7 DEF IInv, SlotInv
      <3>2. ~slot[o].claimed /\ slot[o].run # cur
        BY <3>1 DEF RunPauses, IInv, HandlerInv, Asked
      <3> QED
        BY <3>1, <3>2, <1>2, <1>3, <1>5 DEF Asked
    <2> QED
      BY <2>1, <2>2
  <1>14. BusyInv'
    BY <1>1, <1>2, <1>3, <1>4 DEF RunPauses, Done, Nobody, Mine, BusyInv
  <1>15. RestInv'
    <2>1. CASE Mine
      <3>1. slot[owner] = NoPause /\ mine' = cur /\ state' = "awaiting_approval" /\ ~bound'
        BY <2>1 DEF RunPauses, TakesRun, IInv, BusyInv, Mine
      <3> QED
        BY <2>1, <3>1, <1>7, <1>8 DEF RestInv, Mine, TypeOK
    <2>2. CASE ~Mine
      <3>1. /\ owner # "session" /\ slot'["session"] = slot["session"]
            /\ UNCHANGED <<state, mine, bound, assisted>>
        BY <2>2, <1>7 DEF RunPauses, TakesRun, Mine, Owners
      <3>2. mine \in Records /\ starter[mine] = "session" => mine # cur
        BY <2>2, <1>1 DEF Mine
      <3> QED
        BY <2>2, <3>1, <3>2, <1>2, <1>3 DEF IInv, TypeOK, RestInv
    <2> QED
      BY <2>1, <2>2
  <1>16. CostInv'
    BY DEF RunPauses, IInv, CostInv
  <1> QED
    BY <1>8, <1>9, <1>11, <1>12, <1>13, <1>14, <1>15, <1>16 DEF IInv

LEMMA ApproveInvariant ==
    ASSUME IInv, NEW o \in Owners, Approve(o) PROVE IInv'
  <1>1. slot[o].run \in Records /\ starter[slot[o].run] # Nobody
    BY DEF Approve, IInv, SlotInv, Asked, Decidable, Owners, Nobody
  <1>2. /\ run' \in [Records -> RunStatuses]
        /\ starter' = starter /\ traced' = traced /\ lastRun' = lastRun
    BY EndsFacts, <1>1 DEF Approve, IInv, TypeOK, RunStatuses
  <1>3. /\ run'[slot[o].run] = "running"
        /\ \A q \in Records : q # slot[o].run => run'[q] = run[q]
    BY EndsFacts, <1>1 DEF Approve, IInv, TypeOK, RunStatuses
  <1>4. slot' \in [Owners -> Slots]
    BY ClaimsFacts DEF Approve, IInv, TypeOK, Slots
  <1>5. /\ slot'[o].run = slot[o].run /\ slot'[o].kind = slot[o].kind /\ slot'[o].claimed
        /\ \A q \in Owners : q # o => slot'[q] = slot[q]
    BY DEF Approve, IInv, TypeOK
  <1>6. ReviewTypeOK'
    BY DEF Approve, review, IInv, TypeOK, ReviewTypeOK
  <1>7. TypeOK'
    BY <1>2, <1>4, <1>6, <1>1 DEF Approve, review, Decidable, IInv, TypeOK, SessionStates,
       Places, Slots, SlotInv, Asked
  <1>8. CorrectionsBelongToTheSession'
    BY <1>1, <1>2, <1>3 DEF IInv, CorrectionsBelongToTheSession
  <1>9. /\ \A q \in Records : records[q].status \in {"unused", "pending"} =>
              records'[q] = records[q] /\ run'[q] = run[q]
        /\ \A q \in Records :
              records'[q] = records[q] \/ records'[q].status \notin {"unused", "pending"}
    BY <1>1, <1>3 DEF Approve, review, IInv, ReviewInv
  <1>10. ReviewInv'
    BY <1>2, <1>9, KeptReview DEF Approve, review, IInv
  <1>11. HandlerInv'
    BY <1>1, <1>2, <1>3, <1>5 DEF Approve, review, Decidable, IInv, HandlerInv, Mine,
       Noteworthy, SlotInv, Asked
  <1>12. SlotInv'
    <2>1. ASSUME NEW q \in Owners, q = o, slot'[q] # NoPause PROVE Asked(q)'
      BY <2>1, <1>1, <1>2, <1>3, <1>5 DEF Approve, review, Decidable, IInv, SlotInv, Asked
    <2>2. ASSUME NEW q \in Owners, q # o, slot'[q] # NoPause PROVE Asked(q)'
      BY <2>2, <1>1, <1>2, <1>3, <1>5 DEF Approve, review, Decidable, Idle, IInv, SlotInv,
         Asked, Slots, HandlerInv
    <2> QED
      BY <2>1, <2>2 DEF SlotInv
  <1>13. BusyInv'
    BY <1>1, <1>2, <1>3, <1>5 DEF Approve, review, Decidable, Idle, Nobody, IInv, BusyInv,
       RestInv, SlotInv, Asked, Mine
  <1>14. RestInv'
    BY <1>1, <1>2, <1>3, <1>5, VerdictFacts DEF Approve, review, Decidable, Idle, Nobody,
       IInv, TypeOK, RestInv, SlotInv, Asked, Mine
  <1>15. CostInv'
    BY DEF Approve, IInv, CostInv
  <1> QED
    BY <1>7, <1>8, <1>10, <1>11, <1>12, <1>13, <1>14, <1>15 DEF IInv

LEMMA InvalidateStaleInvariant ==
    ASSUME IInv, InvalidateStale PROVE IInv'
  <1>1. mine \in Records /\ starter[mine] # Nobody /\ starter[mine] = "session"
    BY DEF InvalidateStale, IInv, SlotInv, Asked, RestInv, Decidable, Idle, Mine, Owners,
       Nobody
  <1>2. /\ run' \in [Records -> RunStatuses]
        /\ starter' = starter /\ traced' = traced /\ lastRun' = lastRun
    BY EndsFacts, <1>1 DEF InvalidateStale, IInv, TypeOK, RunStatuses
  <1>3. /\ run'[mine] = "cancelled"
        /\ \A q \in Records : q # mine => run'[q] = run[q]
    BY EndsFacts, <1>1 DEF InvalidateStale, IInv, TypeOK, RunStatuses
  <1>4. slot' \in [Owners -> Slots]
    BY FreesFacts, <1>1 DEF InvalidateStale, IInv, TypeOK, Slots
  <1>5. /\ slot'["session"] = NoPause
        /\ \A q \in Owners : q # "session" => slot'[q] = slot[q]
    BY FreesFacts, <1>1 DEF InvalidateStale, IInv, TypeOK, Slots
  <1>6. ReviewTypeOK'
    BY DEF InvalidateStale, review, IInv, TypeOK, ReviewTypeOK
  <1>7. TypeOK'
    BY <1>2, <1>4, <1>6, <1>1 DEF InvalidateStale, handler, IInv, TypeOK, SessionStates,
       Ended, Slots
  <1>8. CorrectionsBelongToTheSession'
    BY <1>1, <1>2, <1>3 DEF IInv, CorrectionsBelongToTheSession
  <1>9. /\ \A q \in Records : records[q].status \in {"unused", "pending"} =>
              records'[q] = records[q] /\ run'[q] = run[q]
        /\ \A q \in Records :
              records'[q] = records[q] \/ records'[q].status \notin {"unused", "pending"}
    BY <1>1, <1>3 DEF InvalidateStale, review, IInv, ReviewInv
  <1>10. ReviewInv'
    BY <1>2, <1>9, KeptReview DEF InvalidateStale, review, IInv
  <1>11. HandlerInv'
    BY <1>1, <1>2 DEF InvalidateStale, handler, Decidable, Idle, IInv, HandlerInv
  <1>12. SlotInv'
    <2>1. ASSUME NEW o \in Owners, o = "session", slot'[o] # NoPause PROVE Asked(o)'
      BY <2>1, <1>5
    <2>2. ASSUME NEW o \in Owners, o # "session", slot'[o] # NoPause PROVE Asked(o)'
      BY <2>2, <1>1, <1>2, <1>3, <1>5, VerdictFacts DEF InvalidateStale, handler, review,
         IInv, SlotInv, Asked, HandlerInv
    <2> QED
      BY <2>1, <2>2 DEF SlotInv
  <1>13. BusyInv'
    BY <1>1, <1>2, <1>3, <1>5 DEF InvalidateStale, handler, review, Decidable, Idle,
       BusyInv, Mine
  <1>14. RestInv'
    BY <1>1, <1>2, <1>3, <1>5 DEF InvalidateStale, RestInv
  <1>15. CostInv'
    BY DEF InvalidateStale, IInv, CostInv
  <1> QED
    BY <1>7, <1>8, <1>10, <1>11, <1>12, <1>13, <1>14, <1>15 DEF IInv

LEMMA ToolReturnsInvariant ==
    ASSUME IInv, NEW s \in {"completed", "failed", "running", "awaiting_approval"}, ToolReturns(s)
    PROVE IInv'
  <1>1. cur \in Records /\ starter[cur] # Nobody /\ starter[cur] = owner /\ owner \in Owners
    BY DEF ToolReturns, IInv, TypeOK, HandlerInv
  <1>2. /\ run' \in [Records -> RunStatuses]
        /\ starter' = starter /\ traced' = traced /\ lastRun' = lastRun
    BY EndsFacts, <1>1 DEF ToolReturns, IInv, TypeOK, RunStatuses
  <1>3. /\ run'[cur] = s
        /\ \A q \in Records : q # cur => run'[q] = run[q]
    BY EndsFacts, <1>1 DEF ToolReturns, IInv, TypeOK, RunStatuses
  <1>4. ReviewTypeOK' /\ pending' = pending /\ made' = made
    BY NoteFacts, <1>1, VerdictFacts DEF ToolReturns, IInv, TypeOK, RecordStatuses
  <1>5. /\ records'[cur].status = Verdict(Last(s))
        /\ records'[cur].finished =
              (records[cur].finished \/ Verdict(Last(s)) # "awaiting_operation_approval")
        /\ \A q \in Records : q # cur => records'[q] = records[q]
    BY NoteFacts, <1>1, VerdictFacts DEF ToolReturns, IInv, TypeOK, RecordStatuses
  <1>6. slot' \in [Owners -> Slots]
    BY FreesFacts, <1>1 DEF ToolReturns, IInv, TypeOK, Slots
  <1>7. /\ slot'[owner] = NoPause
        /\ \A q \in Owners : q # owner => slot'[q] = slot[q]
    BY FreesFacts, <1>1 DEF ToolReturns, IInv, TypeOK, Slots
  <1>8. TypeOK'
    BY <1>2, <1>4, <1>6, <1>1, VerdictFacts DEF ToolReturns, Done, Turns, IInv, TypeOK,
       SessionStates, Ended, Places, Slots
  <1>9. CorrectionsBelongToTheSession'
    BY <1>1, <1>2, <1>3 DEF IInv, CorrectionsBelongToTheSession
  <1>10. /\ \A q \in Records : records[q].status \in {"unused", "pending"} =>
               records'[q] = records[q] /\ run'[q] = run[q]
         /\ \A q \in Records :
               records'[q] = records[q] \/ records'[q].status \notin {"unused", "pending"}
    BY <1>1, <1>3, <1>5, VerdictFacts DEF IInv, ReviewInv
  <1>11. ReviewInv'
    BY <1>2, <1>4, <1>10, KeptReview DEF IInv
  <1>12. HandlerInv'
    BY <1>1, <1>2, <1>3, <1>4, <1>5 DEF ToolReturns, Done, HandlerInv
  <1>13. SlotInv'
    <2>1. ASSUME NEW o \in Owners, o = owner, slot'[o] # NoPause PROVE Asked(o)'
      BY <2>1, <1>7
    <2>2. ASSUME NEW o \in Owners, o # owner, slot'[o] # NoPause PROVE Asked(o)'
      BY <2>2, <1>1, <1>2, <1>3, <1>4, <1>5, <1>7 DEF IInv, SlotInv, Asked
    <2> QED
      BY <2>1, <2>2 DEF SlotInv
  <1>14. BusyInv'
    BY <1>1, <1>2, <1>3, <1>4 DEF ToolReturns, Done, Nobody, Mine, BusyInv
  <1>15. RestInv'
    <2>1. CASE Mine
      BY <2>1, <1>1, <1>2, <1>3, <1>4, <1>5, <1>7 DEF ToolReturns, Mine, Turns, IInv,
         RestInv, BusyInv
    <2>2. CASE ~Mine
      BY <2>2, <1>1, <1>2, <1>3, <1>4, <1>5, <1>7, VerdictFacts DEF ToolReturns, Done,
         Mine, Turns, IInv, TypeOK, RestInv, Owners
    <2> QED
      BY <2>1, <2>2
  <1>16. CostInv'
    BY DEF ToolReturns, Turns, IInv, CostInv
  <1> QED
    BY <1>8, <1>9, <1>11, <1>12, <1>13, <1>14, <1>15, <1>16 DEF IInv

LEMMA ToolRaisesInvariant ==
    ASSUME IInv, NEW s \in {"completed", "failed", "running", "awaiting_approval"}, ToolRaises(s)
    PROVE IInv'
  <1>1. cur \in Records /\ starter[cur] # Nobody /\ starter[cur] = owner /\ owner \in Owners
    BY DEF ToolRaises, IInv, TypeOK, HandlerInv
  <1>2. /\ run' \in [Records -> RunStatuses]
        /\ starter' = starter /\ traced' = traced /\ lastRun' = lastRun
    BY EndsFacts, <1>1 DEF ToolRaises, IInv, TypeOK, RunStatuses
  <1>3. /\ run'[cur] = s
        /\ \A q \in Records : q # cur => run'[q] = run[q]
    BY EndsFacts, <1>1 DEF ToolRaises, IInv, TypeOK, RunStatuses
  <1>4. ReviewTypeOK' /\ pending' = pending /\ made' = made
    BY NoteFacts, <1>1 DEF ToolRaises, IInv, TypeOK, RecordStatuses
  <1>5. /\ records'[cur].status = "failed"
        /\ records'[cur].finished =
              (records[cur].finished \/ "failed" # "awaiting_operation_approval")
        /\ \A q \in Records : q # cur => records'[q] = records[q]
    BY NoteFacts, <1>1 DEF ToolRaises, IInv, TypeOK, RecordStatuses
  <1>6. slot' \in [Owners -> Slots]
    BY FreesFacts, <1>1 DEF ToolRaises, IInv, TypeOK, Slots
  <1>7. /\ slot'[owner] = NoPause
        /\ \A q \in Owners : q # owner => slot'[q] = slot[q]
    BY FreesFacts, <1>1 DEF ToolRaises, IInv, TypeOK, Slots
  <1>8. TypeOK'
    BY <1>2, <1>4, <1>6, <1>1 DEF ToolRaises, Done, Turns, IInv, TypeOK, SessionStates,
       Ended, Places, Slots
  <1>9. CorrectionsBelongToTheSession'
    BY <1>1, <1>2, <1>3 DEF IInv, CorrectionsBelongToTheSession
  <1>10. /\ \A q \in Records : records[q].status \in {"unused", "pending"} =>
               records'[q] = records[q] /\ run'[q] = run[q]
         /\ \A q \in Records :
               records'[q] = records[q] \/ records'[q].status \notin {"unused", "pending"}
    BY <1>1, <1>3, <1>5 DEF IInv, ReviewInv
  <1>11. ReviewInv'
    BY <1>2, <1>4, <1>10, KeptReview DEF IInv
  <1>12. HandlerInv'
    BY <1>1, <1>2, <1>3, <1>4, <1>5 DEF ToolRaises, Done, HandlerInv
  <1>13. SlotInv'
    <2>1. ASSUME NEW o \in Owners, o = owner, slot'[o] # NoPause PROVE Asked(o)'
      BY <2>1, <1>7
    <2>2. ASSUME NEW o \in Owners, o # owner, slot'[o] # NoPause PROVE Asked(o)'
      BY <2>2, <1>1, <1>2, <1>3, <1>4, <1>5, <1>7 DEF IInv, SlotInv, Asked
    <2> QED
      BY <2>1, <2>2 DEF SlotInv
  <1>14. BusyInv'
    BY <1>1, <1>2, <1>3, <1>4 DEF ToolRaises, Done, Nobody, Mine, BusyInv
  <1>15. RestInv'
    <2>1. CASE Mine
      BY <2>1, <1>1, <1>2, <1>3, <1>4, <1>7 DEF ToolRaises, Mine, Turns, RestInv
    <2>2. CASE ~Mine
      BY <2>2, <1>1, <1>2, <1>3, <1>4, <1>5, <1>7, VerdictFacts DEF ToolRaises, Done,
         Mine, Turns, IInv, TypeOK, RestInv, Owners
    <2> QED
      BY <2>1, <2>2
  <1>16. CostInv'
    BY DEF ToolRaises, Turns, IInv, CostInv
  <1> QED
    BY <1>8, <1>9, <1>11, <1>12, <1>13, <1>14, <1>15, <1>16 DEF IInv

LEMMA ToolPausesInvariant ==
    ASSUME IInv, ToolPauses PROVE IInv'
  <1>1. cur \in Records /\ starter[cur] # Nobody /\ starter[cur] = owner /\ owner \in Owners
    BY DEF ToolPauses, IInv, TypeOK, HandlerInv
  <1>2. /\ run' \in [Records -> RunStatuses]
        /\ starter' = starter /\ traced' = traced /\ lastRun' = lastRun
    BY EndsFacts, <1>1 DEF ToolPauses, IInv, TypeOK, RunStatuses
  <1>3. /\ run'[cur] = "awaiting_approval"
        /\ \A q \in Records : q # cur => run'[q] = run[q]
    BY EndsFacts, <1>1 DEF ToolPauses, IInv, TypeOK, RunStatuses
  <1>4. ReviewTypeOK' /\ pending' = pending /\ made' = made
    BY NoteFacts, <1>1 DEF ToolPauses, IInv, TypeOK, RecordStatuses
  <1>5. /\ records'[cur].status = "awaiting_operation_approval"
        /\ records'[cur].finished =
              (records[cur].finished \/ "awaiting_operation_approval" # "awaiting_operation_approval")
        /\ \A q \in Records : q # cur => records'[q] = records[q]
    BY NoteFacts, <1>1 DEF ToolPauses, IInv, TypeOK, RecordStatuses
  <1>6. slot' \in [Owners -> Slots]
    BY HoldsFacts, <1>1 DEF ToolPauses, IInv, TypeOK, Slots
  <1>7. /\ slot'[owner].run = cur /\ slot'[owner].kind = "tool" /\ ~slot'[owner].claimed
        /\ slot'[owner] # NoPause
        /\ \A q \in Owners : q # owner => slot'[q] = slot[q]
    BY HoldsFacts, <1>1 DEF ToolPauses, IInv, TypeOK, Slots
  <1>8. TypeOK'
    BY <1>2, <1>4, <1>6, <1>1 DEF ToolPauses, Done, Turns, IInv, TypeOK, SessionStates,
       Places, Slots
  <1>9. CorrectionsBelongToTheSession'
    BY <1>1, <1>2, <1>3 DEF IInv, CorrectionsBelongToTheSession
  <1>10. /\ \A q \in Records : records[q].status \in {"unused", "pending"} =>
               records'[q] = records[q] /\ run'[q] = run[q]
         /\ \A q \in Records :
               records'[q] = records[q] \/ records'[q].status \notin {"unused", "pending"}
    BY <1>1, <1>3, <1>5 DEF IInv, ReviewInv
  <1>11. ReviewInv'
    BY <1>2, <1>4, <1>10, KeptReview DEF IInv
  <1>12. HandlerInv'
    BY <1>1, <1>2, <1>3, <1>4, <1>5 DEF ToolPauses, Done, HandlerInv
  <1>13. SlotInv'
    <2>1. ASSUME NEW o \in Owners, o = owner, slot'[o] # NoPause PROVE Asked(o)'
      BY <2>1, <1>1, <1>2, <1>3, <1>4, <1>5, <1>7, VerdictFacts DEF ToolPauses, Done,
         IInv, Asked, HandlerInv, Owners, Noteworthy
    <2>2. ASSUME NEW o \in Owners, o # owner, slot'[o] # NoPause PROVE Asked(o)'
      BY <2>2, <1>1, <1>2, <1>3, <1>4, <1>5, <1>7 DEF IInv, SlotInv, Asked
    <2> QED
      BY <2>1, <2>2 DEF SlotInv
  <1>14. BusyInv'
    BY <1>1, <1>2, <1>3, <1>4 DEF ToolPauses, Done, Nobody, Mine, BusyInv
  <1>15. RestInv'
    <2>1. CASE Mine
      BY <2>1, <1>1, <1>2, <1>3, <1>4, <1>5, <1>7 DEF ToolPauses, Turns, Mine, IInv,
         TypeOK, RestInv, BusyInv
    <2>2. CASE ~Mine
      BY <2>2, <1>1, <1>2, <1>3, <1>4, <1>5, <1>7, VerdictFacts DEF ToolPauses, Done,
         Turns, Mine, IInv, TypeOK, RestInv, Owners
    <2> QED
      BY <2>1, <2>2
  <1>16. CostInv'
    BY DEF ToolPauses, Turns, IInv, CostInv
  <1> QED
    BY <1>8, <1>9, <1>11, <1>12, <1>13, <1>14, <1>15, <1>16 DEF IInv

LEMMA ToolOpensCorrectionInvariant ==
    ASSUME IInv, ToolOpensCorrection PROVE IInv'
  <1>1. cur \in Records /\ starter[cur] # Nobody /\ starter[cur] = owner /\ owner \in Owners
    BY DEF ToolOpensCorrection, IInv, TypeOK, HandlerInv
  <1>2. /\ run' \in [Records -> RunStatuses]
        /\ starter' = starter /\ traced' = traced /\ lastRun' = lastRun
    BY EndsFacts, <1>1 DEF ToolOpensCorrection, IInv, TypeOK, RunStatuses
  <1>3. /\ run'[cur] = "awaiting_correction"
        /\ \A q \in Records : q # cur => run'[q] = run[q]
    BY EndsFacts, <1>1 DEF ToolOpensCorrection, IInv, TypeOK, RunStatuses
  <1>4. ReviewTypeOK' /\ pending' = pending /\ made' = made
    BY NoteFacts, <1>1, VerdictFacts DEF ToolOpensCorrection, IInv, TypeOK, RecordStatuses
  <1>5. /\ records'[cur].status = Verdict(Last("awaiting_correction"))
        /\ records'[cur].finished =
              (records[cur].finished \/ Verdict(Last("awaiting_correction")) # "awaiting_operation_approval")
        /\ \A q \in Records : q # cur => records'[q] = records[q]
    BY NoteFacts, <1>1, VerdictFacts DEF ToolOpensCorrection, IInv, TypeOK, RecordStatuses
  <1>6. slot' \in [Owners -> Slots]
    BY FreesFacts, <1>1 DEF ToolOpensCorrection, IInv, TypeOK, Slots
  <1>7. /\ slot'[owner] = NoPause
        /\ \A q \in Owners : q # owner => slot'[q] = slot[q]
    BY FreesFacts, <1>1 DEF ToolOpensCorrection, IInv, TypeOK, Slots
  <1>8. TypeOK'
    BY <1>2, <1>4, <1>6, <1>1, VerdictFacts DEF ToolOpensCorrection, AwaitsCorrection,
       Done, Nobody, GoOn, Turns, IInv, TypeOK, SessionStates, Places, Slots
  <1>9. CorrectionsBelongToTheSession'
    BY <1>1, <1>2, <1>3, <1>4, <1>5, <1>7 DEF ToolOpensCorrection, Mine, Trusted, IInv,
       CorrectionsBelongToTheSession
  <1>10. /\ \A q \in Records : records[q].status \in {"unused", "pending"} =>
               records'[q] = records[q] /\ run'[q] = run[q]
         /\ \A q \in Records :
               records'[q] = records[q] \/ records'[q].status \notin {"unused", "pending"}
    BY <1>1, <1>3, <1>5, VerdictFacts DEF IInv, ReviewInv
  <1>11. ReviewInv'
    BY <1>2, <1>4, <1>10, KeptReview DEF IInv
  <1>12. HandlerInv'
    BY <1>1, <1>2, <1>3, <1>4, <1>5, <1>7 DEF ToolOpensCorrection, AwaitsCorrection, Done,
       GoOn, Mine, Trusted, HandlerInv
  <1>13. SlotInv'
    <2>1. ASSUME NEW o \in Owners, o = owner, slot'[o] # NoPause PROVE Asked(o)'
      BY <2>1, <1>7
    <2>2. ASSUME NEW o \in Owners, o # owner, slot'[o] # NoPause PROVE Asked(o)'
      BY <2>2, <1>1, <1>2, <1>3, <1>4, <1>5, <1>7, VerdictFacts DEF ToolOpensCorrection,
         AwaitsCorrection, IInv, SlotInv, Asked, Slots, HandlerInv
    <2> QED
      BY <2>1, <2>2 DEF SlotInv
  <1>14. BusyInv'
    BY <1>1, <1>2, <1>3, <1>4, <1>5, <1>7 DEF ToolOpensCorrection, AwaitsCorrection, Done,
       GoOn, Turns, Mine, Trusted, BusyInv
  <1>15. RestInv'
    <2>1. CASE Mine
      BY <2>1, <1>1, <1>2, <1>3, <1>4, <1>5, <1>7, VerdictFacts DEF ToolOpensCorrection,
         AwaitsCorrection, GoOn, Turns, Mine, Trusted, RestInv
    <2>2. CASE ~Mine
      BY <2>2, <1>1, <1>2, <1>3, <1>4, <1>5 DEF ToolOpensCorrection, Trusted
    <2> QED
      BY <2>1, <2>2
  <1>16. CostInv'
    BY DEF ToolOpensCorrection, Turns, IInv, CostInv
  <1> QED
    BY <1>8, <1>9, <1>11, <1>12, <1>13, <1>14, <1>15, <1>16 DEF IInv

LEMMA CorrectionReturnsInvariant ==
    ASSUME IInv, NEW s \in {"completed", "failed", "running", "awaiting_approval"}, CorrectionReturns(s)
    PROVE IInv'
  <1>1. cur \in Records /\ starter[cur] # Nobody /\ starter[cur] = owner /\ owner \in Owners
    BY DEF CorrectionReturns, IInv, TypeOK, HandlerInv
  <1>2. /\ run' \in [Records -> RunStatuses]
        /\ starter' = starter /\ traced' = traced /\ lastRun' = lastRun
    BY EndsFacts, <1>1 DEF CorrectionReturns, IInv, TypeOK, RunStatuses
  <1>3. /\ run'[cur] = s
        /\ \A q \in Records : q # cur => run'[q] = run[q]
    BY EndsFacts, <1>1 DEF CorrectionReturns, IInv, TypeOK, RunStatuses
  <1>4. slot' \in [Owners -> Slots]
    BY FreesFacts DEF CorrectionReturns, IInv, TypeOK, Slots, Owners
  <1>5. /\ slot'["session"] = NoPause
        /\ \A q \in Owners : q # "session" => slot'[q] = slot[q]
    BY FreesFacts DEF CorrectionReturns, IInv, TypeOK, Slots, Owners
  <1>6. ReviewTypeOK'
    BY DEF CorrectionReturns, review, IInv, TypeOK, ReviewTypeOK
  <1>7. TypeOK'
    BY <1>2, <1>4, <1>6, <1>1 DEF CorrectionReturns, review, Done, Turns, IInv, TypeOK,
       SessionStates, Ended, Places, Slots
  <1>8. CorrectionsBelongToTheSession'
    BY <1>1, <1>2, <1>3 DEF IInv, CorrectionsBelongToTheSession
  <1>9. /\ \A q \in Records : records[q].status \in {"unused", "pending"} =>
              records'[q] = records[q] /\ run'[q] = run[q]
        /\ \A q \in Records :
              records'[q] = records[q] \/ records'[q].status \notin {"unused", "pending"}
    BY <1>1, <1>3 DEF CorrectionReturns, review, IInv, ReviewInv
  <1>10. ReviewInv'
    BY <1>2, <1>9, KeptReview DEF CorrectionReturns, review, IInv
  <1>11. HandlerInv'
    BY <1>1, <1>2, <1>3, <1>5 DEF CorrectionReturns, Done, HandlerInv
  <1>12. SlotInv'
    <2>1. ASSUME NEW o \in Owners, o = "session", slot'[o] # NoPause PROVE Asked(o)'
      BY <2>1, <1>5
    <2>2. ASSUME NEW o \in Owners, o # "session", slot'[o] # NoPause PROVE Asked(o)'
      BY <2>2, <1>1, <1>2, <1>3, <1>5, VerdictFacts DEF CorrectionReturns, review, Mine,
         IInv, SlotInv, Asked, Slots, HandlerInv
    <2> QED
      BY <2>1, <2>2 DEF SlotInv
  <1>13. BusyInv'
    BY <1>1, <1>2, <1>3 DEF CorrectionReturns, Done, Nobody, Mine, BusyInv
  <1>14. RestInv'
    <2>1. CASE Mine
      BY <2>1, <1>1, <1>2, <1>3, <1>5, VerdictFacts DEF CorrectionReturns, Turns, Mine,
         IInv, RestInv, BusyInv
    <2>2. CASE ~Mine
      BY <2>2, <1>1, <1>2, <1>3, <1>5, VerdictFacts DEF CorrectionReturns, IInv, HandlerInv
    <2> QED
      BY <2>1, <2>2
  <1>15. CostInv'
    BY DEF CorrectionReturns, Turns, IInv, CostInv
  <1> QED
    BY <1>7, <1>8, <1>10, <1>11, <1>12, <1>13, <1>14, <1>15 DEF IInv

LEMMA CorrectionRaisesInvariant ==
    ASSUME IInv, NEW s \in {"completed", "failed", "running", "awaiting_approval"}, CorrectionRaises(s)
    PROVE IInv'
  <1>1. cur \in Records /\ starter[cur] # Nobody /\ starter[cur] = owner /\ owner \in Owners
    BY DEF CorrectionRaises, IInv, TypeOK, HandlerInv
  <1>2. /\ run' \in [Records -> RunStatuses]
        /\ starter' = starter /\ traced' = traced /\ lastRun' = lastRun
    BY EndsFacts, <1>1 DEF CorrectionRaises, IInv, TypeOK, RunStatuses
  <1>3. /\ run'[cur] = s
        /\ \A q \in Records : q # cur => run'[q] = run[q]
    BY EndsFacts, <1>1 DEF CorrectionRaises, IInv, TypeOK, RunStatuses
  <1>4. slot' \in [Owners -> Slots]
    BY FreesFacts DEF CorrectionRaises, IInv, TypeOK, Slots, Owners
  <1>5. /\ slot'["session"] = NoPause
        /\ \A q \in Owners : q # "session" => slot'[q] = slot[q]
    BY FreesFacts DEF CorrectionRaises, IInv, TypeOK, Slots, Owners
  <1>6. ReviewTypeOK'
    BY DEF CorrectionRaises, review, IInv, TypeOK, ReviewTypeOK
  <1>7. TypeOK'
    BY <1>2, <1>4, <1>6, <1>1 DEF CorrectionRaises, review, Done, Turns, IInv, TypeOK,
       SessionStates, Ended, Places, Slots
  <1>8. CorrectionsBelongToTheSession'
    BY <1>1, <1>2, <1>3 DEF IInv, CorrectionsBelongToTheSession
  <1>9. /\ \A q \in Records : records[q].status \in {"unused", "pending"} =>
              records'[q] = records[q] /\ run'[q] = run[q]
        /\ \A q \in Records :
              records'[q] = records[q] \/ records'[q].status \notin {"unused", "pending"}
    BY <1>1, <1>3 DEF CorrectionRaises, review, IInv, ReviewInv
  <1>10. ReviewInv'
    BY <1>2, <1>9, KeptReview DEF CorrectionRaises, review, IInv
  <1>11. HandlerInv'
    BY <1>1, <1>2, <1>3, <1>5 DEF CorrectionRaises, Done, HandlerInv
  <1>12. SlotInv'
    <2>1. ASSUME NEW o \in Owners, o = "session", slot'[o] # NoPause PROVE Asked(o)'
      BY <2>1, <1>5
    <2>2. ASSUME NEW o \in Owners, o # "session", slot'[o] # NoPause PROVE Asked(o)'
      BY <2>2, <1>1, <1>2, <1>3, <1>5, VerdictFacts DEF CorrectionRaises, review, Mine,
         IInv, SlotInv, Asked, Slots, HandlerInv
    <2> QED
      BY <2>1, <2>2 DEF SlotInv
  <1>13. BusyInv'
    BY <1>1, <1>2, <1>3 DEF CorrectionRaises, Done, Nobody, Mine, BusyInv
  <1>14. RestInv'
    <2>1. CASE Mine
      BY <2>1, <1>1, <1>2, <1>3, <1>5 DEF CorrectionRaises, Turns, RestInv
    <2>2. CASE ~Mine
      BY <2>2, <1>1, <1>2, <1>3, <1>5, VerdictFacts DEF CorrectionRaises, IInv, HandlerInv
    <2> QED
      BY <2>1, <2>2
  <1>15. CostInv'
    BY DEF CorrectionRaises, Turns, IInv, CostInv
  <1> QED
    BY <1>7, <1>8, <1>10, <1>11, <1>12, <1>13, <1>14, <1>15 DEF IInv

LEMMA CorrectionStaysRedInvariant ==
    ASSUME IInv, CorrectionStaysRed PROVE IInv'
  <1>1. cur \in Records /\ starter[cur] # Nobody /\ starter[cur] = owner /\ owner \in Owners
    BY DEF CorrectionStaysRed, IInv, TypeOK, HandlerInv
  <1>2. /\ run' \in [Records -> RunStatuses]
        /\ starter' = starter /\ traced' = traced /\ lastRun' = lastRun
    BY EndsFacts, <1>1 DEF CorrectionStaysRed, IInv, TypeOK, RunStatuses
  <1>3. /\ run'[cur] = "awaiting_correction"
        /\ \A q \in Records : q # cur => run'[q] = run[q]
    BY EndsFacts, <1>1 DEF CorrectionStaysRed, IInv, TypeOK, RunStatuses
  <1>4. slot' \in [Owners -> Slots]
    BY FreesFacts, <1>1 DEF CorrectionStaysRed, IInv, TypeOK, Slots, Owners
  <1>5. /\ slot'["session"] = NoPause
        /\ \A q \in Owners : q # "session" => slot'[q] = slot[q]
    BY FreesFacts, <1>1 DEF CorrectionStaysRed, IInv, TypeOK, Slots, Owners
  <1>6. ReviewTypeOK'
    BY DEF CorrectionStaysRed, review, IInv, TypeOK, ReviewTypeOK
  <1>7. TypeOK'
    BY <1>2, <1>4, <1>6, <1>1 DEF CorrectionStaysRed, review, AwaitsCorrection, Done,
       GoOn, Turns, IInv, TypeOK, SessionStates, Places, Slots
  <1>8. CorrectionsBelongToTheSession'
    BY <1>1, <1>2, <1>3, <1>5 DEF CorrectionStaysRed, Mine, IInv,
       CorrectionsBelongToTheSession, HandlerInv
  <1>9. /\ \A q \in Records : records[q].status \in {"unused", "pending"} =>
              records'[q] = records[q] /\ run'[q] = run[q]
        /\ \A q \in Records :
              records'[q] = records[q] \/ records'[q].status \notin {"unused", "pending"}
    BY <1>1, <1>3 DEF CorrectionStaysRed, review, IInv, ReviewInv
  <1>10. ReviewInv'
    BY <1>2, <1>9, KeptReview DEF CorrectionStaysRed, review, IInv
  <1>11. HandlerInv'
    BY <1>1, <1>2, <1>3, <1>5 DEF CorrectionStaysRed, review, AwaitsCorrection, Done,
       GoOn, Mine, IInv, HandlerInv
  <1>12. SlotInv'
    <2>1. ASSUME NEW o \in Owners, o = "session", slot'[o] # NoPause PROVE Asked(o)'
      BY <2>1, <1>5
    <2>2. ASSUME NEW o \in Owners, o # "session", slot'[o] # NoPause PROVE Asked(o)'
      BY <2>2, <1>1, <1>2, <1>3, <1>5, VerdictFacts DEF CorrectionStaysRed, review, Mine,
         IInv, SlotInv, Asked, Slots, HandlerInv
    <2> QED
      BY <2>1, <2>2 DEF SlotInv
  <1>13. BusyInv'
    BY <1>1, <1>2, <1>3, <1>5 DEF CorrectionStaysRed, AwaitsCorrection, Done, Nobody,
       GoOn, Turns, Mine, IInv, BusyInv
  <1>14. RestInv'
    <2>1. CASE Mine
      BY <2>1, <1>1, <1>2, <1>3, <1>5, VerdictFacts DEF CorrectionStaysRed, review,
         AwaitsCorrection, GoOn, Turns, Mine, IInv, RestInv, BusyInv
    <2>2. CASE ~Mine
      BY <2>2, <1>1, <1>2, <1>3, <1>5, VerdictFacts DEF CorrectionStaysRed, review, IInv,
         HandlerInv
    <2> QED
      BY <2>1, <2>2
  <1>15. CostInv'
    BY DEF CorrectionStaysRed, Turns, IInv, CostInv
  <1> QED
    BY <1>7, <1>8, <1>10, <1>11, <1>12, <1>13, <1>14, <1>15 DEF IInv

LEMMA DeclineToolInvariant ==
    ASSUME IInv, NEW o \in Owners, DeclineTool(o) PROVE IInv'
  <1>1. slot[o].run \in Records /\ starter[slot[o].run] # Nobody
    BY DEF DeclineTool, IInv, SlotInv, Asked, Decidable, Owners, Nobody
  <1>2. /\ run' \in [Records -> RunStatuses]
        /\ starter' = starter /\ traced' = traced /\ lastRun' = lastRun
    BY EndsFacts, <1>1 DEF DeclineTool, IInv, TypeOK, RunStatuses
  <1>3. /\ run'[slot[o].run] = "cancelled"
        /\ \A q \in Records : q # slot[o].run => run'[q] = run[q]
    BY EndsFacts, <1>1 DEF DeclineTool, IInv, TypeOK, RunStatuses
  <1>4. ReviewTypeOK' /\ pending' = pending /\ made' = made
    BY NoteDeclinedFacts, <1>1 DEF DeclineTool, IInv, TypeOK
  <1>5. /\ records'[slot[o].run].status \in {"completed", "failed", "cancelled"}
        /\ records'[slot[o].run].finished
        /\ \A q \in Records : q # slot[o].run => records'[q] = records[q]
    BY NoteDeclinedFacts, <1>1 DEF DeclineTool, IInv, TypeOK
  <1>6. slot' \in [Owners -> Slots]
    BY FreesFacts DEF DeclineTool, IInv, TypeOK, Slots
  <1>7. /\ slot'[o] = NoPause
        /\ \A q \in Owners : q # o => slot'[q] = slot[q]
    BY FreesFacts DEF DeclineTool, IInv, TypeOK, Slots
  <1>8. TypeOK'
    BY <1>2, <1>4, <1>6, <1>1 DEF DeclineTool, handler, IInv, TypeOK, SessionStates,
       Ended, Owners, Slots, RunStatuses
  <1>9. CorrectionsBelongToTheSession'
    BY <1>1, <1>2, <1>3 DEF IInv, CorrectionsBelongToTheSession
  <1>10. /\ \A q \in Records : records[q].status \in {"unused", "pending"} =>
               records'[q] = records[q] /\ run'[q] = run[q]
         /\ \A q \in Records :
               records'[q] = records[q] \/ records'[q].status \notin {"unused", "pending"}
    BY <1>1, <1>3, <1>5 DEF IInv, ReviewInv
  <1>11. ReviewInv'
    BY <1>2, <1>4, <1>10, KeptReview DEF IInv
  <1>12. HandlerInv'
    BY <1>1, <1>2, <1>3 DEF DeclineTool, handler, Decidable, Idle, IInv, HandlerInv
  <1>13. SlotInv'
    <2>1. ASSUME NEW q \in Owners, q = o, slot'[q] # NoPause PROVE Asked(q)'
      BY <2>1, <1>7
    <2>2. ASSUME NEW q \in Owners, q # o, slot'[q] # NoPause PROVE Asked(q)'
      BY <2>2, <1>1, <1>2, <1>3, <1>4, <1>5, <1>7 DEF DeclineTool, handler, Decidable,
         IInv, SlotInv, Asked
    <2> QED
      BY <2>1, <2>2 DEF SlotInv
  <1>14. BusyInv'
    BY <1>1, <1>2, <1>3, <1>4, <1>5, <1>7 DEF DeclineTool, handler, Decidable, Idle,
       Nobody, BusyInv, Mine
  <1>15. RestInv'
    BY <1>1, <1>2, <1>3, <1>4, <1>5, <1>7, VerdictFacts DEF DeclineTool, handler,
       Decidable, IInv, TypeOK, RestInv, SlotInv, Asked, Owners, Mine
  <1>16. CostInv'
    BY DEF DeclineTool, IInv, CostInv
  <1> QED
    BY <1>8, <1>9, <1>11, <1>12, <1>13, <1>14, <1>15, <1>16 DEF IInv

LEMMA DeclineLateInvariant ==
    ASSUME IInv, DeclineLate PROVE IInv'
  <1>1. slot' \in [Owners -> Slots]
    BY FreesFacts DEF DeclineLate, IInv, TypeOK, Slots, Owners
  <1>2. /\ slot'["conversation"] = NoPause
        /\ \A q \in Owners : q # "conversation" => slot'[q] = slot[q]
    BY FreesFacts DEF DeclineLate, IInv, TypeOK, Slots, Owners
  <1>3. ReviewTypeOK'
    BY DEF DeclineLate, review, IInv, TypeOK, ReviewTypeOK
  <1>4. TypeOK'
    BY <1>1, <1>3 DEF DeclineLate, handler, engine, session, IInv, TypeOK, Slots
  <1>5. CorrectionsBelongToTheSession'
    BY DEF DeclineLate, engine, IInv, CorrectionsBelongToTheSession
  <1>6. ReviewInv'
    BY DEF DeclineLate, engine, review, IInv, ReviewInv
  <1>7. HandlerInv'
    BY DEF DeclineLate, handler, engine, review, IInv, HandlerInv, Mine, Noteworthy
  <1>8. SlotInv'
    <2>1. ASSUME NEW o \in Owners, o = "conversation", slot'[o] # NoPause PROVE Asked(o)'
      BY <2>1, <1>2
    <2>2. ASSUME NEW o \in Owners, o # "conversation", slot'[o] # NoPause PROVE Asked(o)'
      BY <2>2, <1>2 DEF DeclineLate, handler, engine, review, IInv, SlotInv, Asked
    <2> QED
      BY <2>1, <2>2 DEF SlotInv
  <1>9. BusyInv'
    BY <1>2 DEF DeclineLate, handler, engine, session, IInv, BusyInv, Owners, Mine
  <1>10. RestInv'
    BY <1>2, VerdictFacts DEF DeclineLate, handler, engine, session, IInv, RestInv,
       Owners, Mine
  <1>11. CostInv'
    BY DEF DeclineLate, session, IInv, CostInv
  <1> QED
    BY <1>4, <1>5, <1>6, <1>7, <1>8, <1>9, <1>10, <1>11 DEF IInv

LEMMA CancelCorrectionInvariant ==
    ASSUME IInv, CancelCorrection PROVE IInv'
  <1>1. mine \in Records /\ starter[mine] # Nobody /\ starter[mine] = "session"
    BY DEF CancelCorrection, IInv, SlotInv, Asked, RestInv, Decidable, DecidesCorrection,
       Idle, Mine, Owners, Nobody
  <1>2. /\ run' \in [Records -> RunStatuses]
        /\ starter' = starter /\ traced' = traced /\ lastRun' = lastRun
    BY EndsFacts, <1>1 DEF CancelCorrection, IInv, TypeOK, RunStatuses
  <1>3. /\ run'[mine] = "cancelled"
        /\ \A q \in Records : q # mine => run'[q] = run[q]
    BY EndsFacts, <1>1 DEF CancelCorrection, IInv, TypeOK, RunStatuses
  <1>4. slot' \in [Owners -> Slots]
    BY FreesFacts, <1>1 DEF CancelCorrection, IInv, TypeOK, Slots
  <1>5. /\ slot'["session"] = NoPause
        /\ \A q \in Owners : q # "session" => slot'[q] = slot[q]
    BY FreesFacts, <1>1 DEF CancelCorrection, IInv, TypeOK, Slots
  <1>6. ReviewTypeOK'
    BY DEF CancelCorrection, review, IInv, TypeOK, ReviewTypeOK
  <1>7. TypeOK'
    BY <1>2, <1>4, <1>6, <1>1 DEF CancelCorrection, handler, review, IInv, TypeOK,
       SessionStates, Ended, Slots
  <1>8. CorrectionsBelongToTheSession'
    BY <1>1, <1>2, <1>3 DEF IInv, CorrectionsBelongToTheSession
  <1>9. /\ \A q \in Records : records[q].status \in {"unused", "pending"} =>
              records'[q] = records[q] /\ run'[q] = run[q]
        /\ \A q \in Records :
              records'[q] = records[q] \/ records'[q].status \notin {"unused", "pending"}
    BY <1>1, <1>3 DEF CancelCorrection, review, IInv, ReviewInv
  <1>10. ReviewInv'
    BY <1>2, <1>9, KeptReview DEF CancelCorrection, review, IInv
  <1>11. HandlerInv'
    BY <1>1, <1>2, <1>3 DEF CancelCorrection, handler, DecidesCorrection, Decidable, Idle,
       IInv, HandlerInv
  <1>12. SlotInv'
    <2>1. ASSUME NEW o \in Owners, o = "session", slot'[o] # NoPause PROVE Asked(o)'
      BY <2>1, <1>5
    <2>2. ASSUME NEW o \in Owners, o # "session", slot'[o] # NoPause PROVE Asked(o)'
      BY <2>2, <1>1, <1>2, <1>3, <1>5, VerdictFacts DEF CancelCorrection, handler, review,
         IInv, SlotInv, Asked, HandlerInv
    <2> QED
      BY <2>1, <2>2 DEF SlotInv
  <1>13. BusyInv'
    BY <1>1, <1>2, <1>3, <1>5 DEF CancelCorrection, handler, review, DecidesCorrection,
       Decidable, Idle, BusyInv, Mine
  <1>14. RestInv'
    BY <1>1, <1>2, <1>3, <1>5, VerdictFacts DEF CancelCorrection, RestInv
  <1>15. CostInv'
    BY DEF CancelCorrection, IInv, CostInv
  <1> QED
    BY <1>7, <1>8, <1>10, <1>11, <1>12, <1>13, <1>14, <1>15 DEF IInv

LEMMA RejectCorrectionInvariant ==
    ASSUME IInv, RejectCorrection PROVE IInv'
  <1>1. mine \in Records /\ starter[mine] # Nobody /\ starter[mine] = "session"
    BY DEF RejectCorrection, IInv, SlotInv, Asked, RestInv, Decidable, DecidesCorrection,
       Idle, Mine, Owners, Nobody
  <1>2. /\ run' \in [Records -> RunStatuses]
        /\ starter' = starter /\ traced' = traced /\ lastRun' = lastRun
    BY EndsFacts, <1>1 DEF RejectCorrection, IInv, TypeOK, RunStatuses
  <1>3. /\ run'[mine] = "awaiting_correction"
        /\ \A q \in Records : q # mine => run'[q] = run[q]
    BY EndsFacts, <1>1 DEF RejectCorrection, IInv, TypeOK, RunStatuses
  <1>4. slot' \in [Owners -> Slots]
    BY FreesFacts, <1>1 DEF RejectCorrection, IInv, TypeOK, Slots
  <1>5. /\ slot'["session"] = NoPause
        /\ \A q \in Owners : q # "session" => slot'[q] = slot[q]
    BY FreesFacts, <1>1 DEF RejectCorrection, IInv, TypeOK, Slots
  <1>6. ReviewTypeOK'
    BY DEF RejectCorrection, review, IInv, TypeOK, ReviewTypeOK
  <1>7. TypeOK'
    <2>1. rejected' \in Nat /\ state' \in SessionStates
      BY DEF RejectCorrection, IInv, TypeOK, SessionStates
    <2>2. owner' \in Owners \cup {Nobody} /\ at' \in Places /\ cur' \in Records \cup {None}
      BY <1>1 DEF RejectCorrection, handler, IInv, TypeOK, Places
    <2> QED
      BY <1>2, <1>4, <1>6, <2>1, <2>2 DEF RejectCorrection, IInv, TypeOK, Slots
  <1>8. CorrectionsBelongToTheSession'
    <2>1. CASE bound
      BY <2>1, <1>1, <1>2, <1>3 DEF IInv, CorrectionsBelongToTheSession
    <2>2. CASE ~bound
      BY <2>2, <1>1, <1>2, <1>3 DEF IInv, CorrectionsBelongToTheSession
    <2> QED
      BY <2>1, <2>2
  <1>9. /\ \A q \in Records : records[q].status \in {"unused", "pending"} =>
              records'[q] = records[q] /\ run'[q] = run[q]
        /\ \A q \in Records :
              records'[q] = records[q] \/ records'[q].status \notin {"unused", "pending"}
    BY <1>1, <1>3 DEF RejectCorrection, review, IInv, ReviewInv
  <1>10. ReviewInv'
    BY <1>2, <1>9, KeptReview DEF RejectCorrection, review, IInv
  <1>11. HandlerInv'
    <2>1. CASE bound
      BY <2>1, <1>1, <1>2, <1>3, <1>5 DEF RejectCorrection, review, HandlerInv, Mine
    <2>2. CASE ~bound
      BY <2>2, <1>1, <1>2, <1>3, <1>5 DEF RejectCorrection, handler, DecidesCorrection,
         Decidable, Idle, IInv, HandlerInv
    <2> QED
      BY <2>1, <2>2
  <1>12. SlotInv'
    <2>1. ASSUME NEW o \in Owners, o = "session", slot'[o] # NoPause PROVE Asked(o)'
      BY <2>1, <1>5
    <2>2. ASSUME NEW o \in Owners, o # "session", slot'[o] # NoPause PROVE Asked(o)'
      BY <2>2, <1>1, <1>2, <1>3, <1>5, VerdictFacts DEF RejectCorrection, review,
         DecidesCorrection, Decidable, Idle, IInv, SlotInv, Asked, HandlerInv
    <2> QED
      BY <2>1, <2>2 DEF SlotInv
  <1>13. BusyInv'
    <2>1. CASE bound
      BY <2>1, <1>1, <1>2, <1>3, <1>5 DEF RejectCorrection, BusyInv
    <2>2. CASE ~bound
      BY <2>2, <1>1, <1>2, <1>3, <1>5 DEF RejectCorrection, review, handler,
         DecidesCorrection, Decidable, Idle, BusyInv, Mine
    <2> QED
      BY <2>1, <2>2
  <1>14. RestInv'
    <2>1. CASE bound
      BY <2>1, <1>1, <1>2, <1>3, <1>5, VerdictFacts DEF RejectCorrection, review, handler,
         DecidesCorrection, Decidable, RestInv, Mine
    <2>2. CASE ~bound
      BY <2>2, <1>1, <1>2, <1>3, <1>5, VerdictFacts DEF RejectCorrection, review,
         DecidesCorrection, Decidable, IInv, RestInv, BusyInv
    <2> QED
      BY <2>1, <2>2
  <1>15. CostInv'
    BY DEF RejectCorrection, IInv, CostInv
  <1> QED
    BY <1>7, <1>8, <1>10, <1>11, <1>12, <1>13, <1>14, <1>15 DEF IInv

LEMMA DeclineStaleInvariant ==
    ASSUME IInv, DeclineStale PROVE IInv'
  <1>1. slot' \in [Owners -> Slots]
    BY FreesFacts DEF DeclineStale, IInv, TypeOK, Slots, Owners
  <1>2. /\ slot'["session"] = NoPause
        /\ \A q \in Owners : q # "session" => slot'[q] = slot[q]
    BY FreesFacts DEF DeclineStale, IInv, TypeOK, Slots, Owners
  <1>3. ReviewTypeOK'
    BY DEF DeclineStale, review, IInv, TypeOK, ReviewTypeOK
  <1>4. TypeOK'
    BY <1>1, <1>3 DEF DeclineStale, handler, engine, IInv, TypeOK, SessionStates, Ended,
       Slots
  <1>5. CorrectionsBelongToTheSession'
    BY <1>2 DEF DeclineStale, engine, IInv, CorrectionsBelongToTheSession
  <1>6. ReviewInv'
    BY <1>2 DEF DeclineStale, engine, review, IInv, ReviewInv
  <1>7. HandlerInv'
    BY <1>2 DEF DeclineStale, handler, DecidesCorrection, Decidable, Idle, IInv, HandlerInv
  <1>8. SlotInv'
    <2>1. ASSUME NEW o \in Owners, o = "session", slot'[o] # NoPause PROVE Asked(o)'
      BY <2>1, <1>2
    <2>2. ASSUME NEW o \in Owners, o # "session", slot'[o] # NoPause PROVE Asked(o)'
      BY <2>2, <1>2, VerdictFacts DEF DeclineStale, handler, engine, review, IInv,
         SlotInv, Asked, Slots, HandlerInv
    <2> QED
      BY <2>1, <2>2 DEF SlotInv
  <1>9. BusyInv'
    BY <1>2 DEF DeclineStale, handler, engine, review, DecidesCorrection, Decidable, Idle,
       Nobody, BusyInv, Mine
  <1>10. RestInv'
    BY <1>2, VerdictFacts DEF DeclineStale, RestInv
  <1>11. CostInv'
    BY DEF DeclineStale, IInv, CostInv
  <1> QED
    BY <1>4, <1>5, <1>6, <1>7, <1>8, <1>9, <1>10, <1>11 DEF IInv

LEMMA FilesChangeInvariant ==
    ASSUME IInv, FilesChange PROVE IInv'
  <1>1. ReviewTypeOK'
    BY DEF FilesChange, review, IInv, TypeOK, ReviewTypeOK
  <1>2. TypeOK'
    BY <1>1 DEF FilesChange, handler, engine, session, IInv, TypeOK
  <1>3. CorrectionsBelongToTheSession'
    BY DEF FilesChange, engine, IInv, CorrectionsBelongToTheSession
  <1>4. ReviewInv'
    BY DEF FilesChange, engine, review, IInv, ReviewInv
  <1>5. HandlerInv'
    BY DEF FilesChange, handler, engine, review, IInv, HandlerInv, Mine, Noteworthy
  <1>6. SlotInv'
    <2> SUFFICES ASSUME NEW o \in Owners, slot'[o] # NoPause PROVE Asked(o)'
      BY DEF SlotInv
    <2> QED
      BY DEF FilesChange, handler, engine, review, IInv, SlotInv, Asked
  <1>7. BusyInv'
    BY DEF FilesChange, handler, engine, session, IInv, BusyInv, Mine
  <1>8. RestInv'
    BY VerdictFacts DEF FilesChange, handler, engine, session, IInv, RestInv, Mine
  <1>9. CostInv'
    BY DEF FilesChange, session, IInv, CostInv
  <1> QED
    BY <1>2, <1>3, <1>4, <1>5, <1>6, <1>7, <1>8, <1>9 DEF IInv

LEMMA SubmitCorrectionInvariant ==
    ASSUME IInv, SubmitCorrection PROVE IInv'
  <1>1. ReviewTypeOK'
    BY DEF SubmitCorrection, review, IInv, TypeOK, ReviewTypeOK
  <1>2. TypeOK'
    BY <1>1 DEF SubmitCorrection, engine, IInv, TypeOK, SessionStates, Places, Owners
  <1>3. CorrectionsBelongToTheSession'
    BY DEF SubmitCorrection, engine, IInv, CorrectionsBelongToTheSession
  <1>4. ReviewInv'
    BY DEF SubmitCorrection, engine, review, IInv, ReviewInv
  <1>5. HandlerInv'
    BY DEF SubmitCorrection, engine, Idle, Nobody, IInv, HandlerInv, Mine, RestInv
  <1>6. SlotInv'
    <2> SUFFICES ASSUME NEW o \in Owners, slot'[o] # NoPause PROVE Asked(o)'
      BY DEF SlotInv
    <2> QED
      BY DEF SubmitCorrection, engine, review, Idle, IInv, SlotInv, Asked, Slots, HandlerInv
  <1>7. BusyInv'
    BY DEF SubmitCorrection, Idle, IInv, TypeOK, BusyInv, HandlerInv, RestInv
  <1>8. RestInv'
    BY VerdictFacts DEF SubmitCorrection, engine, review, RestInv, Mine
  <1>9. CostInv'
    BY DEF SubmitCorrection, IInv, CostInv
  <1> QED
    BY <1>2, <1>3, <1>4, <1>5, <1>6, <1>7, <1>8, <1>9 DEF IInv

LEMMA GiveUpInvariant ==
    ASSUME IInv, GiveUp PROVE IInv'
  <1>1. ReviewTypeOK'
    BY DEF GiveUp, review, IInv, TypeOK, ReviewTypeOK
  <1>2. TypeOK'
    BY <1>1 DEF GiveUp, engine, session, GoOn, IInv, TypeOK, Places
  <1>3. CorrectionsBelongToTheSession'
    BY DEF GiveUp, engine, IInv, CorrectionsBelongToTheSession
  <1>4. ReviewInv'
    BY DEF GiveUp, engine, review, IInv, ReviewInv
  <1>5. HandlerInv'
    BY DEF GiveUp, engine, GoOn, IInv, HandlerInv, Mine
  <1>6. SlotInv'
    <2> SUFFICES ASSUME NEW o \in Owners, slot'[o] # NoPause PROVE Asked(o)'
      BY DEF SlotInv
    <2> QED
      BY VerdictFacts DEF GiveUp, engine, review, IInv, SlotInv, Asked
  <1>7. BusyInv'
    BY DEF GiveUp, session, GoOn, IInv, BusyInv, HandlerInv
  <1>8. RestInv'
    BY VerdictFacts DEF GiveUp, engine, session, review, GoOn, IInv, RestInv, Mine
  <1>9. CostInv'
    BY DEF GiveUp, session, IInv, CostInv
  <1> QED
    BY <1>2, <1>3, <1>4, <1>5, <1>6, <1>7, <1>8, <1>9 DEF IInv

LEMMA DraftInvalidInvariant ==
    ASSUME IInv, DraftInvalid PROVE IInv'
  <1>1. ReviewTypeOK'
    BY DEF DraftInvalid, review, IInv, TypeOK, ReviewTypeOK
  <1>2. TypeOK'
    BY <1>1 DEF DraftInvalid, handler, engine, AskModel, IInv, TypeOK
  <1>3. CorrectionsBelongToTheSession'
    BY DEF DraftInvalid, engine, IInv, CorrectionsBelongToTheSession
  <1>4. ReviewInv'
    BY DEF DraftInvalid, engine, review, IInv, ReviewInv
  <1>5. HandlerInv'
    BY DEF DraftInvalid, handler, engine, AskModel, IInv, HandlerInv, Mine
  <1>6. SlotInv'
    <2> SUFFICES ASSUME NEW o \in Owners, slot'[o] # NoPause PROVE Asked(o)'
      BY DEF SlotInv
    <2> QED
      BY VerdictFacts DEF DraftInvalid, handler, engine, review, IInv, SlotInv, Asked
  <1>7. BusyInv'
    BY DEF DraftInvalid, handler, AskModel, IInv, BusyInv, HandlerInv
  <1>8. RestInv'
    BY VerdictFacts DEF DraftInvalid, handler, engine, review, AskModel, IInv, RestInv, Mine
  <1>9. CostInv'
    BY PolicyAssumption DEF DraftInvalid, AskModel, Exhausted, IInv, CostInv, TypeOK
  <1> QED
    BY <1>2, <1>3, <1>4, <1>5, <1>6, <1>7, <1>8, <1>9 DEF IInv

LEMMA DraftBreaksInvariant ==
    ASSUME IInv, DraftBreaks PROVE IInv'
  <1>1. ReviewTypeOK'
    BY DEF DraftBreaks, review, IInv, TypeOK, ReviewTypeOK
  <1>2. TypeOK'
    BY <1>1 DEF DraftBreaks, engine, Done, AskModel, IInv, TypeOK, SessionStates, Ended,
       Places
  <1>3. CorrectionsBelongToTheSession'
    BY DEF DraftBreaks, engine, IInv, CorrectionsBelongToTheSession
  <1>4. ReviewInv'
    BY DEF DraftBreaks, engine, review, IInv, ReviewInv
  <1>5. HandlerInv'
    BY DEF DraftBreaks, Done, HandlerInv
  <1>6. SlotInv'
    <2> SUFFICES ASSUME NEW o \in Owners, slot'[o] # NoPause PROVE Asked(o)'
      BY DEF SlotInv
    <2> QED
      BY VerdictFacts DEF DraftBreaks, engine, review, AskModel, IInv, SlotInv, Asked
  <1>7. BusyInv'
    BY DEF DraftBreaks, engine, review, Done, Nobody, BusyInv, Mine
  <1>8. RestInv'
    BY VerdictFacts DEF DraftBreaks, AskModel, IInv, RestInv, HandlerInv, BusyInv
  <1>9. CostInv'
    BY PolicyAssumption DEF DraftBreaks, AskModel, Exhausted, IInv, CostInv, TypeOK
  <1> QED
    BY <1>2, <1>3, <1>4, <1>5, <1>6, <1>7, <1>8, <1>9 DEF IInv

LEMMA DraftAcceptedInvariant ==
    ASSUME IInv, DraftAccepted PROVE IInv'
  <1>1. ReviewTypeOK'
    BY DEF DraftAccepted, review, IInv, TypeOK, ReviewTypeOK
  <1>2. TypeOK'
    BY <1>1 DEF DraftAccepted, engine, GoOn, AskModel, IInv, TypeOK, SessionStates, Places
  <1>3. CorrectionsBelongToTheSession'
    BY DEF DraftAccepted, engine, IInv, CorrectionsBelongToTheSession
  <1>4. ReviewInv'
    BY DEF DraftAccepted, engine, review, IInv, ReviewInv
  <1>5. HandlerInv'
    BY DEF DraftAccepted, engine, GoOn, AskModel, IInv, HandlerInv, Mine
  <1>6. SlotInv'
    <2> SUFFICES ASSUME NEW o \in Owners, slot'[o] # NoPause PROVE Asked(o)'
      BY DEF SlotInv
    <2> QED
      BY VerdictFacts DEF DraftAccepted, engine, review, AskModel, IInv, SlotInv, Asked
  <1>7. BusyInv'
    BY DEF DraftAccepted, GoOn, AskModel, IInv, BusyInv, HandlerInv
  <1>8. RestInv'
    BY VerdictFacts DEF DraftAccepted, engine, review, GoOn, AskModel, IInv, RestInv,
       HandlerInv, Mine
  <1>9. CostInv'
    BY PolicyAssumption DEF DraftAccepted, AskModel, Exhausted, IInv, CostInv, TypeOK
  <1> QED
    BY <1>2, <1>3, <1>4, <1>5, <1>6, <1>7, <1>8, <1>9 DEF IInv

LEMMA SubmitPausesInvariant ==
    ASSUME IInv, SubmitPauses PROVE IInv'
  <1>1. cur \in Records /\ starter[cur] # Nobody /\ starter[cur] = owner /\ owner \in Owners
    BY DEF SubmitPauses, IInv, TypeOK, HandlerInv
  <1>2. /\ run' \in [Records -> RunStatuses]
        /\ starter' = starter /\ traced' = traced /\ lastRun' = lastRun
    BY EndsFacts, <1>1 DEF SubmitPauses, IInv, TypeOK, RunStatuses
  <1>3. /\ run'[cur] = "awaiting_approval"
        /\ \A q \in Records : q # cur => run'[q] = run[q]
    BY EndsFacts, <1>1 DEF SubmitPauses, IInv, TypeOK, RunStatuses
  <1>4. slot' \in [Owners -> Slots]
    BY HoldsFacts, <1>1 DEF SubmitPauses, IInv, TypeOK, Slots, Owners
  <1>5. /\ slot'["session"].run = cur /\ slot'["session"].kind = "correction"
        /\ ~slot'["session"].claimed
        /\ slot'["session"] # NoPause
        /\ \A q \in Owners : q # "session" => slot'[q] = slot[q]
    BY HoldsFacts, <1>1 DEF SubmitPauses, IInv, TypeOK, Slots, Owners
  <1>6. ReviewTypeOK'
    BY DEF SubmitPauses, review, IInv, TypeOK, ReviewTypeOK
  <1>7. TypeOK'
    BY <1>2, <1>4, <1>6, <1>1 DEF SubmitPauses, review, Done, Turns, IInv, TypeOK,
       SessionStates, Places, Slots
  <1>8. CorrectionsBelongToTheSession'
    BY <1>1, <1>2, <1>3 DEF IInv, CorrectionsBelongToTheSession
  <1>9. /\ \A q \in Records : records[q].status \in {"unused", "pending"} =>
              records'[q] = records[q] /\ run'[q] = run[q]
        /\ \A q \in Records :
              records'[q] = records[q] \/ records'[q].status \notin {"unused", "pending"}
    BY <1>1, <1>3 DEF SubmitPauses, review, IInv, ReviewInv
  <1>10. ReviewInv'
    BY <1>2, <1>9, KeptReview DEF SubmitPauses, review, IInv
  <1>11. HandlerInv'
    BY <1>1, <1>2, <1>3, <1>5 DEF SubmitPauses, Done, HandlerInv
  <1>12. SlotInv'
    <2>1. ASSUME NEW o \in Owners, o = "session", slot'[o] # NoPause PROVE Asked(o)'
      BY <2>1, <1>1, <1>2, <1>3, <1>5, VerdictFacts DEF SubmitPauses, Mine, IInv, Asked,
         Slots, HandlerInv
    <2>2. ASSUME NEW o \in Owners, o # "session", slot'[o] # NoPause PROVE Asked(o)'
      BY <2>2, <1>1, <1>2, <1>3, <1>5, VerdictFacts DEF SubmitPauses, review, IInv,
         SlotInv, Asked
    <2> QED
      BY <2>1, <2>2 DEF SlotInv
  <1>13. BusyInv'
    BY <1>1, <1>2, <1>3 DEF SubmitPauses, Done, Nobody, Mine, BusyInv
  <1>14. RestInv'
    <2>1. CASE Mine
      BY <2>1, <1>1, <1>2, <1>3, <1>5, VerdictFacts DEF SubmitPauses, Turns, IInv, TypeOK,
         RestInv, BusyInv
    <2>2. CASE ~Mine
      BY <2>2, <1>1, <1>2, <1>3, <1>5, VerdictFacts DEF SubmitPauses, IInv, HandlerInv
    <2> QED
      BY <2>1, <2>2
  <1>15. CostInv'
    BY DEF SubmitPauses, Turns, IInv, CostInv
  <1> QED
    BY <1>7, <1>8, <1>10, <1>11, <1>12, <1>13, <1>14, <1>15 DEF IInv

LEMMA SubmitRefusedInvariant ==
    ASSUME IInv, SubmitRefused PROVE IInv'
  <1>1. cur \in Records /\ starter[cur] # Nobody /\ starter[cur] = owner /\ owner \in Owners
    BY DEF SubmitRefused, IInv, TypeOK, HandlerInv
  <1>2. /\ run' \in [Records -> RunStatuses]
        /\ starter' = starter /\ traced' = traced /\ lastRun' = lastRun
    BY EndsFacts, <1>1 DEF SubmitRefused, IInv, TypeOK, RunStatuses
  <1>3. /\ run'[cur] = "awaiting_correction"
        /\ \A q \in Records : q # cur => run'[q] = run[q]
    BY EndsFacts, <1>1 DEF SubmitRefused, IInv, TypeOK, RunStatuses
  <1>4. ReviewTypeOK'
    BY DEF SubmitRefused, review, IInv, TypeOK, ReviewTypeOK
  <1>5. TypeOK'
    BY <1>2, <1>4, <1>1 DEF SubmitRefused, AwaitsCorrection, Done, GoOn, Turns, IInv,
       TypeOK, SessionStates, Places
  <1>6. CorrectionsBelongToTheSession'
    BY <1>1, <1>2, <1>3 DEF SubmitRefused, IInv, CorrectionsBelongToTheSession, HandlerInv
  <1>7. /\ \A q \in Records : records[q].status \in {"unused", "pending"} =>
              records'[q] = records[q] /\ run'[q] = run[q]
        /\ \A q \in Records :
              records'[q] = records[q] \/ records'[q].status \notin {"unused", "pending"}
    BY <1>1, <1>3 DEF SubmitRefused, review, IInv, ReviewInv
  <1>8. ReviewInv'
    BY <1>2, <1>7, KeptReview DEF SubmitRefused, review, IInv
  <1>9. HandlerInv'
    BY <1>1, <1>2, <1>3 DEF SubmitRefused, review, AwaitsCorrection, Done, GoOn, Mine,
       IInv, HandlerInv
  <1>10. SlotInv'
    <2> SUFFICES ASSUME NEW o \in Owners, slot'[o] # NoPause PROVE Asked(o)'
      BY DEF SlotInv
    <2> QED
      BY <1>1, <1>2, <1>3, VerdictFacts DEF SubmitRefused, review, IInv, SlotInv, Asked,
         Slots, HandlerInv
  <1>11. BusyInv'
    BY <1>1, <1>2, <1>3 DEF SubmitRefused, AwaitsCorrection, Done, Nobody, GoOn, Turns,
       Mine, IInv, BusyInv
  <1>12. RestInv'
    <2>1. CASE Mine
      BY <2>1, <1>1, <1>2, <1>3, VerdictFacts DEF SubmitRefused, review, AwaitsCorrection,
         GoOn, Turns, Mine, IInv, RestInv, BusyInv
    <2>2. CASE ~Mine
      BY <2>2, <1>1, <1>2, <1>3, VerdictFacts DEF SubmitRefused, Turns, Mine, IInv,
         TypeOK, RestInv
    <2> QED
      BY <2>1, <2>2
  <1>13. CostInv'
    BY DEF SubmitRefused, Turns, IInv, CostInv
  <1> QED
    BY <1>5, <1>6, <1>8, <1>9, <1>10, <1>11, <1>12, <1>13 DEF IInv

LEMMA SubmitRaisesInvariant ==
    ASSUME IInv, SubmitRaises PROVE IInv'
  <1>1. cur \in Records /\ starter[cur] # Nobody /\ starter[cur] = owner /\ owner \in Owners
    BY DEF SubmitRaises, IInv, TypeOK, HandlerInv
  <1>2. /\ run' \in [Records -> RunStatuses]
        /\ starter' = starter /\ traced' = traced /\ lastRun' = lastRun
    BY EndsFacts, <1>1 DEF SubmitRaises, IInv, TypeOK, RunStatuses
  <1>3. /\ run'[cur] = "failed"
        /\ \A q \in Records : q # cur => run'[q] = run[q]
    BY EndsFacts, <1>1 DEF SubmitRaises, IInv, TypeOK, RunStatuses
  <1>4. ReviewTypeOK'
    BY DEF SubmitRaises, review, IInv, TypeOK, ReviewTypeOK
  <1>5. TypeOK'
    BY <1>2, <1>4 DEF SubmitRaises, Done, Turns, IInv, TypeOK, SessionStates, Ended, Places
  <1>6. CorrectionsBelongToTheSession'
    BY <1>1, <1>2, <1>3 DEF IInv, CorrectionsBelongToTheSession
  <1>7. /\ \A q \in Records : records[q].status \in {"unused", "pending"} =>
              records'[q] = records[q] /\ run'[q] = run[q]
        /\ \A q \in Records :
              records'[q] = records[q] \/ records'[q].status \notin {"unused", "pending"}
    BY <1>1, <1>3 DEF SubmitRaises, review, IInv, ReviewInv
  <1>8. ReviewInv'
    BY <1>2, <1>7, KeptReview DEF SubmitRaises, review, IInv
  <1>9. HandlerInv'
    BY <1>1 DEF SubmitRaises, Done, HandlerInv
  <1>10. SlotInv'
    <2> SUFFICES ASSUME NEW o \in Owners, slot'[o] # NoPause PROVE Asked(o)'
      BY DEF SlotInv
    <2> QED
      BY <1>1, <1>2, <1>3, VerdictFacts DEF SubmitRaises, review, IInv, SlotInv, Asked,
         Slots, HandlerInv
  <1>11. BusyInv'
    BY <1>1, <1>2 DEF SubmitRaises, Done, Nobody, Mine, BusyInv
  <1>12. RestInv'
    <2>1. CASE Mine
      BY <2>1, <1>1, <1>2, <1>3, VerdictFacts DEF SubmitRaises, Turns, IInv, RestInv,
         BusyInv
    <2>2. CASE ~Mine
      BY <2>2, <1>1, <1>2, <1>3 DEF SubmitRaises, Turns, Mine, IInv, TypeOK, RestInv
    <2> QED
      BY <2>1, <2>2
  <1>13. CostInv'
    BY DEF SubmitRaises, Turns, IInv, CostInv
  <1> QED
    BY <1>5, <1>6, <1>8, <1>9, <1>10, <1>11, <1>12, <1>13 DEF IInv

LEMMA AbortInvariant ==
    ASSUME IInv, NEW s \in {"completed", "failed", "running", "awaiting_approval"}, Abort(s)
    PROVE IInv'
  <1>1. cur \in Records /\ starter[cur] # Nobody /\ starter[cur] = owner /\ owner \in Owners
    BY DEF Abort, IInv, TypeOK, HandlerInv
  <1>2. /\ run' \in [Records -> RunStatuses]
        /\ starter' = starter /\ traced' = traced /\ lastRun' = lastRun
    BY EndsFacts, <1>1 DEF Abort, IInv, TypeOK, RunStatuses
  <1>3. /\ run'[cur] = s
        /\ \A q \in Records : q # cur => run'[q] = run[q]
    BY EndsFacts, <1>1 DEF Abort, IInv, TypeOK, RunStatuses
  <1>4. ReviewTypeOK'
    BY DEF Abort, review, IInv, TypeOK, ReviewTypeOK
  <1>5. TypeOK'
    BY <1>2, <1>4 DEF Abort, Done, Turns, IInv, TypeOK, SessionStates, Ended, Places
  <1>6. CorrectionsBelongToTheSession'
    BY <1>1, <1>2, <1>3 DEF IInv, CorrectionsBelongToTheSession
  <1>7. /\ \A q \in Records : records[q].status \in {"unused", "pending"} =>
              records'[q] = records[q] /\ run'[q] = run[q]
        /\ \A q \in Records :
              records'[q] = records[q] \/ records'[q].status \notin {"unused", "pending"}
    BY <1>1, <1>3 DEF Abort, review, IInv, ReviewInv
  <1>8. ReviewInv'
    BY <1>2, <1>7, KeptReview DEF Abort, review, IInv
  <1>9. HandlerInv'
    BY <1>1 DEF Abort, Done, HandlerInv
  <1>10. SlotInv'
    <2> SUFFICES ASSUME NEW o \in Owners, slot'[o] # NoPause PROVE Asked(o)'
      BY DEF SlotInv
    <2> QED
      BY <1>1, <1>2, <1>3, VerdictFacts DEF Abort, review, IInv, SlotInv, Asked, Slots,
         HandlerInv
  <1>11. BusyInv'
    BY <1>1, <1>2 DEF Abort, Done, Nobody, Mine, BusyInv
  <1>12. RestInv'
    <2>1. CASE Mine
      BY <2>1, <1>1, <1>2, <1>3, VerdictFacts DEF Abort, Turns, Mine, IInv, RestInv, BusyInv
    <2>2. CASE ~Mine
      BY <2>2, <1>1, <1>2, <1>3 DEF Abort, Turns, Mine, IInv, TypeOK, RestInv
    <2> QED
      BY <2>1, <2>2
  <1>13. CostInv'
    BY DEF Abort, Turns, IInv, CostInv
  <1> QED
    BY <1>5, <1>6, <1>8, <1>9, <1>10, <1>11, <1>12, <1>13 DEF IInv

-----------------------------------------------------------------------------
(* The invariant.                                                          *)

LEMMA InitInvariant ==
    ASSUME Init PROVE IInv
  <1> USE DEF Init, ReviewInit
  <1>1. ReviewTypeOK
    <2>1. Unused \in [plan: Plans \cup {NoPlan}, status: RecordStatuses,
                      sees: Records \cup {None}, finished: BOOLEAN]
      BY DEF Unused, RecordStatuses
    <2> QED
      BY <2>1 DEF ReviewTypeOK
  <1>2. slot \in [Owners -> Slots] /\ \A o \in Owners : slot[o] = NoPause
    BY DEF Slots, NoPause, Asks
  <1>3. TypeOK
    BY <1>1, <1>2 DEF TypeOK, Slots, SessionStates, RunStatuses, Owners, Nobody, Places
  <1>4. CorrectionsBelongToTheSession
    BY DEF CorrectionsBelongToTheSession
  <1>5. ReviewInv
    BY DEF ReviewInv, Unused
  <1>6. HandlerInv
    BY DEF HandlerInv
  <1>7. SlotInv
    BY <1>2 DEF SlotInv
  <1>8. BusyInv /\ RestInv
    BY <1>2 DEF BusyInv, RestInv, Mine, Nobody, Owners
  <1>9. CostInv
    BY PolicyAssumption DEF CostInv
  <1> QED
    BY <1>3, <1>4, <1>5, <1>6, <1>7, <1>8, <1>9 DEF IInv

LEMMA WorkInvariant ==
    ASSUME IInv, Work PROVE IInv'
  <1> QED
    BY ClaimInvariant, ClaimFailsInvariant, StartRunInvariant, StartFailsInvariant,
       RunPausesInvariant, ToolPausesInvariant, ToolOpensCorrectionInvariant,
       CorrectionStaysRedInvariant, GiveUpInvariant, DraftInvalidInvariant,
       DraftBreaksInvariant, DraftAcceptedInvariant, SubmitPausesInvariant,
       SubmitRefusedInvariant, SubmitRaisesInvariant, RunEndsInvariant,
       ToolReturnsInvariant, ToolRaisesInvariant, CorrectionReturnsInvariant,
       CorrectionRaisesInvariant, AbortInvariant DEF Work

LEMMA UserInvariant ==
    ASSUME IInv, User PROVE IInv'
  <1> QED
    BY SubmitInvariant, PlanningFailsInvariant, CloseInvariant, DropPlanInvariant,
       ApprovePlanInvariant, PlanWithModelInvariant, DropModelPlanInvariant,
       ApproveModelPlanInvariant, RevalidationFailsInvariant, ApproveInvariant,
       InvalidateStaleInvariant, DeclineToolInvariant, DeclineLateInvariant,
       CancelCorrectionInvariant, RejectCorrectionInvariant, DeclineStaleInvariant,
       FilesChangeInvariant, SubmitCorrectionInvariant DEF User

LEMMA StutterInvariant ==
    ASSUME IInv, UNCHANGED vars PROVE IInv'
  <1> USE DEF vars, review, session, engine, handler
  <1>1. TypeOK' /\ CorrectionsBelongToTheSession'
    BY DEF IInv, TypeOK, ReviewTypeOK, CorrectionsBelongToTheSession
  <1>2. ReviewInv' /\ CostInv'
    BY DEF IInv, ReviewInv, CostInv
  <1>3. HandlerInv' /\ BusyInv'
    BY DEF IInv, HandlerInv, BusyInv, Noteworthy, Mine
  <1>4. SlotInv' /\ RestInv'
    BY DEF IInv, SlotInv, Asked, RestInv, Mine
  <1> QED
    BY <1>1, <1>2, <1>3, <1>4 DEF IInv

THEOREM Invariance == Spec => []IInv
  <1>1. Init => IInv
    BY InitInvariant
  <1>2. IInv /\ [Next]_vars => IInv'
    BY WorkInvariant, UserInvariant, StutterInvariant DEF Next
  <1> QED
    BY <1>1, <1>2, PTL DEF Spec

-----------------------------------------------------------------------------
(* What follows from it.                                                   *)

\* The variables have their types.
THEOREM TypeCorrect == Spec => []TypeOK
  <1>1. IInv => TypeOK
    BY DEF IInv
  <1> QED
    BY <1>1, Invariance, PTL

\* Between two messages the session says of its run what is true of it.
THEOREM SessionsTellTheTruth == Spec => []SessionAgreesWithRun
  <1>1. IInv => SessionAgreesWithRun
    <2> SUFFICES ASSUME IInv, Idle PROVE SessionAgreesWithRun
      BY DEF SessionAgreesWithRun
    <2>1. ~Mine /\ at = "done" /\ RestInv /\ SlotInv
      BY DEF IInv, Idle, HandlerInv, Mine, Nobody
    <2>2. state # "running"
      BY <2>1 DEF RestInv
    <2>3. \A o \in Owners : slot[o] # NoPause => Asked(o) /\ ~slot[o].claimed
      BY <2>1 DEF SlotInv, Asked
    <2>4. "session" \in Owners /\ "conversation" \in Owners
      BY DEF Owners
    <2>5. state = "awaiting_approval" => slot["session"].run = mine /\ mine # None
      BY <2>1, <2>3, <2>4 DEF RestInv, Asked
    <2>6. state = "awaiting_correction" =>
              mine # None /\ run[mine] = "awaiting_correction" /\ ~assisted
      BY <2>1 DEF RestInv
    <2>7. state = "completed" => mine # None /\ run[mine] = "completed"
      BY <2>1 DEF RestInv
    <2>8. state = "cancelled" /\ mine # None => run[mine] = "cancelled"
      BY <2>1 DEF RestInv
    <2>9. \A o \in Owners : slot[o] # NoPause => run[slot[o].run] = "awaiting_approval"
      BY <2>3 DEF Asked
    <2>10. ASSUME slot["session"] # NoPause
           PROVE  state = "awaiting_approval" /\ slot["conversation"].run # mine
      <3>1. state = "awaiting_approval" /\ slot["session"].run = mine
        BY <2>1, <2>10 DEF RestInv
      <3>2. mine \in Records /\ starter[mine] = "session"
        BY <2>3, <2>4, <2>10, <3>1 DEF Asked
      <3>3. CASE slot["conversation"] = NoPause
        BY <3>1, <3>2, <3>3 DEF NoPause, Asks
      <3>4. CASE slot["conversation"] # NoPause
        BY <2>3, <2>4, <3>1, <3>2, <3>4 DEF Asked
      <3> QED
        BY <3>1, <3>3, <3>4
    <2> QED
      BY <2>2, <2>5, <2>6, <2>7, <2>8, <2>9, <2>10 DEF SessionAgreesWithRun
  <1> QED
    BY <1>1, Invariance, PTL

\* What the user is asked to approve is bound to the proposal exactly if a model made it.
THEOREM ProposalsStayBound == Spec => []ProposalsAreBound
  <1>1. IInv => ProposalsAreBound
    BY DEF IInv, RestInv, ProposalsAreBound, Idle, Mine, Nobody
  <1> QED
    BY <1>1, Invariance, PTL

\* Only a run of the session comes to wait for a correction.
THEOREM OnlyTheSessionCorrects == Spec => []CorrectionsBelongToTheSession
  <1>1. IInv => CorrectionsBelongToTheSession
    BY DEF IInv
  <1> QED
    BY <1>1, Invariance, PTL

\* However long a request takes, its budget of generations is all there is.
THEOREM BudgetsHold == Spec => []BudgetPerRequest
  <1>1. IInv => BudgetPerRequest
    BY DEF IInv, CostInv, BudgetPerRequest
  <1> QED
    BY <1>1, Invariance, PTL

-----------------------------------------------------------------------------
(* What is said of a plan.                                                 *)

Keeps ==
    \A r \in Records : records'[r].status # records[r].status =>
        /\ ~Closed(records[r])
        /\ records'[r].status \in {"superseded", "rejected", "revalidation_failed",
                                   "executing"} => records[r].status = "pending"

\* A plan is added, or the one that waits is decided on.
LEMMA RegisterKeeps ==
    ASSUME IInv, NEW p \in Plans, Register(p) PROVE Keeps
  <1>1. \A r \in Records : records'[r].status # records[r].status =>
           r = pending' \/ (pending # None /\ r = pending)
    BY RegisterFacts DEF IInv, TypeOK
  <1>2. records[pending'].status = "unused" /\ records'[pending'].status = "pending"
    BY RegisterFacts DEF IInv, TypeOK
  <1>3. pending # None => records[pending].status = "pending"
    BY DEF IInv, ReviewInv
  <1>4. pending' \in Records /\ (pending # None => pending \in Records)
    BY RegisterFacts DEF IInv, TypeOK
  <1>5. \A r \in Records : records[r].status \in {"unused", "pending"} => ~records[r].finished
    BY DEF IInv, ReviewInv
  <1> QED
    BY <1>1, <1>2, <1>3, <1>4, <1>5 DEF Keeps, Closed

LEMMA DecideKeeps ==
    ASSUME IInv, pending # None, NEW verdict \in RecordStatuses, Decide(verdict) PROVE Keeps
  <1>1. pending \in Records /\ \A r \in Records : r # pending => records'[r] = records[r]
    BY DecideFacts DEF IInv, TypeOK
  <1>2. records[pending].status = "pending" /\ ~records[pending].finished
    BY <1>1 DEF IInv, ReviewInv
  <1> QED
    BY <1>1, <1>2 DEF Keeps, Closed

\* Something is noted of a plan that is being executed.
LEMMA NoteKeeps ==
    ASSUME NEW r \in Records, Noteworthy(r),
           records'[r].status \in {"awaiting_operation_approval", "completed", "failed",
                                   "cancelled"},
           \A q \in Records : q # r => records'[q] = records[q]
    PROVE  Keeps
  BY DEF Noteworthy, Keeps, Closed

LEMMA SomeoneKeeps ==
    ASSUME IInv, cur \in Records, Noteworthy(cur), NEW seen \in Records \cup {None},
           NEW status \in {"awaiting_operation_approval", "completed", "failed",
           "cancelled"},
           Note(cur, seen, status)
    PROVE  Keeps
  <1>1. status \in RecordStatuses
    BY DEF RecordStatuses
  <1>2. records'[cur].status = status /\ \A q \in Records : q # cur => records'[q] = records[q]
    BY <1>1, NoteFacts DEF IInv, TypeOK
  <1> QED
    BY <1>2, NoteKeeps

LEMMA DeclineKeeps ==
    ASSUME IInv, NEW o \in Owners, DeclineTool(o) PROVE Keeps
  <1>1. slot[o].run \in Records /\ Noteworthy(slot[o].run)
    BY DEF DeclineTool, Decidable, IInv, SlotInv, Asked, Noteworthy
  <1>2. /\ records'[slot[o].run].status \in {"completed", "failed", "cancelled"}
        /\ \A q \in Records : q # slot[o].run => records'[q] = records[q]
    BY <1>1, NoteDeclinedFacts DEF DeclineTool, IInv, TypeOK
  <1> QED
    BY <1>1, <1>2, NoteKeeps

LEMMA WorkKeeps ==
    ASSUME IInv, Work PROVE Keeps
  <1>1. at \in {"start", "run", "tool"} => cur \in Records /\ Noteworthy(cur)
    BY DEF IInv, HandlerInv
  <1>2. lastRun \in Records \cup {None}
    BY DEF IInv, TypeOK
  <1>3. ASSUME records' = records PROVE Keeps
    BY <1>3 DEF Keeps
  <1>4. CASE Claim
    BY <1>4, DecideKeeps DEF Claim, Waits, RecordStatuses
  <1>5. CASE ClaimFails
    <2>1. CASE Waits(plan) /\ Decide("revalidation_failed")
      BY <2>1, DecideKeeps DEF Waits, RecordStatuses
    <2> QED
      BY <1>3, <1>5, <2>1 DEF ClaimFails, review
  <1>6. CASE StartFails
    BY <1>1, <1>2, <1>6, SomeoneKeeps DEF StartFails
  <1>7. CASE RunPauses
    BY <1>1, <1>7, SomeoneKeeps DEF RunPauses
  <1>8. CASE ToolPauses
    BY <1>1, <1>2, <1>8, SomeoneKeeps DEF ToolPauses
  <1>9. CASE ToolOpensCorrection
    BY <1>1, <1>2, <1>9, VerdictFacts, SomeoneKeeps DEF ToolOpensCorrection
  <1>10. ASSUME NEW s \in {"completed", "failed", "running", "awaiting_approval"},
                RunEnds(s) \/ ToolReturns(s) \/ ToolRaises(s)
         PROVE  Keeps
    <2>1. CASE RunEnds(s)
      BY <1>1, <2>1, VerdictFacts, SomeoneKeeps DEF RunEnds
    <2>2. CASE ToolReturns(s)
      BY <1>1, <1>2, <2>2, VerdictFacts, SomeoneKeeps DEF ToolReturns
    <2>3. CASE ToolRaises(s)
      BY <1>1, <1>2, <2>3, SomeoneKeeps DEF ToolRaises
    <2> QED
      BY <1>10, <2>1, <2>2, <2>3
  <1>11. CASE \/ StartRun \/ CorrectionStaysRed \/ GiveUp \/ DraftInvalid \/ DraftBreaks
              \/ DraftAccepted \/ SubmitPauses \/ SubmitRefused \/ SubmitRaises
    BY <1>3, <1>11 DEF StartRun, CorrectionStaysRed, GiveUp, DraftInvalid, DraftBreaks,
       DraftAccepted, SubmitPauses, SubmitRefused, SubmitRaises, review
  <1>12. ASSUME NEW s \in {"completed", "failed", "running", "awaiting_approval"},
                CorrectionReturns(s) \/ CorrectionRaises(s) \/ Abort(s)
         PROVE  Keeps
    BY <1>3, <1>12 DEF CorrectionReturns, CorrectionRaises, Abort, review
  <1> QED
    BY <1>4, <1>5, <1>6, <1>7, <1>8, <1>9, <1>10, <1>11, <1>12 DEF Work

LEMMA UserKeeps ==
    ASSUME IInv, User PROVE Keeps
  <1>1. ASSUME records' = records PROVE Keeps
    BY <1>1 DEF Keeps
  <1>2. ASSUME NEW p \in Plans, Submit(p) \/ PlanWithModel(p) PROVE Keeps
    BY <1>2, RegisterKeeps DEF Submit, PlanWithModel
  <1>3. CASE DropPlan \/ DropModelPlan
    BY <1>3, DecideKeeps DEF DropPlan, DropModelPlan, Waits, RecordStatuses
  <1>4. CASE ApproveModelPlan \/ RevalidationFails
    BY <1>4, DecideKeeps DEF ApproveModelPlan, RevalidationFails, RecordStatuses
  <1>5. ASSUME NEW o \in Owners, Approve(o) \/ DeclineTool(o) PROVE Keeps
    BY <1>1, <1>5, DeclineKeeps DEF Approve, review
  <1>6. CASE \/ PlanningFails \/ Close \/ ApprovePlan \/ InvalidateStale \/ DeclineLate
             \/ CancelCorrection \/ RejectCorrection \/ DeclineStale \/ SubmitCorrection
             \/ FilesChange
    BY <1>1, <1>6 DEF PlanningFails, Close, ApprovePlan, InvalidateStale, DeclineLate,
       CancelCorrection, RejectCorrection, DeclineStale, SubmitCorrection, FilesChange,
       review
  <1> QED
    BY <1>2, <1>3, <1>4, <1>5, <1>6 DEF User

\* A plan is decided on once, and what is said of a closed record stays said.
THEOREM VerdictsStand == Spec => RecordsKeepTheirVerdict
  <1>1. IInv /\ [Next]_vars => [Keeps]_records
    <2>1. ASSUME UNCHANGED vars PROVE records' = records
      BY <2>1 DEF vars, review
    <2> QED
      BY <2>1, WorkKeeps, UserKeeps DEF Next
  <1>2. [][Keeps]_records => RecordsKeepTheirVerdict
    BY DEF Keeps, RecordsKeepTheirVerdict
  <1> QED
    BY <1>1, <1>2, Invariance, PTL DEF Spec
-----------------------------------------------------------------------------
(* What makes HandlersEnd hold, but for fairness.                          *)

\* How many steps of its own a handler still takes at most.  Each generation may be followed
\* by a submission that is refused, and leads back; none is given back by a round that fails.
StepsLeft ==
    CASE at = "done" -> 0
      [] at \in {"abort", "run"} -> 1
      [] at = "start" -> 2
      [] at = "claim" -> 3
      [] at = "generate" -> 2 * (MaxGenerations - tried) + 2
      [] at \in {"tool", "correction", "submit"} -> 2 * (MaxGenerations - tried) + 3

\* Every step of a handler brings its end nearer, and what other threads do meanwhile does not
\* put it off, although a correction leads to the next (_generate_model_correction).
HandlersAreShort ==
    [][ ~Idle => \/ StepsLeft' < StepsLeft
                 \/ StepsLeft' = StepsLeft /\ UNCHANGED <<session, engine, handler>> ]_vars

\* A handler under way has a step left, and never more than the budget of a request allows.
LEMMA StepsLeftType ==
    IInv => StepsLeft \in 0..(2 * MaxGenerations + 3) /\ (~Idle => StepsLeft > 0)
  <1> SUFFICES ASSUME IInv
               PROVE  StepsLeft \in 0..(2 * MaxGenerations + 3) /\ (~Idle => StepsLeft > 0)
    OBVIOUS
  <1>1. tried \in 0..MaxGenerations /\ MaxGenerations \in Nat
    BY PolicyAssumption DEF IInv, TypeOK, CostInv
  <1>2. at \in Places /\ (Idle => at = "done") /\ (at = "done" => Idle)
    BY DEF IInv, TypeOK, HandlerInv, Idle
  <1> QED
    BY <1>1, <1>2 DEF StepsLeft, Places

\* A handler ends after as many steps as the budget of a request allows, at the latest,
\* whatever the model answers (_generate_model_correction): HandlersEnd, given that its steps
\* are taken.
THEOREM HandlersAreBounded ==
    Spec => /\ [](StepsLeft \in 0..(2 * MaxGenerations + 3) /\ (~Idle => StepsLeft > 0))
            /\ HandlersAreShort
  <1>1. ASSUME IInv, Work PROVE StepsLeft' < StepsLeft
    <2>1. tried \in 0..MaxGenerations /\ MaxGenerations \in Nat
      BY <1>1, PolicyAssumption DEF IInv, TypeOK, CostInv
    <2> USE <2>1 DEF StepsLeft, Done, GoOn
    <2>2. CASE Claim \/ ClaimFails
      BY <2>2 DEF Claim, ClaimFails
    <2>3. CASE StartRun \/ StartFails
      BY <2>3 DEF StartRun, StartFails
    <2>4. CASE RunPauses \/ ToolPauses
      BY <2>4 DEF RunPauses, ToolPauses
    <2>5. CASE ToolOpensCorrection \/ CorrectionStaysRed \/ SubmitRefused
      <3>1. tried' = tried
        BY <2>5 DEF ToolOpensCorrection, CorrectionStaysRed, SubmitRefused, Turns
      <3>2. at \in {"tool", "correction", "submit"} /\ at' \in {"generate", "done"}
        BY <2>5 DEF ToolOpensCorrection, CorrectionStaysRed, SubmitRefused, AwaitsCorrection
      <3> QED
        BY <3>1, <3>2
    <2>6. CASE GiveUp
      BY <2>6 DEF GiveUp
    <2>7. CASE DraftInvalid
      BY <2>7 DEF DraftInvalid, AskModel, Exhausted, handler
    <2>8. CASE DraftBreaks \/ DraftAccepted
      BY <2>8 DEF DraftBreaks, DraftAccepted, AskModel, Exhausted
    <2>9. CASE SubmitPauses \/ SubmitRaises
      BY <2>9 DEF SubmitPauses, SubmitRaises
    <2>10. ASSUME NEW s \in {"completed", "failed", "running", "awaiting_approval"},
                  \/ RunEnds(s) \/ ToolReturns(s) \/ ToolRaises(s)
                  \/ CorrectionReturns(s) \/ CorrectionRaises(s) \/ Abort(s)
           PROVE  StepsLeft' < StepsLeft
      <3>1. at \in {"run", "tool", "correction", "abort"} /\ at' = "done"
        BY <2>10 DEF RunEnds, ToolReturns, ToolRaises, CorrectionReturns, CorrectionRaises, Abort
      <3> QED
        BY ONLY <2>1, <3>1 DEF StepsLeft
    <2> QED
      BY <1>1, <2>2, <2>3, <2>4, <2>5, <2>6, <2>7, <2>8, <2>9, <2>10 DEF Work
  <1>2. ASSUME IInv, User, ~Idle PROVE UNCHANGED <<session, engine, handler>>
    BY <1>2 DEF User, Submit, Submittable, PlanningFails, Close, DropPlan, ApprovePlan,
       DropModelPlan, ApproveModelPlan, RevalidationFails, PlanWithModel, Approve, DeclineTool,
       Decidable, InvalidateStale, DeclineLate, DecidesCorrection, CancelCorrection,
       RejectCorrection, DeclineStale, SubmitCorrection, FilesChange
  <1>3. UNCHANGED <<session, engine, handler>> => StepsLeft' = StepsLeft
    BY DEF session, handler, StepsLeft
  <1>4. IInv /\ [Next]_vars =>
            [~Idle => \/ StepsLeft' < StepsLeft
                      \/ StepsLeft' = StepsLeft /\ UNCHANGED <<session, engine, handler>>]_vars
    BY <1>1, <1>2, <1>3 DEF Next
  <1> QED
    BY <1>4, StepsLeftType, Invariance, PTL DEF Spec, HandlersAreShort
=============================================================================
