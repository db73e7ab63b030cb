----------------------------- MODULE PlanReview -----------------------------
(***************************************************************************)
(* ModelPlanReviewController: the plans that a model made, one of which    *)
(* waits for the user, and what became of those that were run.             *)
(*                                                                         *)
(* The controller has a lock and may be called by several threads: each    *)
(* action here is one of its critical sections, or what it notes when the  *)
(* engine is done.  ProgrammingSession says who calls it, and when.        *)
(*                                                                         *)
(* A record and the run of its plan have the same number.  Two records may *)
(* hold equal plans: a plan's id is made from what it says.                *)
(***************************************************************************)
EXTENDS Naturals

CONSTANTS
    Plans,
    MaxRecords   \* bound on the plans that are registered

ASSUME RecordAssumption == MaxRecords \in Nat

VARIABLES
    records,     \* the records: plan, status, the run they refer to, whether closed
    pending,     \* the record that waits for the user, or None
    made         \* number of records made

review == <<records, pending, made>>

None == 0
Records == 1..MaxRecords
NoPlan == "no plan"
Unused == [plan |-> NoPlan, status |-> "unused", sees |-> None, finished |-> FALSE]

ReviewInit ==
    /\ records = [r \in Records |-> Unused]
    /\ pending = None
    /\ made = 0

\* register: a new plan supersedes the one that waits.
Register(p) ==
    /\ made < MaxRecords
    /\ made' = made + 1
    /\ pending' = made + 1
    /\ records' = [r \in Records |->
          CASE r = made + 1 -> [Unused EXCEPT !.plan = p, !.status = "pending"]
            [] r = pending -> [records[r] EXCEPT !.status = "superseded"]
            [] OTHER -> records[r]]

\* _require_pending.
Waits(p) == pending # None /\ records[pending].plan = p

\* The plan that waits is decided on: it is executed, rejected, cancelled, or no longer what
\* the user was shown.
Decide(verdict) ==
    /\ records' = [records EXCEPT ![pending].status = verdict]
    /\ pending' = None
    /\ made' = made

\* What the record says of a run (_sync_terminal_status).
Verdict(status) ==
    CASE status = "awaiting_approval" -> "awaiting_operation_approval"
      [] status \in {"completed", "failed", "cancelled"} -> status
      [] OTHER -> "failed"

\* The record refers to a run, and is closed unless that waits for an approval.
Note(r, seen, status) ==
    /\ records' = [records EXCEPT ![r].sees = seen, ![r].status = status,
          ![r].finished = @ \/ status # "awaiting_operation_approval"]
    /\ UNCHANGED <<pending, made>>

\* on_cancel: an operation that is declined closes the record whatever is noted.
NoteDeclined(r, seen, status) ==
    Note(r, seen, IF Verdict(status) = "awaiting_operation_approval"
                  THEN "cancelled" ELSE Verdict(status))

RecordStatuses ==
    {"unused", "pending", "superseded", "rejected", "cancelled", "revalidation_failed",
     "executing", "awaiting_operation_approval", "completed", "failed"}

\* The variables have their types.
ReviewTypeOK ==
    /\ records \in [Records -> [plan: Plans \cup {NoPlan}, status: RecordStatuses,
                                sees: Records \cup {None}, finished: BOOLEAN]]
    /\ pending \in Records \cup {None}
    /\ made \in 0..MaxRecords

Closed(record) ==
    \/ record.finished
    \/ record.status \in {"superseded", "rejected", "cancelled", "revalidation_failed"}

\* A plan is decided on once, while it waits, and what is said of a closed record stays said:
\* a plan that was replaced, rejected or executed is not approved again, and a decision that
\* comes too late changes nothing (_require_pending, claim_pause, _finish_execution).
RecordsKeepTheirVerdict ==
    [][\A r \in Records : records'[r].status # records[r].status =>
          /\ ~Closed(records[r])
          /\ records'[r].status \in {"superseded", "rejected", "revalidation_failed",
                                     "executing"} => records[r].status = "pending"]_records
=============================================================================
