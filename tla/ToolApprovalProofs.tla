------------------------- MODULE ToolApprovalProofs -------------------------
(***************************************************************************)
(* Proofs about consent and limits, for any owners, workflows and          *)
(* operations, and any number of requests.                                 *)
(*                                                                         *)
(* IInv is inductive.  It adds to the properties how an approval is spent: *)
(* there is at most one token, it is for what the slot shows, and nothing  *)
(* runs before it is used; that requests and slots are one to one; and how *)
(* far what a workflow did may be from what it has recorded.               *)
(***************************************************************************)
EXTENDS ToolApproval, FiniteSetTheorems, TLAPS

\* No call takes effect more often than it was approved, or it needs no approval.
Accounts ==
    /\ \A call \in Calls : effects[call] <= consents[call]
    /\ \A token, other \in tokens : token = other
    /\ tokens # {} => effects[slot[deciding].call] < consents[slot[deciding].call]

\* While an approval is carried out.
Deciding ==
    deciding # Nobody =>
        /\ slot[deciding] # NoPending
        /\ \A request \in requests : request.id # slot[deciding].id
        /\ \A f \in Flows : flow[f] = "running" => home[f] = deciding /\ tokens = {}

\* Numbers name one request and one slot.
Numbers ==
    /\ \A o \in Owners : slot[o].id <= made
    /\ \A request \in requests : request.id <= made
    /\ \A request, other \in requests : request.id = other.id => request = other
    /\ \A o, p \in Owners : slot[o] # NoPending /\ slot[o].id = slot[p].id => o = p

\* A workflow asks at home, and waits until the answer is carried out.
Homes ==
    /\ \A f \in Flows : flow[f] # "new" => home[f] \in Owners
    /\ \A o \in Owners : slot[o] # NoPending /\ slot[o].by # NoFlow =>
          /\ home[slot[o].by] = o /\ flow[slot[o].by] # "new"
          /\ deciding # o \/ tokens # {} => flow[slot[o].by] = "waiting"

\* What was recorded fits the limits and was done; what was done besides is one call, and no
\* more than what fits, for each that was missed.
Accounted(done, record, calls) ==
    /\ Fits(record)
    /\ IsFiniteSet(done.inspected) /\ IsFiniteSet(done.modified)
    /\ record.inspected \subseteq done.inspected /\ record.modified \subseteq done.modified
    /\ Cardinality(done.inspected) <= Cardinality(record.inspected) + calls
    /\ Cardinality(done.modified) <= Cardinality(record.modified) + calls
    /\ done.bytes <= record.bytes + MaxBytes * calls

UseIsAccounted == \A f \in Flows : Accounted(use[f], usage[f], missed[f])

IInv ==
    /\ TypeOK /\ SlotsAndRequestsAgree
    /\ Accounts /\ Deciding /\ Numbers /\ Homes /\ UseIsAccounted

Pendings == [id: 1..MaxRequests, call: Calls, by: Flows \cup {NoFlow}]

-----------------------------------------------------------------------------
\* What a workflow did and recorded has its type afterwards.
LEMMA AfterType ==
    ASSUME NEW record \in Usages, NEW op \in Operations
    PROVE  After(record, op) \in Usages
  BY OperationAssumption DEF Usages, After

\* A slot is empty or holds an operation, and the two differ.
LEMMA SlotKinds ==
    ASSUME TypeOK, NEW o \in Owners
    PROVE  /\ slot[o] = NoPending \/ slot[o] \in Pendings
           /\ NoPending.id = 0 /\ NoPending \notin Pendings
           /\ slot[o] # NoPending =>
                 /\ slot[o].id \in 1..MaxRequests /\ slot[o].call \in Calls
                 /\ slot[o].call.op \in Operations /\ slot[o].by \in Flows \cup {NoFlow}
  BY DEF TypeOK, Pendings, NoPending, Calls

\* A new request.
LEMMA PendingType ==
    ASSUME NEW id \in 1..MaxRequests, NEW call \in Calls, NEW by \in Flows \cup {NoFlow}
    PROVE  /\ Pending(id, call, by) \in Pendings /\ Grant(id, call) \in Requests
           /\ Pending(id, call, by).id = id /\ Pending(id, call, by).by = by
           /\ Pending(id, call, by).call = call /\ Grant(id, call).id = id
           /\ Pending(id, call, by) # NoPending
  BY DEF Pending, Pendings, Grant, Requests, Calls, NoPending

\* Nothing is used at first, and that is within the limits.
LEMMA NoUsageFits == NoUsage \in Usages /\ Accounted(NoUsage, NoUsage, 0)
  BY FS_EmptySet, ApprovalBounds DEF NoUsage, Usages, Fits, Accounted

\* One more element, in both sets or in the larger one only.
LEMMA OneMore ==
    ASSUME NEW done, NEW record, NEW calls \in Nat, NEW file,
           IsFiniteSet(done), record \subseteq done,
           Cardinality(done) <= Cardinality(record) + calls
    PROVE  /\ IsFiniteSet(done \cup {file}) /\ IsFiniteSet(record)
           /\ Cardinality(done \cup {file}) \in Nat /\ Cardinality(record) \in Nat
           /\ Cardinality(done) \in Nat /\ Cardinality(record \cup {file}) \in Nat
           /\ Cardinality(done \cup {file}) <= Cardinality(record \cup {file}) + calls
           /\ Cardinality(done \cup {file}) <= Cardinality(record) + (calls + 1)
  <1>1. IsFiniteSet(record)
    BY FS_Subset
  <1>2. /\ IsFiniteSet(done \cup {file})
        /\ Cardinality(done \cup {file}) =
              IF file \in done THEN Cardinality(done) ELSE Cardinality(done) + 1
    BY FS_AddElement
  <1>3. /\ IsFiniteSet(record \cup {file})
        /\ Cardinality(record \cup {file}) =
              IF file \in record THEN Cardinality(record) ELSE Cardinality(record) + 1
    BY <1>1, FS_AddElement
  <1>4. /\ Cardinality(done) \in Nat /\ Cardinality(record) \in Nat
        /\ Cardinality(done \cup {file}) \in Nat /\ Cardinality(record \cup {file}) \in Nat
    BY <1>1, <1>2, <1>3, FS_CardinalityType
  <1>5. CASE file \in done
    BY <1>1, <1>2, <1>3, <1>4, <1>5
  <1>6. CASE file \notin done
    BY <1>1, <1>2, <1>3, <1>4, <1>6
  <1> QED
    BY <1>1, <1>2, <1>4, <1>5, <1>6

\* A call that fits what is recorded keeps the account, recorded or not.
LEMMA CallIsAccounted ==
    ASSUME NEW done \in Usages, NEW record \in Usages, NEW calls \in Nat, NEW op \in Operations,
           Accounted(done, record, calls), Fits(After(record, op))
    PROVE  /\ Accounted(After(done, op), After(record, op), calls)
           /\ Accounted(After(done, op), record, calls + 1)
  <1> DEFINE doneI == After(done, op).inspected
             doneM == After(done, op).modified
             doneB == After(done, op).bytes
             recI == After(record, op).inspected
             recM == After(record, op).modified
             recB == After(record, op).bytes
  <1>1. /\ After(done, op) \in Usages /\ After(record, op) \in Usages
        /\ done.bytes \in Nat /\ record.bytes \in Nat /\ op.bytes \in Nat
        /\ doneB \in Nat /\ recB \in Nat /\ MaxBytes \in Nat
    BY AfterType, OperationAssumption, ApprovalBounds DEF Usages
  <1>2. \/ doneI = done.inspected /\ recI = record.inspected
        \/ doneI = done.inspected \cup {op.file} /\ recI = record.inspected \cup {op.file}
    <2>1. CASE op.tool \in {"code_reader", "code_analyzer"}
      BY <2>1 DEF After
    <2>2. CASE op.tool \notin {"code_reader", "code_analyzer"}
      BY <2>2 DEF After
    <2> QED
      BY <2>1, <2>2
  <1>3. \/ /\ doneM = done.modified /\ recM = record.modified
           /\ doneB = done.bytes /\ recB = record.bytes
        \/ /\ doneM = done.modified \cup {op.file} /\ recM = record.modified \cup {op.file}
           /\ doneB = done.bytes + op.bytes /\ recB = record.bytes + op.bytes
    <2>1. CASE op.tool \in {"patch_applier", "file_creator"}
      BY <2>1 DEF After
    <2>2. CASE op.tool \notin {"patch_applier", "file_creator"}
      BY <2>2 DEF After
    <2> QED
      BY <2>1, <2>2
  <1>5. /\ Fits(record) /\ IsFiniteSet(done.inspected) /\ IsFiniteSet(done.modified)
        /\ record.inspected \subseteq done.inspected /\ record.modified \subseteq done.modified
        /\ Cardinality(done.inspected) <= Cardinality(record.inspected) + calls
        /\ Cardinality(done.modified) <= Cardinality(record.modified) + calls
        /\ done.bytes <= record.bytes + MaxBytes * calls
    BY DEF Accounted
  <1>6. recB <= MaxBytes
    BY DEF Fits
  <1> HIDE DEF doneI, doneM, doneB, recI, recM, recB
  <1>7. /\ IsFiniteSet(doneI) /\ recI \subseteq doneI /\ record.inspected \subseteq doneI
        /\ Cardinality(doneI) <= Cardinality(recI) + calls
        /\ Cardinality(doneI) <= Cardinality(record.inspected) + (calls + 1)
    <2>1. CASE doneI = done.inspected /\ recI = record.inspected
      <3>1. /\ Cardinality(done.inspected) \in Nat /\ Cardinality(record.inspected) \in Nat
        BY <1>5, OneMore
      <3> QED
        BY <1>5, <2>1, <3>1
    <2>2. CASE doneI = done.inspected \cup {op.file} /\ recI = record.inspected \cup {op.file}
      <3>1. /\ IsFiniteSet(done.inspected \cup {op.file})
            /\ Cardinality(done.inspected \cup {op.file})
                  <= Cardinality(record.inspected \cup {op.file}) + calls
            /\ Cardinality(done.inspected \cup {op.file})
                  <= Cardinality(record.inspected) + (calls + 1)
        BY <1>5, OneMore
      <3> QED
        BY <1>5, <2>2, <3>1
    <2> QED
      BY <1>2, <2>1, <2>2
  <1>8. /\ IsFiniteSet(doneM) /\ recM \subseteq doneM /\ record.modified \subseteq doneM
        /\ Cardinality(doneM) <= Cardinality(recM) + calls
        /\ Cardinality(doneM) <= Cardinality(record.modified) + (calls + 1)
    <2>1. CASE doneM = done.modified /\ recM = record.modified
      <3>1. /\ Cardinality(done.modified) \in Nat /\ Cardinality(record.modified) \in Nat
        BY <1>5, OneMore
      <3> QED
        BY <1>5, <2>1, <3>1
    <2>2. CASE doneM = done.modified \cup {op.file} /\ recM = record.modified \cup {op.file}
      <3>1. /\ IsFiniteSet(done.modified \cup {op.file})
            /\ Cardinality(done.modified \cup {op.file})
                  <= Cardinality(record.modified \cup {op.file}) + calls
            /\ Cardinality(done.modified \cup {op.file})
                  <= Cardinality(record.modified) + (calls + 1)
        BY <1>5, OneMore
      <3> QED
        BY <1>5, <2>2, <3>1
    <2> QED
      BY <1>3, <2>1, <2>2
  <1>9. MaxBytes * (calls + 1) = MaxBytes * calls + MaxBytes /\ MaxBytes * calls \in Nat
    BY <1>1
  <1>10. /\ doneB <= recB + MaxBytes * calls
         /\ doneB <= record.bytes + MaxBytes * (calls + 1)
    <2> DEFINE most == MaxBytes * calls
               more == MaxBytes * (calls + 1)
    <2>1. most \in Nat /\ more = most + MaxBytes /\ done.bytes <= record.bytes + most
      BY <1>5, <1>9
    <2> HIDE DEF most, more
    <2>2. doneB <= recB + most /\ doneB <= record.bytes + more
      BY <1>1, <1>3, <1>6, <2>1
    <2> QED
      BY <2>2 DEF most, more
  <1> QED
    BY <1>5, <1>7, <1>8, <1>10 DEF Accounted, doneI, doneM, doneB, recI, recM, recB

\* What is accounted stays so while no workflow does anything.
LEMMA NothingDone ==
    ASSUME UseIsAccounted, UNCHANGED <<use, usage, missed>> PROVE UseIsAccounted'
  BY DEF UseIsAccounted, Accounted, Fits

\* At first the invariant holds.
LEMMA InitInvariant == Init => IInv
  <1> SUFFICES ASSUME Init PROVE IInv
    OBVIOUS
  <1> USE NoUsageFits, ApprovalBounds
  <1>1. TypeOK
    BY DEF Init, TypeOK
  <1>2. \A o \in Owners : slot[o] = NoPending /\ slot[o].id = 0
    BY DEF Init, NoPending
  <1>3. SlotsAndRequestsAgree /\ Deciding /\ Numbers /\ Homes
    BY <1>2 DEF Init, SlotsAndRequestsAgree, Deciding, Numbers, Homes
  <1>4. Accounts /\ UseIsAccounted
    BY DEF Init, Accounts, UseIsAccounted
  <1> QED
    BY <1>1, <1>3, <1>4 DEF IInv

-----------------------------------------------------------------------------
\* A new request keeps requests and slots one to one; whoever was deciding has decided.
LEMMA RequestInvariant ==
    ASSUME IInv, NEW o \in Owners, NEW call \in Calls, NEW by \in Flows \cup {NoFlow},
           Request(o, call, by), tokens = {}, deciding \in {o, Nobody}, deciding' = Nobody,
           UNCHANGED <<home, use, usage, missed, consents, effects>>,
           by = NoFlow => flow' = flow,
           by # NoFlow => /\ home[by] = o /\ flow[by] = "running"
                          /\ flow' = [flow EXCEPT ![by] = "waiting"]
    PROVE  IInv'
  <1> DEFINE new == Pending(made + 1, call, by)
             asked == Grant(made + 1, call)
  <1>1. made + 1 \in 1..MaxRequests /\ made \in Nat
    BY ApprovalBounds DEF Request, IInv, TypeOK
  <1>2. /\ new \in Pendings /\ asked \in Requests /\ new.id = made + 1 /\ new.by = by
        /\ new.call = call /\ asked.id = made + 1 /\ new # NoPending
    BY <1>1, PendingType
  <1>3. /\ made' = made + 1 /\ requests' = requests \cup {asked} /\ tokens' = {}
        /\ slot' = [slot EXCEPT ![o] = new]
        /\ slot[o] = NoPending \/ deciding = o
    BY DEF Request
  <1>4. /\ slot'[o] = new /\ \A p \in Owners : p # o => slot'[p] = slot[p]
    BY <1>3 DEF IInv, TypeOK
  <1> HIDE DEF new, asked
  <1>5. TypeOK'
    <2>1. slot' \in [Owners -> {NoPending} \cup Pendings]
      BY <1>2, <1>3 DEF IInv, TypeOK, Pendings
    <2>2. requests' \subseteq Requests /\ made' \in 0..MaxRequests
      BY <1>1, <1>2, <1>3 DEF IInv, TypeOK
    <2>3. flow' \in [Flows -> {"new", "running", "waiting", "ended", "cancelled"}]
      BY DEF IInv, TypeOK
    <2> QED
      BY <1>3, <2>1, <2>2, <2>3 DEF IInv, TypeOK, Pendings
  <1>6. Numbers'
    <2>1. \A p \in Owners : slot[p].id \in Nat /\ slot[p].id <= made
      BY SlotKinds DEF IInv, Numbers
    <2>2. \A request \in requests : request.id \in Nat /\ request.id <= made
      BY DEF IInv, Numbers, TypeOK, Requests
    <2> QED
      BY <1>1, <1>2, <1>3, <1>4, <2>1, <2>2 DEF IInv, Numbers
  <1>7. SlotsAndRequestsAgree'
    <2>1. ASSUME NEW p \in Owners, slot'[p] # NoPending
          PROVE  Grant(slot'[p].id, slot'[p].call) \in requests'
      <3>1. CASE p = o
        BY <1>2, <1>3, <1>4, <3>1 DEF asked, Grant
      <3>2. CASE p # o
        BY <1>3, <1>4, <2>1, <3>2, NameAssumption DEF IInv, SlotsAndRequestsAgree
      <3> QED
        BY <3>1, <3>2
    <2>2. ASSUME NEW request \in requests' PROVE \E p \in Owners : slot'[p].id = request.id
      <3>1. CASE request = asked
        BY <1>2, <1>4, <3>1
      <3>2. CASE request \in requests
        <4>1. PICK p \in Owners : slot[p].id = request.id
          BY <3>2 DEF IInv, SlotsAndRequestsAgree
        <4>2. request.id # 0
          BY <3>2 DEF IInv, TypeOK, Requests
        <4>3. p # o
          BY <1>3, <3>2, <4>1, <4>2, SlotKinds, NameAssumption DEF IInv, Deciding
        <4> QED
          BY <1>4, <4>1, <4>3
      <3> QED
        BY <1>3, <3>1, <3>2
    <2> QED
      BY <1>3, <2>1, <2>2 DEF SlotsAndRequestsAgree
  <1>8. Homes'
    <2>1. \A f \in Flows : flow'[f] # "new" => home'[f] \in Owners
      BY DEF IInv, TypeOK, Homes
    <2>2. ASSUME NEW p \in Owners, slot'[p] # NoPending, slot'[p].by # NoFlow
          PROVE  home'[slot'[p].by] = p /\ flow'[slot'[p].by] = "waiting"
      <3>1. CASE p = o
        BY <1>2, <1>4, <2>2, <3>1 DEF IInv, TypeOK
      <3>2. CASE p # o
        <4>1. /\ slot[p] # NoPending /\ slot[p].by \in Flows /\ home[slot[p].by] = p
              /\ flow[slot[p].by] = "waiting"
          BY <1>4, <2>2, <3>2, SlotKinds, NameAssumption DEF IInv, Homes
        <4> QED
          BY <1>4, <3>2, <4>1 DEF IInv, TypeOK
      <3> QED
        BY <3>1, <3>2
    <2> QED
      BY <2>1, <2>2 DEF Homes
  <1>9. Accounts' /\ Deciding' /\ UseIsAccounted'
    BY <1>3, NothingDone DEF IInv, Accounts, Deciding, TypeOK
  <1> QED
    BY <1>5, <1>6, <1>7, <1>8, <1>9 DEF IInv

\* A call that is free spends nothing.
LEMMA FreeCalls == ASSUME NEW call \in Calls, AllowedFreely(call), Takes(call)
                   PROVE  effects' = effects
  BY DEF AllowedFreely, Requires, Takes

\* The conversation.
LEMMA ConverseInvariant ==
    ASSUME IInv, NEW call \in Calls, Converse(call) \/ \E o \in Owners : ConverseAsks(o, call)
    PROVE  IInv'
  <1>1. CASE Converse(call)
    <2>1. UNCHANGED vars
      BY <1>1, FreeCalls DEF Converse, vars, manager, runtime
    <2> QED
      BY <2>1, NothingDone DEF vars, manager, runtime, IInv, TypeOK, SlotsAndRequestsAgree,
         Accounts, Deciding, Numbers, Homes
  <1>2. ASSUME NEW o \in Owners, ConverseAsks(o, call) PROVE IInv'
    <2>1. deciding = Nobody /\ tokens = {}
      BY <1>2 DEF ConverseAsks, Idle, IInv, SlotsAndRequestsAgree
    <2> QED
      BY <1>2, <2>1, RequestInvariant DEF ConverseAsks, runtime
  <1> QED
    BY <1>1, <1>2

\* A workflow starts, or again, or ends, or waits unheard.
LEMMA FlowInvariant ==
    ASSUME IInv, NEW f \in Flows,
           \/ \E o \in Owners : StartFlow(f, o) \/ Rerun(f, o)
           \/ \E call \in Calls : ExecuteUnheard(f, call)
           \/ EndFlow(f)
    PROVE  IInv'
  <1>1. UNCHANGED <<requests, tokens, made, slot, deciding, usage, use, missed, consents, effects>>
    BY DEF StartFlow, Rerun, ExecuteUnheard, EndFlow, manager
  <1>2. SlotsAndRequestsAgree' /\ Accounts' /\ Numbers' /\ UseIsAccounted'
    BY <1>1, NothingDone DEF IInv, SlotsAndRequestsAgree, Accounts, Numbers
  <1>3. CASE \E o \in Owners : StartFlow(f, o) \/ Rerun(f, o)
    <2>1. PICK o \in Owners : /\ flow[f] \in {"new", "ended"} /\ deciding = Nobody
                              /\ flow' = [flow EXCEPT ![f] = "running"]
                              /\ home' = [home EXCEPT ![f] = o]
      BY <1>3 DEF StartFlow, Rerun, Idle
    <2>2. TypeOK' /\ Deciding'
      BY <1>1, <2>1 DEF IInv, TypeOK, Deciding
    <2>3. ASSUME NEW p \in Owners, slot[p] # NoPending, slot[p].by # NoFlow
          PROVE  slot[p].by \in Flows /\ slot[p].by # f
      <3>1. flow[slot[p].by] = "waiting"
        BY <2>1, <2>3, NameAssumption DEF IInv, Homes
      <3> QED
        BY <2>1, <2>3, <3>1, SlotKinds DEF IInv
    <2>4. Homes'
      BY <1>1, <2>1, <2>3 DEF IInv, Homes, TypeOK
    <2> QED
      BY <1>2, <2>2, <2>4 DEF IInv
  <1>4. CASE ~\E o \in Owners : StartFlow(f, o) \/ Rerun(f, o)
    <2>1. PICK end \in {"waiting", "ended"} :
              flow[f] = "running" /\ flow' = [flow EXCEPT ![f] = end] /\ home' = home
      BY <1>4 DEF ExecuteUnheard, EndFlow, Steps
    <2>2. TypeOK'
      BY <1>1, <2>1 DEF IInv, TypeOK
    <2>3. Deciding'
      BY <1>1, <2>1 DEF IInv, TypeOK, Deciding
    <2>4. Homes'
      <3>1. \A g \in Flows : flow'[g] # "new" => home'[g] \in Owners
        BY <2>1 DEF IInv, TypeOK, Homes
      <3>2. ASSUME NEW p \in Owners, slot'[p] # NoPending, slot'[p].by # NoFlow
            PROVE  /\ home'[slot'[p].by] = p /\ flow'[slot'[p].by] # "new"
                   /\ deciding' # p \/ tokens' # {} => flow'[slot'[p].by] = "waiting"
        <4>1. slot[p].by \in Flows
          BY <1>1, <3>2, SlotKinds DEF IInv
        <4>2. /\ home[slot[p].by] = p /\ flow[slot[p].by] # "new"
              /\ deciding # p \/ tokens # {} => flow[slot[p].by] = "waiting"
          BY <1>1, <3>2 DEF IInv, Homes
        <4> QED
          BY <1>1, <2>1, <4>1, <4>2 DEF IInv, TypeOK
      <3> QED
        BY <3>1, <3>2 DEF Homes
    <2> QED
      BY <1>2, <2>2, <2>3, <2>4 DEF IInv
  <1> QED
    BY <1>3, <1>4

-----------------------------------------------------------------------------
\* The effect of a step: the check before it is enough for the account.
LEMMA StepUsage ==
    ASSUME IInv, NEW f \in Flows, NEW call \in Calls, WithinLimits(f, call.op), Effect(f, call)
    PROVE  /\ UseIsAccounted'
           /\ use' \in [Flows -> Usages] /\ usage' \in [Flows -> Usages]
           /\ missed' \in [Flows -> 0..MaxMissed]
           /\ \E status \in {"running", "ended"} : flow' = [flow EXCEPT ![f] = status]
  <1> DEFINE done == After(use[f], call.op)
             record == After(usage[f], call.op)
  <1>1. /\ use[f] \in Usages /\ usage[f] \in Usages /\ missed[f] \in Nat
        /\ call.op \in Operations /\ MaxMissed \in Nat
    BY ApprovalBounds DEF IInv, TypeOK, Calls
  <1>2. done \in Usages /\ record \in Usages
    BY <1>1, AfterType
  <1>3. /\ Accounted(done, record, missed[f])
        /\ Accounted(done, usage[f], missed[f] + 1)
    BY <1>1, CallIsAccounted DEF IInv, UseIsAccounted, WithinLimits
  <1>4. /\ use' = [use EXCEPT ![f] = done]
        /\ \/ /\ usage' = [usage EXCEPT ![f] = record] /\ missed' = missed
           \/ /\ usage' = usage /\ missed' = [missed EXCEPT ![f] = missed[f] + 1]
              /\ missed[f] < MaxMissed
        /\ \E status \in {"running", "ended"} : flow' = [flow EXCEPT ![f] = status]
    BY DEF Effect, StepDone, StepRefused, StepRaises, Unrecorded
  <1> HIDE DEF done, record
  <1>5. /\ use' \in [Flows -> Usages] /\ usage' \in [Flows -> Usages]
        /\ missed' \in [Flows -> 0..MaxMissed]
    BY <1>1, <1>2, <1>4 DEF IInv, TypeOK
  <1>6. ASSUME NEW g \in Flows PROVE Accounted(use'[g], usage'[g], missed'[g])
    <2>1. CASE g = f
      <3>1. /\ use'[g] = done
            /\ \/ usage'[g] = record /\ missed'[g] = missed[f]
               \/ usage'[g] = usage[f] /\ missed'[g] = missed[f] + 1
        BY <1>4, <2>1 DEF IInv, TypeOK
      <3> QED
        BY <1>3, <3>1
    <2>2. CASE g # f
      <3>1. use'[g] = use[g] /\ usage'[g] = usage[g] /\ missed'[g] = missed[g]
        BY <1>4, <2>2 DEF IInv, TypeOK
      <3>2. Accounted(use[g], usage[g], missed[g])
        BY DEF IInv, UseIsAccounted
      <3> QED
        BY <3>1, <3>2
    <2> QED
      BY <2>1, <2>2
  <1>7. UseIsAccounted'
    BY <1>6 DEF UseIsAccounted
  <1> QED
    BY <1>4, <1>5, <1>7

\* A step whose tool is free.
LEMMA ExecuteInvariant ==
    ASSUME IInv, NEW f \in Flows, NEW call \in Calls, Execute(f, call) PROVE IInv'
  <1>1. /\ UNCHANGED <<requests, tokens, made, slot, deciding, home, consents, effects>>
        /\ flow[f] = "running"
    BY FreeCalls DEF Execute, manager, Effect, StepDone, StepRefused, StepRaises, Unrecorded, Steps
  <1>2. /\ UseIsAccounted'
        /\ use' \in [Flows -> Usages] /\ usage' \in [Flows -> Usages]
        /\ missed' \in [Flows -> 0..MaxMissed]
        /\ \E status \in {"running", "ended"} : flow' = [flow EXCEPT ![f] = status]
    BY <1>1, StepUsage DEF Execute, Steps
  <1>3. PICK status \in {"running", "ended"} : flow' = [flow EXCEPT ![f] = status]
    BY <1>2
  <1>4. TypeOK'
    BY <1>1, <1>2, <1>3 DEF IInv, TypeOK
  <1>5. SlotsAndRequestsAgree' /\ Accounts' /\ Numbers'
    BY <1>1 DEF IInv, SlotsAndRequestsAgree, Accounts, Numbers
  <1>6. Deciding'
    BY <1>1, <1>3 DEF IInv, TypeOK, Deciding
  <1>7. Homes'
    <2>1. \A g \in Flows : flow'[g] # "new" => home'[g] \in Owners
      BY <1>1, <1>3 DEF IInv, TypeOK, Homes
    <2>2. ASSUME NEW p \in Owners, slot'[p] # NoPending, slot'[p].by # NoFlow
          PROVE  /\ home'[slot'[p].by] = p /\ flow'[slot'[p].by] # "new"
                 /\ deciding' # p \/ tokens' # {} => flow'[slot'[p].by] = "waiting"
      <3>1. slot[p].by \in Flows
        BY <1>1, <2>2, SlotKinds DEF IInv
      <3>2. /\ home[slot[p].by] = p /\ flow[slot[p].by] # "new"
            /\ deciding # p \/ tokens # {} => flow[slot[p].by] = "waiting"
        BY <1>1, <2>2 DEF IInv, Homes
      <3> QED
        BY <1>1, <1>3, <3>1, <3>2 DEF IInv, TypeOK
    <2> QED
      BY <2>1, <2>2 DEF Homes
  <1> QED
    BY <1>2, <1>4, <1>5, <1>6, <1>7 DEF IInv

\* A step that asks: if an approval is being carried out, it is the one that this workflow
\* asked for, and it is spent.
LEMMA ExecuteAsksInvariant ==
    ASSUME IInv, NEW f \in Flows, NEW call \in Calls, ExecuteAsks(f, call) PROVE IInv'
  <1>1. /\ flow[f] = "running" /\ home[f] \in Owners
        /\ flow' = [flow EXCEPT ![f] = "waiting"] /\ deciding' = Nobody
        /\ Request(home[f], call, f) /\ UNCHANGED <<home, use, usage, missed, consents, effects>>
    BY DEF ExecuteAsks, Steps, IInv, Homes
  <1>2. tokens = {} /\ deciding \in {home[f], Nobody}
    BY <1>1 DEF IInv, Deciding, SlotsAndRequestsAgree
  <1>3. f # NoFlow
    BY NameAssumption
  <1> QED
    BY <1>1, <1>2, <1>3, RequestInvariant

-----------------------------------------------------------------------------
\* The user approves: the request of the slot becomes the only token.
LEMMA ApproveInvariant == ASSUME IInv, NEW o \in Owners, Approve(o) PROVE IInv'
  <1>1. PICK request \in requests :
            /\ request.id = slot[o].id
            /\ requests' = requests \ {request} /\ tokens' = tokens \cup {request}
    BY DEF Approve
  <1>2. /\ slot[o] # NoPending /\ deciding = Nobody /\ deciding' = o /\ made' = made
        /\ \A f \in Flows : flow[f] # "running"
        /\ consents' = [consents EXCEPT ![slot[o].call] = @ + 1]
        /\ UNCHANGED <<slot, flow, home, usage, use, missed, effects>>
    BY DEF Approve, Idle, runtime
  <1>3. tokens = {}
    BY <1>2 DEF IInv, SlotsAndRequestsAgree
  <1>4. slot[o].call \in Calls
    BY <1>2, SlotKinds DEF IInv
  <1>5. TypeOK'
    BY <1>1, <1>2, <1>4 DEF IInv, TypeOK
  <1>6. Accounts'
    <2>1. \A call \in Calls : effects[call] \in Nat /\ consents[call] \in Nat
                              /\ effects[call] <= consents[call]
      BY DEF IInv, TypeOK, Accounts
    <2>2. \A call \in Calls :
              consents'[call] = IF call = slot[o].call THEN consents[call] + 1 ELSE consents[call]
      BY <1>2, <1>4 DEF IInv, TypeOK
    <2>3. slot'[deciding'].call = slot[o].call /\ effects' = effects /\ tokens' = {request}
      BY <1>1, <1>2, <1>3
    <2> QED
      BY <1>4, <2>1, <2>2, <2>3 DEF Accounts
  <1>7. Deciding'
    BY <1>1, <1>2 DEF IInv, Deciding, Numbers
  <1>8. Numbers'
    BY <1>1, <1>2 DEF IInv, Numbers
  <1>9. SlotsAndRequestsAgree'
    <2>1. ASSUME NEW p \in Owners, slot[p] # NoPending, p # o
          PROVE  Grant(slot[p].id, slot[p].call) \in requests'
      <3>1. Grant(slot[p].id, slot[p].call) \in requests
        BY <1>2, <2>1, NameAssumption DEF IInv, SlotsAndRequestsAgree
      <3>2. slot[p].id # slot[o].id
        BY <1>2, <2>1 DEF IInv, Numbers
      <3> QED
        BY <1>1, <3>1, <3>2 DEF Grant
    <2>2. o # Nobody
      BY NameAssumption
    <2> QED
      BY <1>1, <1>2, <2>1, <2>2 DEF IInv, SlotsAndRequestsAgree
  <1>10. Homes'
    BY <1>2, NameAssumption DEF IInv, Homes
  <1>11. UseIsAccounted'
    BY <1>2, NothingDone DEF IInv
  <1> QED
    BY <1>5, <1>6, <1>7, <1>8, <1>9, <1>10, <1>11 DEF IInv

\* The token is used, once, for what it was given for.
LEMMA Redeemed ==
    ASSUME IInv, NEW o \in Owners, deciding = o,
           \E token \in tokens : Redeems(o, token), Takes(slot[o].call)
    PROVE  /\ tokens' = {} /\ requests' = requests /\ made' = made
           /\ slot[o] # NoPending /\ slot[o].call \in Calls /\ tokens # {}
           /\ \A f \in Flows : flow[f] # "running"
           /\ effects' \in [Calls -> Nat]
           /\ \A call \in Calls : effects'[call] <= consents[call]
  <1>1. PICK token \in tokens : tokens' = tokens \ {token} /\ requests' = requests /\ made' = made
    BY DEF Redeems
  <1>2. tokens' = {}
    BY <1>1 DEF IInv, Accounts
  <1>3. slot[o] # NoPending /\ \A f \in Flows : flow[f] # "running"
    BY <1>1, NameAssumption DEF IInv, Deciding
  <1>4. slot[o].call \in Calls
    BY <1>3, SlotKinds DEF IInv
  <1>5. /\ \A call \in Calls : effects[call] \in Nat /\ consents[call] \in Nat
                              /\ effects[call] <= consents[call]
        /\ effects[slot[o].call] < consents[slot[o].call]
    BY <1>1 DEF IInv, TypeOK, Accounts
  <1>6. effects' \in {effects, [effects EXCEPT ![slot[o].call] = @ + 1]}
    BY DEF Takes
  <1>7. \A call \in Calls : effects'[call] \in {effects[call],
            IF call = slot[o].call THEN effects[call] + 1 ELSE effects[call]}
    BY <1>4, <1>6 DEF IInv, TypeOK
  <1>8. effects' \in [Calls -> Nat]
    BY <1>4, <1>6 DEF IInv, TypeOK
  <1> QED
    BY <1>1, <1>2, <1>3, <1>4, <1>5, <1>7, <1>8

\* The operation of a message.
LEMMA PerformInvariant == ASSUME IInv, NEW o \in Owners, Perform(o) PROVE IInv'
  <1>1. /\ deciding = o /\ slot[o].by = NoFlow
        /\ UNCHANGED <<slot, deciding, flow, home, usage, use, missed, consents>>
    BY DEF Perform, runtime
  <1>2. /\ tokens' = {} /\ requests' = requests /\ made' = made
        /\ effects' \in [Calls -> Nat]
        /\ \A call \in Calls : effects'[call] <= consents[call]
        /\ slot[o] # NoPending
    BY <1>1, Redeemed DEF Perform
  <1>3. TypeOK'
    BY <1>1, <1>2 DEF IInv, TypeOK
  <1>4. SlotsAndRequestsAgree' /\ Numbers'
    BY <1>1, <1>2 DEF IInv, SlotsAndRequestsAgree, Numbers
  <1>5. Accounts' /\ Deciding'
    BY <1>1, <1>2 DEF IInv, Accounts, Deciding
  <1>6. Homes'
    BY <1>1, <1>2 DEF IInv, Homes
  <1>7. UseIsAccounted'
    BY <1>1, NothingDone DEF IInv
  <1> QED
    BY <1>3, <1>4, <1>5, <1>6, <1>7 DEF IInv

\* The step of a workflow, which waited until now, and the workflow runs on or ends.
LEMMA PerformStepInvariant == ASSUME IInv, NEW o \in Owners, PerformStep(o) PROVE IInv'
  <1> DEFINE f == slot[o].by
  <1>1. /\ deciding = o /\ f # NoFlow /\ WithinLimits(f, slot[o].call.op)
        /\ Effect(f, slot[o].call)
        /\ UNCHANGED <<slot, deciding, home, consents>>
        /\ \E token \in tokens : Redeems(o, token)
    BY DEF PerformStep
  <1>2. Takes(slot[o].call)
    BY <1>1 DEF Effect, StepDone, StepRefused, StepRaises, Unrecorded
  <1>3. /\ tokens' = {} /\ requests' = requests /\ made' = made
        /\ effects' \in [Calls -> Nat]
        /\ \A call \in Calls : effects'[call] <= consents[call]
        /\ slot[o] # NoPending /\ slot[o].call \in Calls /\ tokens # {}
        /\ \A g \in Flows : flow[g] # "running"
    BY <1>1, <1>2, Redeemed
  <1>4. f \in Flows /\ home[f] = o /\ flow[f] = "waiting"
    BY <1>1, <1>3, SlotKinds DEF IInv, Homes
  <1> HIDE DEF f
  <1>5. /\ UseIsAccounted'
        /\ use' \in [Flows -> Usages] /\ usage' \in [Flows -> Usages]
        /\ missed' \in [Flows -> 0..MaxMissed]
        /\ \E status \in {"running", "ended"} : flow' = [flow EXCEPT ![f] = status]
    BY <1>1, <1>3, <1>4, StepUsage
  <1>6. PICK status \in {"running", "ended"} : flow' = [flow EXCEPT ![f] = status]
    BY <1>5
  <1>7. TypeOK'
    BY <1>1, <1>3, <1>4, <1>5, <1>6 DEF IInv, TypeOK
  <1>8. SlotsAndRequestsAgree' /\ Numbers'
    BY <1>1, <1>3, NameAssumption DEF IInv, SlotsAndRequestsAgree, Numbers
  <1>9. Accounts'
    BY <1>1, <1>3 DEF Accounts
  <1>10. Deciding'
    BY <1>1, <1>3, <1>4, <1>6 DEF IInv, TypeOK, Deciding
  <1>11. Homes'
    <2>1. \A g \in Flows : flow'[g] # "new" => home'[g] \in Owners
      BY <1>1, <1>4, <1>6 DEF IInv, TypeOK, Homes
    <2>2. ASSUME NEW p \in Owners, slot'[p] # NoPending, slot'[p].by # NoFlow
          PROVE  /\ home'[slot'[p].by] = p /\ flow'[slot'[p].by] # "new"
                 /\ deciding' # p \/ tokens' # {} => flow'[slot'[p].by] = "waiting"
      <3>1. slot[p].by \in Flows
        BY <1>1, <2>2, SlotKinds DEF IInv
      <3>2. /\ home[slot[p].by] = p /\ flow[slot[p].by] # "new"
            /\ flow[slot[p].by] = "waiting"
        BY <1>1, <1>3, <2>2 DEF IInv, Homes
      <3>3. slot[p].by = f => p = o
        BY <1>4, <3>2
      <3> QED
        BY <1>1, <1>3, <1>6, <3>1, <3>2, <3>3 DEF IInv, TypeOK
    <2> QED
      BY <2>1, <2>2 DEF Homes
  <1> QED
    BY <1>5, <1>7, <1>8, <1>9, <1>10, <1>11 DEF IInv

\* The call of approve returns.
LEMMA ReturnInvariant == ASSUME IInv, NEW o \in Owners, Return(o) PROVE IInv'
  <1>1. /\ deciding = o /\ tokens = {} /\ slot' = [slot EXCEPT ![o] = NoPending]
        /\ deciding' = Nobody
        /\ UNCHANGED <<requests, tokens, made, flow, home, usage, use, missed, consents, effects>>
    BY DEF Return, manager, runtime
  <1>2. slot'[o] = NoPending /\ \A p \in Owners : p # o => slot'[p] = slot[p]
    BY <1>1 DEF IInv, TypeOK
  <1>3. TypeOK'
    BY <1>1 DEF IInv, TypeOK
  <1>4. SlotsAndRequestsAgree'
    BY <1>1, <1>2, NameAssumption DEF IInv, SlotsAndRequestsAgree, Deciding
  <1>5. Numbers'
    <2>1. NoPending.id <= made
      BY SlotKinds, ApprovalBounds DEF IInv, TypeOK, NoPending
    <2>2. \A p \in Owners : slot[p] # NoPending => slot[p].id # NoPending.id
      BY SlotKinds DEF IInv, NoPending
    <2> QED
      BY <1>1, <1>2, <2>1, <2>2 DEF IInv, Numbers
  <1>6. Homes'
    BY <1>1, <1>2, NameAssumption DEF IInv, Homes
  <1>7. Accounts' /\ Deciding' /\ UseIsAccounted'
    BY <1>1, NothingDone DEF IInv, Accounts, Deciding
  <1> QED
    BY <1>3, <1>4, <1>5, <1>6, <1>7 DEF IInv

\* The user declines: the request is gone, and the workflow that asked is cancelled.
LEMMA DeclineInvariant == ASSUME IInv, NEW o \in Owners, Decline(o) PROVE IInv'
  <1>1. /\ deciding = Nobody /\ slot[o] # NoPending
        /\ requests' = {request \in requests : request.id # slot[o].id}
        /\ slot' = [slot EXCEPT ![o] = NoPending]
        /\ flow' = IF slot[o].by = NoFlow THEN flow ELSE [flow EXCEPT ![slot[o].by] = "cancelled"]
        /\ UNCHANGED <<tokens, made, deciding, home, usage, use, missed, consents, effects>>
    BY DEF Decline, Idle
  <1>2. slot'[o] = NoPending /\ \A p \in Owners : p # o => slot'[p] = slot[p]
    BY <1>1 DEF IInv, TypeOK
  <1>3. \A g \in Flows : flow'[g] = IF g = slot[o].by THEN "cancelled" ELSE flow[g]
    BY <1>1, SlotKinds, NameAssumption DEF IInv, TypeOK
  <1>4. flow' \in [Flows -> {"new", "running", "waiting", "ended", "cancelled"}]
    BY <1>1 DEF IInv, TypeOK
  <1>5. TypeOK'
    BY <1>1, <1>4 DEF IInv, TypeOK
  <1>6. SlotsAndRequestsAgree'
    <2>1. ASSUME NEW p \in Owners, slot'[p] # NoPending
          PROVE  Grant(slot'[p].id, slot'[p].call) \in requests'
      <3>1. p # o /\ slot'[p] = slot[p]
        BY <1>2, <2>1
      <3>2. Grant(slot[p].id, slot[p].call) \in requests
        BY <1>1, <2>1, <3>1, NameAssumption DEF IInv, SlotsAndRequestsAgree
      <3>3. slot[p].id # slot[o].id
        BY <1>1, <3>1 DEF IInv, Numbers
      <3> QED
        BY <1>1, <3>1, <3>2, <3>3 DEF Grant
    <2>2. ASSUME NEW request \in requests' PROVE \E p \in Owners : slot'[p].id = request.id
      BY <1>1, <1>2, <2>2 DEF IInv, SlotsAndRequestsAgree
    <2> QED
      BY <1>1, <2>1, <2>2 DEF IInv, SlotsAndRequestsAgree
  <1>7. Numbers'
    <2>1. NoPending.id <= made
      BY SlotKinds, ApprovalBounds DEF IInv, TypeOK, NoPending
    <2>2. \A p \in Owners : slot[p] # NoPending => slot[p].id # NoPending.id
      BY SlotKinds DEF IInv, NoPending
    <2> QED
      BY <1>1, <1>2, <2>1, <2>2 DEF IInv, Numbers
  <1>8. Homes'
    <2>1. \A g \in Flows : flow'[g] # "new" => home'[g] \in Owners
      <3>1. ASSUME NEW g \in Flows, flow'[g] # "new" PROVE home[g] \in Owners
        <4>1. CASE g = slot[o].by
          BY <1>1, <4>1, NameAssumption DEF IInv, Homes
        <4>2. CASE g # slot[o].by
          BY <1>3, <3>1, <4>2 DEF IInv, Homes
        <4> QED
          BY <4>1, <4>2
      <3> QED
        BY <1>1, <3>1
    <2>2. ASSUME NEW p \in Owners, slot'[p] # NoPending, slot'[p].by # NoFlow
          PROVE  home'[slot'[p].by] = p /\ flow'[slot'[p].by] = "waiting"
      <3>1. p # o /\ slot'[p] = slot[p]
        BY <1>2, <2>2
      <3>2. /\ slot[p].by \in Flows /\ home[slot[p].by] = p /\ flow[slot[p].by] = "waiting"
        BY <1>1, <2>2, <3>1, SlotKinds, NameAssumption DEF IInv, Homes
      <3>3. slot[p].by # slot[o].by
        BY <1>1, <2>2, <3>1, <3>2 DEF IInv, Homes
      <3> QED
        BY <1>1, <1>3, <3>1, <3>2, <3>3
    <2> QED
      BY <2>1, <2>2 DEF Homes
  <1>9. UseIsAccounted'
    BY <1>1, NothingDone DEF IInv
  <1>10. Accounts' /\ Deciding'
    BY <1>1 DEF IInv, Accounts, Deciding, SlotsAndRequestsAgree
  <1> QED
    BY <1>5, <1>6, <1>7, <1>8, <1>9, <1>10 DEF IInv

\* Every step keeps the invariant.
LEMMA StepInvariant == IInv /\ [Next]_vars => IInv'
  <1> SUFFICES ASSUME IInv, [Next]_vars PROVE IInv'
    OBVIOUS
  <1>1. CASE UNCHANGED vars
    BY <1>1, NothingDone DEF vars, manager, runtime, IInv, TypeOK, SlotsAndRequestsAgree,
       Accounts, Deciding, Numbers, Homes
  <1>2. ASSUME NEW call \in Calls, Converse(call) \/ \E o \in Owners : ConverseAsks(o, call)
        PROVE  IInv'
    BY <1>2, ConverseInvariant
  <1>3. ASSUME NEW call \in Calls, NEW f \in Flows,
               Execute(f, call) \/ ExecuteAsks(f, call) \/ ExecuteUnheard(f, call)
        PROVE  IInv'
    BY <1>3, ExecuteInvariant, ExecuteAsksInvariant, FlowInvariant
  <1>4. ASSUME NEW f \in Flows,
               EndFlow(f) \/ \E o \in Owners : StartFlow(f, o) \/ Rerun(f, o)
        PROVE  IInv'
    BY <1>4, FlowInvariant
  <1>5. ASSUME NEW o \in Owners,
               Approve(o) \/ Perform(o) \/ PerformStep(o) \/ Return(o) \/ Decline(o)
        PROVE  IInv'
    BY <1>5, ApproveInvariant, PerformInvariant, PerformStepInvariant, ReturnInvariant,
       DeclineInvariant
  <1> QED
    BY <1>1, <1>2, <1>3, <1>4, <1>5 DEF Next

-----------------------------------------------------------------------------
\* The invariant holds in every reachable state.
THEOREM Invariance == Spec => []IInv
  BY InitInvariant, StepInvariant, PTL DEF Spec

\* The manager, the slots and the workflows keep their types.
THEOREM TypeCorrect == Spec => []TypeOK
  BY Invariance, PTL DEF IInv

\* No effect without its own approval (can_execute, approve, execute).
THEOREM EffectsHaveConsent == Spec => []ConsentPerEffect
  <1>1. IInv => ConsentPerEffect
    BY DEF IInv, Accounts, ConsentPerEffect
  <1> QED
    BY <1>1, Invariance, PTL

\* What is shown can be decided, and only that (request_operation, approve, reject).
THEOREM SlotsShowRequests == Spec => []SlotsAndRequestsAgree
  BY Invariance, PTL DEF IInv

\* Without a missed call a workflow does no more than its limits allow, over all its runs, and
\* a missed call adds no more than one call may do (_validate_limits, _record_usage,
\* prepare_resume).
THEOREM EffectsStayWithinLimits == Spec => []EffectsWithinLimits
  <1>1. ASSUME IInv, NEW f \in Flows
        PROVE  /\ Cardinality(use[f].inspected) <= MaxInspected + missed[f]
               /\ Cardinality(use[f].modified) <= MaxModified + missed[f]
               /\ use[f].bytes <= MaxBytes * (1 + missed[f])
    <2>1. /\ use[f] \in Usages /\ usage[f] \in Usages /\ missed[f] \in Nat
          /\ MaxInspected \in Nat /\ MaxModified \in Nat /\ MaxBytes \in Nat
      BY <1>1, ApprovalBounds DEF IInv, TypeOK
    <2>2. Accounted(use[f], usage[f], missed[f])
      BY <1>1 DEF IInv, UseIsAccounted
    <2>3. /\ IsFiniteSet(usage[f].inspected) /\ IsFiniteSet(usage[f].modified)
          /\ IsFiniteSet(use[f].inspected) /\ IsFiniteSet(use[f].modified)
      BY <2>2, FS_Subset DEF Accounted
    <2>4. /\ Cardinality(usage[f].inspected) \in Nat /\ Cardinality(usage[f].modified) \in Nat
          /\ Cardinality(use[f].inspected) \in Nat /\ Cardinality(use[f].modified) \in Nat
      BY <2>3, FS_CardinalityType
    <2>5. MaxBytes * (1 + missed[f]) = MaxBytes + MaxBytes * missed[f]
          /\ MaxBytes * missed[f] \in Nat
      BY <2>1
    <2>6. use[f].bytes \in Nat /\ usage[f].bytes \in Nat
      BY <2>1 DEF Usages
    <2>7. /\ Cardinality(use[f].inspected) <= MaxInspected + missed[f]
          /\ Cardinality(use[f].modified) <= MaxModified + missed[f]
      BY <2>1, <2>2, <2>4 DEF Accounted, Fits
    <2>8. use[f].bytes <= usage[f].bytes + MaxBytes * missed[f] /\ usage[f].bytes <= MaxBytes
      BY <2>2 DEF Accounted, Fits
    <2>9. use[f].bytes <= MaxBytes + MaxBytes * missed[f]
      BY ONLY <2>1, <2>5, <2>6, <2>8
    <2> QED
      BY <2>5, <2>7, <2>9
  <1>2. IInv => EffectsWithinLimits
    BY <1>1 DEF EffectsWithinLimits
  <1> QED
    BY <1>2, Invariance, PTL
=============================================================================
