------------------------- MODULE TrialProcessProofs -------------------------
(***************************************************************************)
(* Proofs about the trial process, for any clients and any number of       *)
(* commands.                                                               *)
(*                                                                         *)
(* IInv is inductive.  Besides the properties to be proved it says what    *)
(* excludes the heartbeat from a change of the status, what the owner may  *)
(* rely on between accepting a command and executing it, and that no       *)
(* sequence is ahead of the commands that were sent.                       *)
(***************************************************************************)
EXTENDS TrialProcess, TLAPS

\* The heartbeat holds the lock only between two statuses, and writes the current one.
LockExcludes == beat # NoStatus => pc \in {"plan", "fail"} /\ beat = current

\* What is being written counts the commands executed, but after an exception.
WriteIsCurrent ==
    /\ pc = "write" /\ then # "gone" => done = current.sequence
    /\ pc = "boot" => done = current.sequence

\* The owner itself never says that it is lost.
OwnerIsNotLost == current.state # "lost"

\* The command that was accepted fits the status until it is executed.
TakenFits ==
    pc \in {"delete", "execute"} =>
        /\ taken.sequence = current.sequence + 1 /\ taken.sequence <= sent
        /\ taken.state = current.state /\ taken.request = current.request

\* No sequence is ahead of the commands sent.
NotAhead ==
    /\ current.sequence <= done /\ done <= sent
    /\ file.sequence <= sent
    /\ \A c \in Clients : seen[c].sequence <= sent
    /\ \A c \in Clients : at[c] = "send" => draft[c].sequence <= sent
    /\ cmd # NoCommand => cmd.sequence <= sent

IInv ==
    /\ TypeOK /\ StatusIsCurrent /\ LostMeansGone
    /\ LockExcludes /\ WriteIsCurrent /\ OwnerIsNotLost /\ TakenFits /\ NotAhead

\* The values of files have their types.
LEMMA EmptyFiles == NoStatus \in Statuses /\ NoCommand \in Commands
  BY BoundAssumption DEF NoStatus, NoCommand, Status, Command, Statuses, Commands, States,
     Final, Open

\* Initially the invariant holds.
LEMMA InitInvariant == Init => IInv
  <1> SUFFICES ASSUME Init PROVE IInv
    OBVIOUS
  <1>1. Status("starting", 0, 0) \in Statuses
    BY BoundAssumption DEF Status, Statuses, States
  <1>2. TypeOK
    <2>1. /\ at \in [Clients -> {"idle", "looked", "ready", "send"}]
          /\ seen \in [Clients -> Statuses] /\ draft \in [Clients -> Commands]
      BY EmptyFiles DEF Init
    <2>2. current \in Statuses /\ beat \in Statuses /\ file \in Statuses
          /\ taken \in Commands /\ cmd \in Commands
      BY <1>1, EmptyFiles DEF Init
    <2>3. done \in 0..MaxCommands /\ sent \in 0..MaxCommands
      BY BoundAssumption DEF Init
    <2> QED
      BY <2>1, <2>2, <2>3 DEF Init, TypeOK
  <1> QED
    BY <1>2 DEF Init, IInv, StatusIsCurrent, LostMeansGone, LockExcludes, WriteIsCurrent,
       OwnerIsNotLost, TakenFits, NotAhead, NoStatus, Status

\* A step of the owner that publishes nothing keeps the invariant.
LEMMA OwnerQuietInvariant ==
    IInv /\ (Write \/ WriteFails \/ Accept \/ Refuse \/ Delete \/ Settle \/ End \/ Raise)
        => IInv'
  <1> SUFFICES ASSUME IInv,
                      Write \/ WriteFails \/ Accept \/ Refuse \/ Delete \/ Settle \/ End
                          \/ Raise
               PROVE  IInv'
    OBVIOUS
  <1> USE EmptyFiles, BoundAssumption DEF IInv, TypeOK, StatusIsCurrent, LostMeansGone,
      LockExcludes, WriteIsCurrent, OwnerIsNotLost, TakenFits, NotAhead, owner, client
  <1>1. CASE Write
    <2>1. current.sequence \in Nat /\ done \in Nat /\ sent \in Nat
      BY DEF Statuses
    <2> QED
      BY <1>1, <2>1 DEF Write
  <1>2. CASE WriteFails
    BY <1>2 DEF WriteFails
  <1>3. CASE Accept
    BY <1>3 DEF Accept, Acceptable
  <1>4. CASE Refuse
    BY <1>4 DEF Refuse
  <1>5. CASE Delete
    BY <1>5 DEF Delete
  <1>6. CASE Settle
    BY <1>6 DEF Settle
  <1>7. CASE End
    BY <1>7 DEF End
  <1>8. CASE Raise
    BY <1>8 DEF Raise
  <1> QED
    BY <1>1, <1>2, <1>3, <1>4, <1>5, <1>6, <1>7, <1>8

\* A status with a new state, request and sequence is a status.
LEMMA StatusType ==
    ASSUME NEW state \in States, NEW r \in 0..MaxCommands, NEW n \in 0..MaxCommands
    PROVE  /\ Status(state, r, n) \in Statuses
           /\ Status(state, r, n).state = state
           /\ Status(state, r, n).request = r
           /\ Status(state, r, n).sequence = n
  BY DEF Status, Statuses

\* A status with another state is a status.
LEMMA StateType ==
    ASSUME NEW s \in Statuses, NEW state \in States
    PROVE  /\ [s EXCEPT !.state = state] \in Statuses
           /\ [s EXCEPT !.state = state].state = state
           /\ [s EXCEPT !.state = state].sequence = s.sequence
  BY DEF Statuses

\* Publishing keeps the invariant if the new status counts the commands executed so far,
\* or the owner goes.
LEMMA PublishInvariant ==
    ASSUME IInv,
           NEW status \in Statuses, status.state # "lost",
           NEW next \in {"plan", "poll", "settle", "gone"},
           Publish(status, next),
           pc # "gone",
           done' \in done..sent, status.sequence <= done',
           next # "gone" => status.sequence = done',
           cmd' \in {cmd, NoCommand},
           UNCHANGED <<taken, beat, file, cleaned, client>>
    PROVE  IInv'
  <1>1. sent' = sent /\ seen' = seen /\ at' = at /\ draft' = draft
    BY DEF client
  <1>2. TypeOK'
    <2>1. done' \in 0..MaxCommands
      BY BoundAssumption DEF IInv, TypeOK
    <2>2. pc' = "write" /\ then' = next /\ current' = status
      BY DEF Publish
    <2> QED
      BY <1>1, <2>1, <2>2, EmptyFiles DEF IInv, TypeOK
  <1>3. NotAhead'
    BY <1>1 DEF IInv, NotAhead, Publish
  <1> QED
    BY <1>1, <1>2, <1>3 DEF IInv, StatusIsCurrent, LostMeansGone, LockExcludes,
       WriteIsCurrent, OwnerIsNotLost, TakenFits, Publish

\* The answers of the session are states that the owner may publish.
LEMMA OutcomeType ==
    ASSUME NEW command
    PROVE  Outcomes(command) \subseteq States \ {"lost"}
  BY DEF Outcomes, States, Final, Open

\* A step of the owner that publishes keeps the invariant.
LEMMA OwnerPublishInvariant ==
    IInv /\ (Boot \/ Plan \/ Discard \/ Execute \/ Fail) => IInv'
  <1> SUFFICES ASSUME IInv, Boot \/ Plan \/ Discard \/ Execute \/ Fail PROVE IInv'
    OBVIOUS
  <1>0. /\ current \in Statuses /\ current.state \in States \ {"lost"}
        /\ current.sequence \in Nat /\ current.sequence <= done
        /\ done \in Nat /\ sent \in Nat /\ done <= sent
        /\ done \in done..sent
    BY BoundAssumption DEF IInv, TypeOK, OwnerIsNotLost, NotAhead, Statuses
  <1>1. CASE Boot
    <2>1. done = current.sequence
      BY <1>1 DEF Boot, IInv, WriteIsCurrent
    <2>2. [current EXCEPT !.state = "planning"] \in Statuses
          /\ [current EXCEPT !.state = "planning"].state = "planning"
          /\ [current EXCEPT !.state = "planning"].sequence = current.sequence
      BY <1>0, StateType DEF States
    <2> QED
      BY <1>0, <1>1, <2>1, <2>2, PublishInvariant DEF Boot
  <1>2. CASE Plan
    <2>1. PICK state \in {"pending_plan", "failed", "idle"} :
             Publish([current EXCEPT !.state = state], "poll")
      BY <1>2 DEF Plan
    <2>2. [current EXCEPT !.state = state] \in Statuses
          /\ [current EXCEPT !.state = state].state = state
          /\ [current EXCEPT !.state = state].sequence = current.sequence
      BY <1>0, StateType DEF States, Final, Open
    <2>3. done = current.sequence
      BY <1>2 DEF Plan, IInv, StatusIsCurrent
    <2> QED
      BY <1>0, <1>2, <2>1, <2>2, <2>3, PublishInvariant DEF Plan
  <1>3. CASE Discard
    <2>1. done = current.sequence
      BY <1>3 DEF Discard, IInv, StatusIsCurrent
    <2> QED
      BY <1>0, <1>3, <2>1, PublishInvariant DEF Discard
  <1>4. CASE Execute
    <2>1. done = current.sequence /\ taken.sequence = done + 1 /\ taken.sequence <= sent
      BY <1>4 DEF Execute, IInv, StatusIsCurrent, TakenFits
    <2>2. /\ done' = done + 1 /\ done' \in done..sent /\ taken.sequence = done'
          /\ done' \in 0..MaxCommands /\ current.request \in 0..MaxCommands
      BY <1>0, <1>4, <2>1, BoundAssumption DEF Execute, IInv, TypeOK, Statuses
    <2>3. ASSUME NEW state \in Outcomes(taken),
                 Publish(Status(state, IF state \in Open THEN done + 1 ELSE 0,
                                taken.sequence), "settle")
          PROVE  IInv'
      <3> DEFINE request == IF state \in Open THEN done' ELSE 0
                 status == Status(state, request, done')
      <3>1. state \in States \ {"lost"} /\ request \in 0..MaxCommands
        BY <2>2, <2>3, OutcomeType, BoundAssumption
      <3>2. status \in Statuses /\ status.state # "lost" /\ status.sequence = done'
        BY <2>2, <3>1, StatusType
      <3>3. Publish(status, "settle")
        BY <2>2, <2>3
      <3> HIDE DEF status
      <3> QED
        BY <1>4, <2>2, <3>2, <3>3, PublishInvariant DEF Execute
    <2>4. ASSUME NEW request \in {current.request, 0},
                 Publish(Status(current.state, request, taken.sequence), "settle")
          PROVE  IInv'
      <3> DEFINE status == Status(current.state, request, done')
      <3>1. request \in 0..MaxCommands
        BY <2>2, <2>4, BoundAssumption
      <3>2. status \in Statuses /\ status.state # "lost" /\ status.sequence = done'
        BY <1>0, <2>2, <3>1, StatusType
      <3>3. Publish(status, "settle")
        BY <2>2, <2>4
      <3> HIDE DEF status
      <3> QED
        BY <1>4, <2>2, <3>2, <3>3, PublishInvariant DEF Execute
    <2> QED
      BY <1>4, <2>3, <2>4 DEF Execute
  <1>5. CASE Fail
    <2>1. [current EXCEPT !.state = "failed"] \in Statuses
          /\ [current EXCEPT !.state = "failed"].state = "failed"
          /\ [current EXCEPT !.state = "failed"].sequence = current.sequence
      BY <1>0, StateType DEF States, Final
    <2> QED
      BY <1>0, <1>5, <2>1, PublishInvariant DEF Fail
  <1> QED
    BY <1>1, <1>2, <1>3, <1>4, <1>5

\* The heartbeat, and the end of the owner, keep the invariant.
LEMMA BeatInvariant == IInv /\ (BeatStart \/ BeatWrite \/ Crash) => IInv'
  <1> SUFFICES ASSUME IInv, BeatStart \/ BeatWrite \/ Crash PROVE IInv'
    OBVIOUS
  <1> USE EmptyFiles, BoundAssumption DEF IInv, TypeOK, StatusIsCurrent, LostMeansGone,
      LockExcludes, WriteIsCurrent, OwnerIsNotLost, TakenFits, NotAhead, owner, client
  <1>0. current.sequence \in Nat /\ done \in Nat /\ sent \in Nat
    BY DEF Statuses
  <1>1. CASE BeatStart
    BY <1>1 DEF BeatStart
  <1>2. CASE BeatWrite
    BY <1>0, <1>2 DEF BeatWrite
  <1>3. CASE Crash
    BY <1>3 DEF Crash
  <1> QED
    BY <1>1, <1>2, <1>3

\* A step of a client keeps the invariant.
LEMMA ClientInvariant == ASSUME IInv, NEW c \in Clients, ClientStep(c) PROVE IInv'
  <1> USE EmptyFiles, BoundAssumption DEF IInv, TypeOK, StatusIsCurrent, LostMeansGone,
      LockExcludes, WriteIsCurrent, OwnerIsNotLost, TakenFits, NotAhead, owner, client
  <1>0. /\ seen[c] \in Statuses /\ draft[c] \in Commands
        /\ seen[c].sequence \in Nat /\ file.sequence \in Nat /\ sent \in Nat
    BY DEF Statuses
  <1>1. CASE Look(c)
    BY <1>0, <1>1 DEF Look
  <1>2. CASE Judge(c)
    BY <1>0, <1>2 DEF Judge
  <1>3. CASE DeclareLost(c)
    <2>1. file' \in Statuses /\ file'.sequence = seen[c].sequence
      BY <1>0, <1>3, StateType DEF DeclareLost, States
    <2> QED
      BY <1>0, <1>3, <2>1 DEF DeclareLost, OwnerIsGone
  <1>4. CASE Send(c)
    BY <1>0, <1>4 DEF Send
  <1>5. CASE SendRefused(c)
    BY <1>0, <1>5 DEF SendRefused
  <1>6. CASE CleanUp(c)
    BY <1>0, <1>6 DEF CleanUp, NoStatus, Status
  <1>7. ASSUME NEW decision \in Decisions, Decide(c, decision) PROVE IInv'
    <2>1. /\ Command(seen[c], decision) \in Commands
          /\ Command(seen[c], decision).sequence = seen[c].sequence + 1
      BY <1>0 DEF Command, Commands, Statuses
    <2>2. sent' = sent + 1 /\ sent' \in 0..MaxCommands
      BY <1>0, <1>7 DEF Decide
    <2>3. TypeOK'
      BY <1>0, <1>7, <2>1, <2>2 DEF Decide
    <2>4. NotAhead'
      BY <1>0, <1>7, <2>1, <2>2 DEF Decide, Statuses, Commands
    <2> QED
      BY <1>0, <1>7, <2>2, <2>3, <2>4 DEF Decide, Commands
  <1> QED
    BY <1>1, <1>2, <1>3, <1>4, <1>5, <1>6, <1>7 DEF ClientStep

\* Every step keeps the invariant.
LEMMA StepInvariant == IInv /\ [Next]_vars => IInv'
  <1> SUFFICES ASSUME IInv, [Next]_vars PROVE IInv'
    OBVIOUS
  <1>1. CASE Owner
    BY <1>1, OwnerQuietInvariant, OwnerPublishInvariant DEF Owner
  <1>2. CASE BeatStart \/ BeatWrite \/ Crash
    BY <1>2, BeatInvariant
  <1>3. ASSUME NEW c \in Clients, ClientStep(c) PROVE IInv'
    BY <1>3, ClientInvariant
  <1>4. CASE UNCHANGED vars
    BY <1>4 DEF vars, owner, client, IInv, TypeOK, StatusIsCurrent, LostMeansGone,
       LockExcludes, WriteIsCurrent, OwnerIsNotLost, TakenFits, NotAhead
  <1> QED
    BY <1>1, <1>2, <1>3, <1>4 DEF Next

\* The inductive invariant holds in every reachable state.
THEOREM Invariance == Spec => []IInv
  BY InitInvariant, StepInvariant, PTL DEF Spec

\* The state has its types.
THEOREM TypeCorrect == Spec => []TypeOK
  <1>1. IInv => TypeOK
    BY DEF IInv
  <1> QED
    BY <1>1, Invariance, PTL

\* The status file never lags behind an owner that polls or acts.
THEOREM FileIsCurrent == Spec => []StatusIsCurrent
  <1>1. IInv => StatusIsCurrent
    BY DEF IInv
  <1> QED
    BY <1>1, Invariance, PTL

\* A trial that is declared lost has no owner.
THEOREM LostIsGone == Spec => []LostMeansGone
  <1>1. IInv => LostMeansGone
    BY DEF IInv
  <1> QED
    BY <1>1, Invariance, PTL

\* Only Execute, and an exception of its, count a command; the accepted one is then still
\* what the status says.
THEOREM CommandsAreCurrent == Spec => DecidedAsShown
  <1>1. IInv /\ [Next]_vars =>
           [ done' # done => /\ taken.state = current.state
                             /\ taken.request = current.request
                             /\ taken.sequence = done' ]_vars
    <2> SUFFICES ASSUME IInv, [Next]_vars, done' # done
                 PROVE  /\ taken.state = current.state /\ taken.request = current.request
                        /\ taken.sequence = done'
      OBVIOUS
    <2>1. pc = "execute" /\ done' = done + 1
      BY DEF Next, Owner, ClientStep, vars, owner, client, Boot, Plan, Accept, Refuse,
         Discard, Delete, Execute, Settle, End, Raise, Fail, Write, WriteFails, BeatStart,
         BeatWrite, Crash, Look, Judge, DeclareLost, Send, SendRefused, CleanUp, Decide
    <2> QED
      BY <2>1 DEF IInv, StatusIsCurrent, TakenFits
  <1> QED
    BY <1>1, Invariance, PTL DEF Spec, DecidedAsShown
-----------------------------------------------------------------------------
(* What makes CommandIsConsumed hold, but for fairness.                    *)

\* How many steps of its own the owner's main thread still takes at most until it has dealt
\* with a command that is in the file.
StepsLeft ==
    CASE pc = "gone" -> 0
      [] pc = "fail" -> 2
      [] pc \in {"delete", "discard"} -> 3
      [] pc = "poll" -> 4
      [] pc = "settle" -> 5
      [] pc = "plan" -> 6
      [] pc = "execute" -> 7
      [] pc = "boot" -> 8
      [] pc = "write" -> CASE then = "gone" -> 1
                           [] then = "poll" -> 5
                           [] then = "settle" -> 6
                           [] then = "plan" -> 7

\* While a command waits, every step of the owner's main thread brings it nearer to its end,
\* and what the heartbeat and the clients do does not put it off: the owner reads the file
\* again only after it has emptied it (_Owner.run).
CommandsWaitBriefly ==
    [][ cmd # NoCommand /\ cmd' # NoCommand =>
          \/ StepsLeft' < StepsLeft
          \/ UNCHANGED <<pc, then, current, taken, done>> ]_vars

\* The owner's main thread has a step left as long as the process lives.
LEMMA StepsLeftType == TypeOK => StepsLeft \in 0..8 /\ (pc # "gone" => StepsLeft > 0)
  BY DEF TypeOK, StepsLeft

\* A command is dealt with after eight steps of the owner's main thread, at the latest, from
\* wherever that is when the command comes (_Owner.run): CommandIsConsumed, given that its
\* steps are taken.
THEOREM CommandsDoNotWaitLong ==
    Spec => [](StepsLeft \in 0..8 /\ (pc # "gone" => StepsLeft > 0)) /\ CommandsWaitBriefly
  <1> DEFINE Briefly == \/ StepsLeft' < StepsLeft
                        \/ UNCHANGED <<pc, then, current, taken, done>>
  <1>1. IInv /\ [Next]_vars => [cmd # NoCommand /\ cmd' # NoCommand => Briefly]_vars
    <2> SUFFICES ASSUME IInv, Next, cmd # NoCommand, cmd' # NoCommand PROVE Briefly
      OBVIOUS
    <2>0. then \in {"plan", "poll", "settle", "gone"}
      BY DEF IInv, TypeOK
    <2>1. CASE Boot \/ Plan \/ Execute \/ Fail
      BY <2>1 DEF Boot, Plan, Execute, Fail, Publish, StepsLeft
    <2>2. CASE Accept \/ Refuse \/ Discard \/ Delete \/ End
      BY <2>2 DEF Accept, Refuse, Discard, Delete, End, StepsLeft
    <2>3. CASE Settle
      BY <2>3 DEF Settle, StepsLeft
    <2>4. CASE Raise
      BY <2>4 DEF Raise, StepsLeft
    <2>5. CASE Write \/ WriteFails
      BY <2>0, <2>5 DEF Write, WriteFails, StepsLeft
    <2>6. CASE Crash
      <3>1. StepsLeft > 0
        BY <2>6, StepsLeftType DEF Crash, IInv
      <3> QED
        BY <2>6, <3>1 DEF Crash, StepsLeft
    <2>7. CASE BeatStart \/ BeatWrite
      BY <2>7 DEF BeatStart, BeatWrite
    <2>8. ASSUME NEW c \in Clients, ClientStep(c) PROVE Briefly
      BY <2>8 DEF ClientStep, Look, Judge, DeclareLost, Decide, Send, SendRefused, CleanUp, owner
    <2> QED
      BY <2>1, <2>2, <2>3, <2>4, <2>5, <2>6, <2>7, <2>8 DEF Next, Owner
  <1> QED
    BY <1>1, StepsLeftType, TypeCorrect, Invariance, PTL DEF Spec, CommandsWaitBriefly
=============================================================================
