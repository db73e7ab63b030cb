---------------------------- MODULE TrialProcess ----------------------------
(***************************************************************************)
(* The trial process (controlled_trial_process): an owner process runs a   *)
(* programming session and publishes its state in a status file; clients   *)
(* in other processes read it and put commands in a command file, which    *)
(* the owner polls.  A heartbeat thread of the owner writes the status     *)
(* file too.  The owner may die at any moment, and any client may end the  *)
(* trial: kill the owner and remove the files.                             *)
(*                                                                         *)
(* Each file is replaced atomically, so a file is a variable; reading one, *)
(* judging what was read and writing are steps of their own.  A call that  *)
(* fails after its retries is an exception, which ends the owner.          *)
(*                                                                         *)
(* Abstracted: the session behind the owner, which may answer a command    *)
(* with any state it has (WorkflowEngine shows which), signatures, error   *)
(* codes, time stamps and identifiers that never change in a trial.        *)
(*                                                                         *)
(* Definitions whose comment starts with "Mutation" are not part of the    *)
(* model: each is the definition after it with a mistake, and some         *)
(* property must notice it.                                                *)
(***************************************************************************)
EXTENDS Naturals

CONSTANTS
    Clients,      \* the clients
    MaxCommands   \* bound on the commands that they send together

ASSUME BoundAssumption == MaxCommands \in Nat

VARIABLES
    pc,        \* where the owner's main thread is
    then,      \* where it goes after publishing
    current,   \* the owner's status: _Owner.current
    taken,     \* the command it has read
    beat,      \* what the heartbeat thread is about to write, under the lock
    done,      \* history: number of commands executed
    file,      \* the status file
    cmd,       \* the command file
    cleaned,   \* the trial was removed
    at,        \* at[c]: where client c is
    seen,      \* seen[c]: the status it read last
    draft,     \* draft[c]: the command that it is about to write
    sent       \* number of commands written

owner == <<pc, then, current, taken, beat, done>>
client == <<at, seen, draft, sent>>
vars == <<owner, file, cmd, cleaned, client>>

Final == {"completed", "failed", "rejected", "cancelled"}
Open == {"pending_plan", "awaiting_approval"}
States == Final \cup Open \cup {"none", "starting", "planning", "idle", "lost"}
Decisions == {"approve", "reject", "cancel"}

\* What a status says: the state, the request that awaits approval (numbered by the
\* command that led to it) and the last sequence executed.
Status(state, request, sequence) ==
    [state |-> state, request |-> request, sequence |-> sequence]
NoStatus == Status("none", 0, 0)

\* A command: a decision about the plan or the request of a status, under the next
\* sequence.
Command(status, decision) ==
    [decision |-> decision, state |-> status.state, request |-> status.request,
     sequence |-> status.sequence + 1]
NoCommand == Command(NoStatus, "none")

Init ==
    /\ pc = "boot" /\ then = "plan"
    /\ current = Status("starting", 0, 0)
    /\ taken = NoCommand /\ beat = NoStatus /\ done = 0
    /\ file = NoStatus /\ cmd = NoCommand /\ cleaned = FALSE
    /\ at = [c \in Clients |-> "idle"]
    /\ seen = [c \in Clients |-> NoStatus]
    /\ draft = [c \in Clients |-> NoCommand]
    /\ sent = 0

-----------------------------------------------------------------------------
(* The owner: run, publish, heartbeat.                                     *)

\* Mutation: without the lock.
PublishUnlocked(status, next) ==
    /\ current' = status
    /\ pc' = "write" /\ then' = next

\* publish takes the lock, which the heartbeat may hold, and sets the status ...
Publish(status, next) ==
    /\ beat = NoStatus
    /\ current' = status
    /\ pc' = "write" /\ then' = next

\* ... writes it and releases the lock.
Write ==
    /\ pc = "write"
    /\ file' = current
    /\ pc' = then
    /\ UNCHANGED <<then, current, taken, beat, done, cmd, cleaned, client>>

\* Nothing is published after the failure to publish a failure.
WriteFails ==
    /\ pc = "write"
    /\ pc' = IF then = "gone" THEN "gone" ELSE "fail"
    /\ UNCHANGED <<then, current, taken, beat, done, file, cmd, cleaned, client>>

Boot ==
    /\ pc = "boot"
    /\ Publish([current EXCEPT !.state = "planning"], "plan")
    /\ UNCHANGED <<taken, beat, done, file, cmd, cleaned, client>>

\* The session is given the request and makes a plan, or fails, or does not take a
\* blank one for a request.
Plan ==
    /\ pc = "plan"
    /\ \E state \in {"pending_plan", "failed", "idle"} :
          Publish([current EXCEPT !.state = state], "poll")
    /\ UNCHANGED <<taken, beat, done, file, cmd, cleaned, client>>

\* Mutation: the sender has validated it.
AcceptableIfSent(command) == command # NoCommand

\* _validate_command, by the owner's own status.
Acceptable(command) ==
    /\ command.sequence = current.sequence + 1
    /\ command.state = current.state /\ current.state \in Open
    /\ command.request = current.request

\* The command file is read and validated ...
Accept ==
    /\ pc = "poll" /\ cmd # NoCommand /\ Acceptable(cmd)
    /\ taken' = cmd
    /\ pc' = "delete"
    /\ UNCHANGED <<then, current, beat, done, file, cmd, cleaned, client>>

\* ... or it is not acceptable, or cannot be read now.
Refuse ==
    /\ pc = "poll" /\ cmd # NoCommand
    /\ pc' = "discard"
    /\ UNCHANGED <<then, current, taken, beat, done, file, cmd, cleaned, client>>

\* Mutation: the command stays, to be read again.
DiscardKeepsFile ==
    /\ pc = "discard"
    /\ Publish(current, "poll")
    /\ UNCHANGED <<taken, beat, done, file, cmd, cleaned, client>>

\* It is deleted, whatever the file holds by now, and the refusal published.
Discard ==
    /\ pc = "discard"
    /\ cmd' = NoCommand
    /\ Publish(current, "poll")
    /\ UNCHANGED <<taken, beat, done, file, cleaned, client>>

Delete ==
    /\ pc = "delete"
    /\ cmd' = NoCommand
    /\ pc' = "execute"
    /\ UNCHANGED <<then, current, taken, beat, done, file, cleaned, client>>

\* The states that the session may answer a decision with; it corrects a red test, or
\* gives the correction up, before it answers.
Outcomes(command) ==
    IF command.state = "awaiting_approval"
    THEN {"awaiting_approval", "completed", "failed", "cancelled"}
    ELSE CASE command.decision = "approve" -> {"awaiting_approval", "completed", "failed"}
           [] command.decision = "reject" -> {"rejected"}
           [] OTHER -> {"cancelled"}

\* The session answers with a new state, or refuses and stays as it was, at most
\* without the request.
Execute ==
    /\ pc = "execute"
    /\ done' = done + 1
    /\ \/ \E state \in Outcomes(taken) :
             Publish(Status(state, IF state \in Open THEN done + 1 ELSE 0, taken.sequence),
                     "settle")
       \/ \E request \in {current.request, 0} :
             Publish(Status(current.state, request, taken.sequence), "settle")
    /\ UNCHANGED <<taken, beat, file, cmd, cleaned, client>>

Settle ==
    /\ pc = "settle"
    /\ pc' = IF current.state \in Final THEN "gone" ELSE "poll"
    /\ UNCHANGED <<then, current, taken, beat, done, file, cmd, cleaned, client>>

\* Nothing to do, and nothing left to do.
End ==
    /\ pc = "poll" /\ cmd = NoCommand /\ current.state \in Final
    /\ pc' = "gone"
    /\ UNCHANGED <<then, current, taken, beat, done, file, cmd, cleaned, client>>

\* An exception: starting the session, deleting the command file, or writing the
\* evidence of a command that was executed.
Raise ==
    /\ pc \in {"boot", "plan", "discard", "delete", "execute"}
    /\ pc' = "fail"
    /\ done' = IF pc = "execute" THEN done + 1 ELSE done
    /\ UNCHANGED <<then, current, taken, beat, file, cmd, cleaned, client>>

Fail ==
    /\ pc = "fail"
    /\ Publish([current EXCEPT !.state = "failed"], "gone")
    /\ UNCHANGED <<taken, beat, done, file, cmd, cleaned, client>>

\* heartbeat takes the lock while the session is planning ...
BeatStart ==
    /\ pc \in {"plan", "fail"} /\ beat = NoStatus /\ current.state = "planning"
    /\ beat' = current
    /\ UNCHANGED <<pc, then, current, taken, done, file, cmd, cleaned, client>>

\* ... writes the status, or fails to, and releases the lock.
BeatWrite ==
    /\ beat # NoStatus
    /\ file' \in {beat, file}
    /\ beat' = NoStatus
    /\ UNCHANGED <<pc, then, current, taken, done, cmd, cleaned, client>>

\* The owner is killed, by anyone and anywhere.
Crash ==
    /\ pc # "gone"
    /\ pc' = "gone" /\ beat' = NoStatus
    /\ UNCHANGED <<then, current, taken, done, file, cmd, cleaned, client>>

-----------------------------------------------------------------------------
(* The clients: status, command, terminate_and_cleanup.                    *)

Ready(c) == ~cleaned /\ at[c] \in {"idle", "ready"}

\* status reads the file, whose states do not include "idle" ...
Look(c) ==
    /\ Ready(c) /\ file.state # "idle"
    /\ seen' = [seen EXCEPT ![c] = file]
    /\ at' = [at EXCEPT ![c] = "looked"]
    /\ UNCHANGED <<owner, file, cmd, cleaned, draft, sent>>

\* Mutation: an owner that shows no heartbeat is taken for dead.
OwnerIsGoneWhenSilent == pc \in {"gone", "poll"}

\* _is_alive.
OwnerIsGone == pc = "gone"

\* ... then asks whether the owner is alive: if it is, or had ended, this is its state;
\* without a file there is none yet.
Judge(c) ==
    /\ ~cleaned /\ at[c] = "looked"
    /\ ~OwnerIsGone \/ seen[c].state \in Final \cup {"lost"}
    /\ at' = [at EXCEPT ![c] = IF seen[c] = NoStatus THEN "idle" ELSE "ready"]
    /\ UNCHANGED <<owner, file, cmd, cleaned, seen, draft, sent>>

\* An owner that died is declared lost, in the status that was read.
DeclareLost(c) ==
    /\ ~cleaned /\ at[c] = "looked"
    /\ OwnerIsGone /\ seen[c].state \notin Final \cup {"lost"}
    /\ file' = [seen[c] EXCEPT !.state = "lost"]
    /\ seen' = [seen EXCEPT ![c] = file']
    /\ at' = [at EXCEPT ![c] = "ready"]
    /\ UNCHANGED <<owner, cmd, cleaned, draft, sent>>

\* command: a decision about the status just read, if no command is waiting ...
Decide(c, decision) ==
    /\ ~cleaned /\ at[c] = "ready" /\ seen[c].state \in Open
    /\ cmd = NoCommand /\ sent < MaxCommands
    /\ draft' = [draft EXCEPT ![c] = Command(seen[c], decision)]
    /\ at' = [at EXCEPT ![c] = "send"]
    /\ sent' = sent + 1
    /\ UNCHANGED <<owner, file, cmd, cleaned, seen>>

\* ... is put in place by a rename, which where rename replaces (POSIX) may meet a
\* command that came in between.
Send(c) ==
    /\ ~cleaned /\ at[c] = "send"
    /\ cmd' = draft[c]
    /\ draft' = [draft EXCEPT ![c] = NoCommand]
    /\ at' = [at EXCEPT ![c] = "idle"]
    /\ UNCHANGED <<owner, file, cleaned, seen, sent>>

\* Where it does not (Windows), the call fails.
SendRefused(c) ==
    /\ ~cleaned /\ at[c] = "send" /\ cmd # NoCommand
    /\ draft' = [draft EXCEPT ![c] = NoCommand]
    /\ at' = [at EXCEPT ![c] = "idle"]
    /\ UNCHANGED <<owner, file, cmd, cleaned, seen, sent>>

\* terminate_and_cleanup reads the status as Look does, kills the owner and removes all.
CleanUp(c) ==
    /\ Ready(c) /\ file.state # "idle"
    /\ pc' = "gone" /\ beat' = NoStatus
    /\ file' = NoStatus /\ cmd' = NoCommand
    /\ cleaned' = TRUE
    /\ UNCHANGED <<then, current, taken, done, client>>

-----------------------------------------------------------------------------
Owner ==
    \/ Boot \/ Plan \/ Accept \/ Refuse \/ Discard \/ Delete \/ Execute \/ Settle
    \/ End \/ Raise \/ Fail \/ Write \/ WriteFails

ClientStep(c) ==
    \/ Look(c) \/ Judge(c) \/ DeclareLost(c) \/ Send(c) \/ SendRefused(c) \/ CleanUp(c)
    \/ \E decision \in Decisions : Decide(c, decision)

Next == Owner \/ BeatStart \/ BeatWrite \/ Crash \/ \E c \in Clients : ClientStep(c)

Spec == Init /\ [][Next]_vars

\* The owner's threads run as long as the process lives; clients do as they like.
FairSpec == Spec /\ WF_vars(Owner) /\ WF_vars(BeatWrite)

-----------------------------------------------------------------------------
(* Properties.                                                             *)

Statuses == [state : States, request : 0..MaxCommands, sequence : 0..MaxCommands]
Commands == [decision : Decisions \cup {"none"}, state : States,
             request : 0..MaxCommands, sequence : 1..(MaxCommands + 1)]

\* Type of the state.
TypeOK ==
    /\ pc \in {"boot", "plan", "poll", "discard", "delete", "execute", "settle",
               "write", "fail", "gone"}
    /\ then \in {"plan", "poll", "settle", "gone"}
    /\ current \in Statuses /\ beat \in Statuses /\ file \in Statuses
    /\ taken \in Commands /\ cmd \in Commands
    /\ cleaned \in BOOLEAN
    /\ done \in 0..MaxCommands /\ sent \in 0..MaxCommands
    /\ at \in [Clients -> {"idle", "looked", "ready", "send"}]
    /\ seen \in [Clients -> Statuses]
    /\ draft \in [Clients -> Commands]

\* While the owner polls or acts, the file says what it is in, and the sequence says
\* how many commands were executed: no write of the heartbeat thread or of a client
\* comes in between.
StatusIsCurrent ==
    pc \in {"plan", "poll", "discard", "delete", "execute", "settle"} =>
        file = current /\ done = current.sequence

\* A trial is declared lost only when the owner is gone: a status that a client judges
\* is older than the judgement.
LostMeansGone == file.state = "lost" => pc = "gone"

\* What is executed was decided by someone who had seen the owner in the very state and
\* request it is in, after every command before it: no command is executed twice, late,
\* or on top of another client's.
DecidedAsShown ==
    [][ done' # done => /\ taken.state = current.state /\ taken.request = current.request
                        /\ taken.sequence = done' ]_vars

\* A command in the file is taken out, executed or not, unless the owner dies.
CommandIsConsumed == cmd # NoCommand ~> cmd = NoCommand \/ pc = "gone"

\* The owner is never left polling for nothing: a state in which no command is accepted
\* is one in which it ends.
OwnerNeverSpins == pc = "poll" => current.state \in Open \cup Final
=============================================================================
