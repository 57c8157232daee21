----------------------------- MODULE AppServer -----------------------------
(***************************************************************************)
(* The conversation with the installed command line that a live quota      *)
(* reading comes from (quota_live.rs).                                     *)
(*                                                                         *)
(* A client starts the command line, and a thread of its own reads the     *)
(* pipe into a channel; three requests follow, in lockstep: initialize,    *)
(* the account, its rate limits.  What the command line says is arbitrary. *)
(***************************************************************************)
EXTENDS Absent, Integers, Sequences, FiniteSets

CONSTANTS Clients, ApprovedAccount, OtherAccount,
          MaxReaders,   \* MAX_READERS
          MaxMessages,  \* MAX_MESSAGES
          MaxSaid       \* bound: messages in the channel at once

ASSUME ReadersAssumption == IsFiniteSet(Clients) /\ MaxReaders \in Nat

VARIABLES client, child, readers, account

serverVars == <<client, child, readers, account>>

\* client: what a request is waiting for and made of its answers; child: what the command
\* line has still to say, and whether its process and its pipe reader live.
NoClient == [phase |-> "idle", asked |-> 0, received |-> 0, reading |-> None, error |-> None]
NoChild == [alive |-> FALSE, reader |-> FALSE, said |-> << >>]

ServerInit ==
    /\ client = [c \in Clients |-> NoClient]
    /\ child = [c \in Clients |-> NoChild]
    /\ readers = 0
    /\ account = ApprovedAccount

Fails(c, why) == [client EXCEPT ![c] = [NoClient EXCEPT !.phase = "failed", !.error = why]]

\* Dropping AppServer kills the process; its pipe reader ends when it notices.
Killed(c) == [child EXCEPT ![c].alive = FALSE, ![c].said = << >>]

\* A bug: the readers are counted only after the process was started.
PermitAfterwards == readers <= MaxReaders

Permit == readers < MaxReaders

\* read_codex_quota, AppServer::spawn
Spawn(c) ==
    /\ client[c].phase = "idle" /\ ~child[c].reader
    /\ IF Permit
       THEN \/ /\ client' = [client EXCEPT ![c] = [NoClient EXCEPT !.phase = "initialize", !.asked = 1]]
               /\ child' = [child EXCEPT ![c] = [alive |-> TRUE, reader |-> TRUE, said |-> << >>]]
               /\ readers' = readers + 1
            \/ client' = Fails(c, "offline") /\ UNCHANGED <<child, readers>>
       ELSE client' = Fails(c, "launch_failed") /\ UNCHANGED <<child, readers>>
    /\ UNCHANGED account

\* The command line answers the request it was last sent, notifies, answers
\* another one, says something that is no message, or closes its output.
Says(c, message) ==
    /\ child[c].alive /\ child[c].reader /\ Len(child[c].said) < MaxSaid
    /\ child' = [child EXCEPT ![c].said = Append(@, message)]
    /\ UNCHANGED <<client, readers, account>>

Speak(c) ==
    \/ \E id \in {client[c].asked - 1, client[c].asked} :
         \E result \in {"ok", "error"} : Says(c, [kind |-> result, id |-> id, account |-> account])
    \/ \E kind \in {"notification", "garbage"} : Says(c, [kind |-> kind, id |-> 0, account |-> None])

\* The reader thread ends: the output is closed, or nobody listens any more.
ReaderEnds(c) ==
    /\ child[c].reader
    /\ child' = [child EXCEPT ![c].reader = FALSE]
    /\ readers' = readers - 1
    /\ UNCHANGED <<client, account>>

Waiting(c) == client[c].phase \in {"initialize", "account", "rates"}

Steps == [initialize |-> "account", account |-> "rates", rates |-> "done"]

\* A bug: whatever account the limits are of, the reading is kept.
AnyRates(c, message) == TRUE

\* The account whose limits were read is the approved one.
ApprovedRates(c, message) == message.account = ApprovedAccount

\* What a matching answer makes of the request that waits for it.
Accept(c, message) ==
    LET phase == client[c].phase
    IN  IF phase = "account" /\ message.account # ApprovedAccount
        THEN client' = Fails(c, "account_changed") /\ child' = Killed(c)
        ELSE IF phase = "rates"
        THEN /\ client' = IF ApprovedRates(c, message)
                          THEN [client EXCEPT ![c].phase = "done", ![c].reading = message.account]
                          ELSE Fails(c, "account_changed")
             /\ child' = Killed(c)
        ELSE /\ client' = [client EXCEPT ![c].phase = Steps[phase], ![c].asked = @ + 1, ![c].received = @ + 1]
             /\ child' = [child EXCEPT ![c].said = Tail(@)]

\* request: one turn of its loop.
Receive(c) ==
    /\ Waiting(c) /\ child[c].said # << >>
    /\ LET message == Head(child[c].said)
       IN  IF client[c].received + 1 > MaxMessages
           THEN client' = Fails(c, "protocol_mismatch") /\ child' = Killed(c)
           ELSE IF message.kind = "notification"
           THEN /\ client' = [client EXCEPT ![c].received = @ + 1]
                /\ child' = [child EXCEPT ![c].said = Tail(@)]
           ELSE IF message.kind = "garbage" \/ message.id # client[c].asked
           THEN client' = Fails(c, "protocol_mismatch") /\ child' = Killed(c)
           ELSE IF message.kind = "error"
           THEN client' = Fails(c, "provider_error") /\ child' = Killed(c)
           ELSE Accept(c, message)
    /\ UNCHANGED <<readers, account>>

\* The pipe is closed with nothing left to read, or the deadline passes.
Disconnected(c) ==
    /\ Waiting(c) /\ child[c].said = << >> /\ ~child[c].reader
    /\ client' = Fails(c, "provider_outage") /\ child' = Killed(c)
    /\ UNCHANGED <<readers, account>>
Timeout(c) ==
    /\ Waiting(c)
    /\ client' = Fails(c, "timeout") /\ child' = Killed(c)
    /\ UNCHANGED <<readers, account>>

\* The caller takes the result, and may ask again.
Return(c) ==
    /\ client[c].phase \in {"done", "failed"}
    /\ client' = [client EXCEPT ![c] = NoClient]
    /\ UNCHANGED <<child, readers, account>>

\* The user logs in to another account.
SwitchAccount ==
    /\ account' = IF account = ApprovedAccount THEN OtherAccount ELSE ApprovedAccount
    /\ UNCHANGED <<client, child, readers>>

ServerNext ==
    \/ \E c \in Clients : Spawn(c) \/ Speak(c) \/ ReaderEnds(c) \/ Receive(c)
                          \/ Disconnected(c) \/ Timeout(c) \/ Return(c)
    \/ SwitchAccount

ConversationSpec == ServerInit /\ [][ServerNext]_serverVars

\* A reading is only ever of the approved account, although the login changes
\* between the two answers; a process outlives its request never, and its pipe
\* reader is counted for as long as it lives.
ReadingsAreApproved ==
    /\ \A c \in Clients : client[c].reading # None => client[c].reading = ApprovedAccount
    /\ \A c \in Clients : child[c].alive => Waiting(c)
    /\ readers = Cardinality({c \in Clients : child[c].reader}) /\ readers <= MaxReaders
=============================================================================
