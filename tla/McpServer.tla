----------------------------- MODULE McpServer -----------------------------
(***************************************************************************)
(* The MCP server over stdio (mcp_server.rs): one thread reads requests,   *)
(* up to two workers query the ledger under a QueryControl, and all share  *)
(* the output.  What was asked is kept in a log shared with other servers  *)
(* (integration_activity.rs).                                              *)
(***************************************************************************)
EXTENDS Absent, Integers, Sequences, FiniteSets, FiniteSetsExt

CONSTANTS Ids,                   \* request ids a client uses
          MaxConcurrent,         \* MAX_CONCURRENT_QUERIES
          MaxEntries,            \* MAX_ENTRIES of the log
          MaxRequests            \* bound

\* What a worker is at, and what a query under way is.
Stages == {"starting", "querying", "done", "failed", "recording", "removing"}
States == {"live", "withdrawn"}

ASSUME ServerAssumption ==
    /\ IsFiniteSet(Ids)
    /\ MaxConcurrent \in Nat \ {0} /\ MaxEntries \in Nat \ {0} /\ MaxRequests \in Nat
    /\ None \notin Stages \cup States

VARIABLES
    reader,      \* the input thread: "reading", "ending" or "ended"
    input,       \* "open", or "closed" once the client ends it
    broken,      \* the client does not read the output any more
    active,      \* the queries: per id: None, "live" or "withdrawn"
    worker,      \* per id: None or what its worker is at
    requests,    \* requests that have an id, per id
    answers,     \* how many of them are answered
    early,       \* a ghost: ids withdrawn before the last check
    log          \* the activity log: its entries

serverVars == <<reader, input, broken, active, worker, requests, answers, early, log>>

Active == {i \in Ids : active[i] # None}

Answer(i) == answers' = [answers EXCEPT ![i] = @ + 1]
CancelAll == [i \in Ids |-> IF active[i] = None THEN None ELSE "withdrawn"]

Asked(i) ==
    /\ reader = "reading" /\ input = "open"
    /\ FoldSet(LAMBDA j, n : n + requests[j], 0, Ids) < MaxRequests
    /\ requests' = [requests EXCEPT ![i] = @ + 1]

\* A bug: one query more is let in.
HasAlwaysRoom == TRUE
HasRoom == Cardinality(Active) < MaxConcurrent

\* An answer of the reader's own; when it cannot be written, all is over.
Immediate(i) ==
    IF broken THEN active' = CancelAll /\ reader' = "ending" /\ UNCHANGED answers
    ELSE Answer(i) /\ UNCHANGED <<active, reader>>

\* initialize, ping, tools/list, unknown methods and bad arguments.
RequestImmediate(i) ==
    /\ Asked(i) /\ Immediate(i)
    /\ UNCHANGED <<input, broken, worker, early, log>>

\* tools/call
RequestQuery(i) ==
    /\ Asked(i)
    /\ IF active[i] # None THEN Immediate(i) /\ UNCHANGED <<worker, early>>
       ELSE IF ~HasRoom THEN Immediate(i) /\ UNCHANGED <<worker, early>>
       ELSE /\ active' = [active EXCEPT ![i] = "live"]
            /\ worker' = [worker EXCEPT ![i] = "starting"] /\ early' = early \ {i}
            /\ UNCHANGED <<reader, answers>>
    /\ UNCHANGED <<input, broken, log>>

\* notifications/cancelled, which has no answer, or QueryControl's deadline.
Withdraw(i) ==
    /\ active[i] = "live" /\ active' = [active EXCEPT ![i] = "withdrawn"]
    /\ early' = IF worker[i] \in {"starting", "querying"} THEN early \cup {i} ELSE early
    /\ UNCHANGED <<reader, input, broken, worker, requests, answers, log>>

StartQuery(i) ==
    /\ worker[i] = "starting"
    /\ worker' = [worker EXCEPT ![i] = IF active[i] = "withdrawn" THEN "failed" ELSE "querying"]
    /\ UNCHANGED <<reader, input, broken, active, requests, answers, early, log>>

\* A bug: the result counts although the request was withdrawn meanwhile.
IgnoresControl(i) == FALSE
Withdrawn(i) == active[i] = "withdrawn"

\* execute_at_path: the ledger may be unavailable or the result too large.
FinishQuery(i) ==
    /\ worker[i] = "querying"
    /\ worker' \in {[worker EXCEPT ![i] = IF Withdrawn(i) THEN "failed" ELSE r] : r \in {"done", "failed"}}
    /\ UNCHANGED <<reader, input, broken, active, requests, answers, early, log>>

\* A bug: a worker that cannot write tries again.
WaitsForClient(i) == worker
GivesUp(i) == [worker EXCEPT ![i] = "removing"]

\* The answer; a worker that cannot write it cancels the others.
WriteAnswer(i) ==
    /\ worker[i] \in {"done", "failed"}
    /\ IF broken THEN active' = CancelAll /\ worker' = GivesUp(i) /\ UNCHANGED answers
       ELSE Answer(i) /\ worker' = [worker EXCEPT ![i] = "recording"] /\ UNCHANGED active
    /\ UNCHANGED <<reader, input, broken, requests, early, log>>

\* append_at: not waited for when another server has the log locked.
RecordActivity(i) ==
    /\ worker[i] = "recording" /\ worker' = [worker EXCEPT ![i] = "removing"]
    /\ LET all == Append(log, i)
       IN  log' \in {log, SubSeq(all, Max({1, Len(all) - MaxEntries + 1}), Len(all))}
    /\ UNCHANGED <<reader, input, broken, active, requests, answers, early>>

\* A bug: the place of a query that has ended stays taken.
KeepsPlace(i) == active
Removed(i) == [active EXCEPT ![i] = None]

RemoveQuery(i) ==
    /\ worker[i] = "removing"
    /\ active' = Removed(i) /\ worker' = [worker EXCEPT ![i] = None]
    /\ UNCHANGED <<reader, input, broken, requests, answers, early, log>>

\* The input ends: no more requests, and the workers are joined.
EndOfInput ==
    /\ reader = "reading" /\ input = "closed" /\ reader' = "ending"
    /\ UNCHANGED <<input, broken, active, worker, requests, answers, early, log>>
Join ==
    /\ reader = "ending" /\ \A i \in Ids : worker[i] = None
    /\ reader' = "ended"
    /\ UNCHANGED <<input, broken, active, worker, requests, answers, early, log>>

\* The client closes its ends.
ClientCloses ==
    /\ \/ input = "open" /\ input' = "closed" /\ UNCHANGED broken
       \/ ~broken /\ broken' = TRUE /\ UNCHANGED input
    /\ UNCHANGED <<reader, active, worker, requests, answers, early, log>>

ServerInit ==
    /\ reader = "reading" /\ input = "open" /\ broken = FALSE
    /\ active = [i \in Ids |-> None] /\ worker = [i \in Ids |-> None]
    /\ requests = [i \in Ids |-> 0] /\ answers = [i \in Ids |-> 0]
    /\ early = {} /\ log = << >>

WorkerStep(i) == StartQuery(i) \/ FinishQuery(i) \/ WriteAnswer(i) \/ RecordActivity(i) \/ RemoveQuery(i)
ReaderEnds == EndOfInput \/ Join
ServerNext ==
    \/ \E i \in Ids : \/ RequestImmediate(i) \/ RequestQuery(i) \/ Withdraw(i)
                      \/ WorkerStep(i)
    \/ ReaderEnds \/ ClientCloses

\* Threads that can go on do: the reader and every worker, not the client.
ServerSpec == ServerInit /\ [][ServerNext]_serverVars
              /\ WF_serverVars(ReaderEnds) /\ \A i \in Ids : WF_serverVars(WorkerStep(i))

-----------------------------------------------------------------------------
\* Every request is answered once, unless nobody reads the answers; never are
\* more queries at work than are let in, nor one that is not accounted for; and
\* what was withdrawn before its query ended is not answered with a result.
ServerIsSound ==
    /\ Cardinality({i \in Ids : worker[i] # None}) <= MaxConcurrent
    /\ \A i \in Ids :
          /\ (worker[i] # None) <=> (active[i] # None)
          /\ ~broken => answers[i] =
                requests[i] - Cardinality({j \in {i} : worker[j] \in {"starting", "querying", "done", "failed"}})
          /\ worker[i] = "done" => i \notin early
    /\ Len(log) <= MaxEntries

\* When the client ends the input the server ends, whatever it was at.
ServerEnds == input = "closed" ~> reader = "ended"
=============================================================================
