--------------------------- MODULE ProviderStatus ---------------------------
(***************************************************************************)
(* The opt-in polling of a public status page (provider_status.rs).        *)
(*                                                                         *)
(* Requests run as tasks of their own; the mutex is held by begin, finish, *)
(* configure and snapshot only.  The generation wraps at GenerationLimit   *)
(* like the u64 of the code, only much sooner; time is counted in the      *)
(* polling interval.                                                       *)
(***************************************************************************)
EXTENDS Absent, Integers, Sequences, FiniteSets, FiniteSetsExt

CONSTANTS Tasks, Indicators,
          Interval, FreshFor, BackoffLimit, RetryAfters,
          GenerationLimit, MaxInstant, MaxToggles  \* bounds

\* An interval is 300 seconds and the longest backoff 3600; nobody toggles the
\* setting as often as a u64 counts.
ASSUME StatusAssumption ==
    /\ Interval \in Nat /\ BackoffLimit \in Nat /\ BackoffLimit >= Interval /\ RetryAfters \subseteq Nat
    /\ GenerationLimit \in Nat /\ MaxToggles \in Nat /\ MaxToggles < GenerationLimit
    /\ None \notin Nat

VARIABLES enabled, service, row, task, instant, toggles

statusVars == <<enabled, service, row, task, instant, toggles>>

NoRow == [indicator |-> None, checked |-> None, attempted |-> None, next |-> None,
          failure |-> FALSE, failures |-> 0, in_flight |-> FALSE, of |-> None]
NoTask == [phase |-> "none", generation |-> 0, opt |-> 0]

StatusInit ==
    /\ enabled = FALSE /\ service = 0 /\ row = NoRow
    /\ task = [k \in Tasks |-> NoTask] /\ instant = 0 /\ toggles = 0

\* set_provider_status_enabled, configure: what was observed is forgotten.
Configure ==
    /\ toggles < MaxToggles
    /\ enabled' = ~enabled
    /\ service' = (service + 1) % GenerationLimit
    /\ row' = NoRow
    /\ toggles' = toggles + 1
    /\ UNCHANGED <<task, instant>>

\* begin, for a request refresh_due finds due.
BeginRequest(k) ==
    /\ task[k].phase = "none"
    /\ enabled /\ ~row.in_flight
    /\ row.next # None => instant >= row.next
    /\ row' = [row EXCEPT !.in_flight = TRUE, !.attempted = instant, !.next = instant + Interval]
    /\ task' = [task EXCEPT ![k] = [phase |-> "queued", generation |-> service, opt |-> toggles]]
    /\ UNCHANGED <<enabled, service, instant, toggles>>

Ends(k) == [task EXCEPT ![k] = NoTask]

\* A queued task must not start a request after an opt-out.
StartFetch(k) ==
    /\ task[k].phase = "queued"
    /\ task' = IF enabled /\ task[k].generation = service
               THEN [task EXCEPT ![k].phase = "fetching"] ELSE Ends(k)
    /\ UNCHANGED <<enabled, service, row, instant, toggles>>

\* A bug: only the setting is looked at when an answer comes.
StillEnabled(k) == enabled

Applies(k) == enabled /\ task[k].generation = service

\* Doubled[n + 1] is 1 << n.
Doubled == <<1, 2, 4, 8, 16>>
Backoff(failures) == Min({Interval * Doubled[Min({failures, 4}) + 1], BackoffLimit})

FinishWith(k, changed) ==
    /\ task[k].phase = "fetching"
    /\ row' = IF Applies(k) THEN changed ELSE row
    /\ task' = Ends(k)
    /\ UNCHANGED <<enabled, service, instant, toggles>>

\* finish, with an indicator or with a failure.
FetchSucceeds(k) == \E ind \in Indicators :
    FinishWith(k, [row EXCEPT !.in_flight = FALSE, !.indicator = ind, !.checked = instant,
                              !.failure = FALSE, !.failures = 0, !.next = instant + Interval,
                              !.of = task[k].opt])
FetchFails(k) == \E retry \in RetryAfters :
    FinishWith(k, [row EXCEPT !.in_flight = FALSE, !.failure = TRUE, !.failures = @ + 1,
                              !.next = instant + Max({Backoff(row.failures + 1), retry})])

Elapse == instant < MaxInstant /\ instant' = instant + 1
          /\ UNCHANGED <<enabled, service, row, task, toggles>>

\* What snapshot calls the state of the provider.
Availability ==
    CASE ~enabled -> "disabled"
      [] enabled /\ row.failure -> "unavailable"
      [] enabled /\ ~row.failure /\ row.checked # None /\ instant - row.checked <= FreshFor -> "current"
      [] enabled /\ ~row.failure /\ row.checked # None /\ instant - row.checked > FreshFor -> "stale"
      [] OTHER -> "pending"

StatusNext ==
    \/ Configure \/ Elapse
    \/ \E k \in Tasks : BeginRequest(k) \/ StartFetch(k) \/ FetchSucceeds(k) \/ FetchFails(k)

\* Nothing that was asked for before an opt-out is shown after it, at most one
\* request is under way for the present opt-in, and no two of its requests begin
\* within an interval, however often the surface refreshes.
OptOutHolds ==
    /\ row.of # None => row.of = toggles
    /\ row.checked # None => row.attempted # None /\ Availability # "disabled"
    /\ Cardinality({k \in Tasks : task[k].phase # "none" /\ task[k].opt = toggles}) <= 1
    /\ row.next # None => row.next >= row.attempted + Interval
=============================================================================
