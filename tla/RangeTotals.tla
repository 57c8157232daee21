---------------------------- MODULE RangeTotals ----------------------------
(***************************************************************************)
(* The totals of a session within date windows (history_store.rs): facts   *)
(* are kept per event and, summed, per hour; a window is answered from the *)
(* rows of the hours it covers whole and the events at its two ends.       *)
(*                                                                         *)
(* A token event is [at, model, tier, n]; an observation of a tool call    *)
(* is [at, model, kind, failed, turn, target, servers].  None stands for   *)
(* what was not recorded.  What a row or an event adds up is a bag of      *)
(* groups, so each kind of sum is one element of it.                       *)
(***************************************************************************)
EXTENDS Absent, Integers, Sequences, FiniteSets, FiniteSetsExt, BagsExt, SequencesExt

CONSTANTS Hour,                  \* HOUR_MS
          TokenEvents, ToolEvents, Findings,  \* what may be recorded
          MaxEvents              \* bound

VARIABLES
    tokens, tools, findings,     \* durable_token_events, _tool_events, _finding_events
    rollups,                     \* the four rollup_* tables: a bag of <<hour, group>>
    deferred                     \* rollups_pending: this session's rows are behind

rangeVars == <<tokens, tools, findings, rollups, deferred>>

RangeInit ==
    /\ tokens = << >> /\ tools = << >> /\ findings = {}
    /\ rollups = EmptyBag /\ deferred = FALSE

HourBucket(at) == at \div Hour

-----------------------------------------------------------------------------
(* What one event adds up to, and to which groups.                         *)

TokenGroups(e) == [g \in {<<"tokens", e.model, e.tier>>} |-> e.n]

\* accumulate_observation, accumulate_dimension_call, and the chain of
\* mutations of one target in one turn.
ToolGroups(o) ==
    SetToBag(  {<<"calls", o.model>>, <<o.kind, o.model>>}
          \cup {<<IF o.failed THEN "failures" ELSE "successes", o.model>>}
          \cup {<<"server", s, o.failed>> : s \in o.servers}
          \cup {<<"chain", o.model, o.turn, o.target>> : k \in {o.kind} \cap {"mutation"}})

SumOfBags(S) == FoldSeq(LAMBDA b, acc : b (+) acc, EmptyBag, S)
TokensOf(events) == SumOfBags([i \in DOMAIN events |-> TokenGroups(events[i])])
ToolsOf(events) == SumOfBags([i \in DOMAIN events |-> ToolGroups(events[i])])

InHour(h, bag) == [x \in {<<h, g>> : g \in DOMAIN bag} |-> bag[x[2]]]
TokenRows(events) ==
    SumOfBags([i \in DOMAIN events |-> InHour(HourBucket(events[i].at), TokenGroups(events[i]))])
ToolRows(events) ==
    SumOfBags([i \in DOMAIN events |-> InHour(HourBucket(events[i].at), ToolGroups(events[i]))])

IsTokenRow(x) == x[2][1] = "tokens"

-----------------------------------------------------------------------------
(* The writers.                                                            *)

\* A bug: the rows get the whole history again.
AddsHistoryAgain(events, old) == TokenRows(events)
NewTokenRows(events, old) == TokenRows(SubSeq(events, Len(old) + 1, Len(events)))

\* store_token_events: the history grew; only the suffix is new.
StoreTokenEvents(e, maintain) ==
    /\ Len(tokens) + Len(tools) < MaxEvents
    /\ tokens' = Append(tokens, e)
    /\ rollups' = IF maintain THEN rollups (+) NewTokenRows(tokens', tokens) ELSE rollups
    /\ deferred' = (deferred \/ ~maintain)
    /\ UNCHANGED <<tools, findings>>

\* A bug: the rows of calls that are not observed any more stay.
KeepsOldToolRows(bag) == bag
WithoutToolRows(bag) == [x \in {y \in DOMAIN bag : IsTokenRow(y)} |-> bag[x]]

\* store_tool_events and store_finding_events: all of them are replaced.
StoreToolEvents(observations, found, maintain) ==
    /\ Len(tokens) + Len(observations) <= MaxEvents
    /\ tools' = observations /\ findings' = found
    /\ rollups' = IF maintain THEN WithoutToolRows(rollups) (+) ToolRows(observations) ELSE rollups
    /\ deferred' = (deferred \/ ~maintain)
    /\ UNCHANGED tokens

\* rebuild_rollups_in_transaction
RebuildRollups ==
    /\ rollups' = TokenRows(tokens) (+) ToolRows(tools)
    /\ deferred' = FALSE
    /\ UNCHANGED <<tokens, tools, findings>>

-----------------------------------------------------------------------------
(* plan_window.  A bound of a window may be None.                          *)

FirstFull(from) == IF from % Hour = 0 THEN from \div Hour ELSE from \div Hour + 1

\* A bug: the hour in which the window ends counts as a whole one.
LastTouched(to) == to \div Hour
LastFull(to) == IF (to + 1) % Hour = 0 THEN to \div Hour ELSE to \div Hour - 1

PlanWindow(w) ==
    LET noHours == /\ w.from # None /\ w.to # None
                   /\ FirstFull(w.from) > LastFull(w.to)
        edges == (IF w.from # None THEN {[from |-> w.from, to |-> FirstFull(w.from) * Hour - 1]} ELSE {})
            \cup (IF w.to # None THEN {[from |-> (LastFull(w.to) + 1) * Hour, to |-> w.to]} ELSE {})
    IN  IF noHours THEN [hours |-> None, edges |-> {w}]
        ELSE [hours |-> [from |-> IF w.from = None THEN None ELSE FirstFull(w.from),
                         to |-> IF w.to = None THEN None ELSE LastFull(w.to)],
              edges |-> {e \in edges : e.from <= e.to}]

Within(x, w) == (w.from = None \/ x >= w.from) /\ (w.to = None \/ x <= w.to)
InBucketRange(h, plan) == plan.hours # None /\ Within(h, plan.hours)

-----------------------------------------------------------------------------
(* range_totals_multi_on and compute_range_totals.                         *)

\* Chains are merged first, over hours and models, and counted then.
ChainFields(bag, models) ==
    LET chains == {g \in DOMAIN bag : g[1] = "chain" /\ g[2] \in models}
        times(c) == MapThenSumSet(LAMBDA g : bag[g], {g \in chains : <<g[3], g[4]>> = c})
        keys == {<<g[3], g[4]>> : g \in chains}
    IN  [targets |-> Cardinality(keys),
         oneShot |-> Cardinality({c \in keys : times(c) = 1}),
         retries |-> MapThenSumSet(LAMBDA c : times(c) - 1, keys)]

\* The sums of a window, from what all its rows and events add up to.
Totals(bag, found) ==
    LET models == {g[2] : g \in {h \in DOMAIN bag : h[1] = "chain"}}
    IN  [sums |-> [g \in {h \in DOMAIN bag : h[1] # "chain"} |-> bag[g]],
         chains |-> ChainFields(bag, models),
         perModel |-> [m \in models \ {None} |-> ChainFields(bag, {m})],
         findings |-> found]

\* A bug: an event at the edge of another window is counted although its hour
\* is a whole one here.
CountsPooledEdges(at, w, plan) == Within(at, w)
IsEdge(at, w, plan) == Within(at, w) /\ ~InBucketRange(HourBucket(at), plan)

\* The rows and the events that are read are those of all windows of the batch.
PooledEdges(plans) == UNION {plans[i].edges : i \in DOMAIN plans}
PooledRows(plans) ==
    [x \in {y \in DOMAIN rollups : \E i \in DOMAIN plans : InBucketRange(y[1], plans[i])} |-> rollups[x]]

RangeTotalsMulti(windows) ==
    LET plans == [i \in DOMAIN windows |-> PlanWindow(windows[i])]
        pooled(events) == SelectSeq(events, LAMBDA e : \E edge \in PooledEdges(plans) : Within(e.at, edge))
        rows == PooledRows(plans)
        hours(plan) == {x \in DOMAIN rows : InBucketRange(x[1], plan)}
        inside(plan) == [g \in {x[2] : x \in hours(plan)} |->
                           MapThenSumSet(LAMBDA x : rows[x], {x \in hours(plan) : x[2] = g})]
        atEdge(events, w, plan) == SelectSeq(pooled(events), LAMBDA e : IsEdge(e.at, w, plan))
    IN  [i \in DOMAIN windows |->
            Totals(inside(plans[i]) (+) TokensOf(atEdge(tokens, windows[i], plans[i]))
                                    (+) ToolsOf(atEdge(tools, windows[i], plans[i])),
                   {f \in findings : IF f.at = None THEN windows[i].from = None /\ windows[i].to = None
                                     ELSE Within(f.at, windows[i])})]

\* Session::range_totals_multi, over the whole history in memory.
InMemory(w) ==
    Totals(TokensOf(SelectSeq(tokens, LAMBDA e : Within(e.at, w)))
              (+) ToolsOf(SelectSeq(tools, LAMBDA o : Within(o.at, w))),
           {f \in findings : IF f.at = None THEN w.from = None /\ w.to = None ELSE Within(f.at, w)})

RangeNext ==
    \/ \E e \in TokenEvents, maintain \in BOOLEAN : StoreTokenEvents(e, maintain)
    \/ \E o \in ToolEvents, found \in SUBSET Findings, maintain \in BOOLEAN :
          StoreToolEvents(Append(tools, o), found, maintain) \/ StoreToolEvents(<<o>>, found, maintain)
    \/ RebuildRollups

-----------------------------------------------------------------------------
CONSTANT Batches   \* sequences of windows

\* However the events were stored, as long as no row is behind, a batch of
\* windows is answered with exactly what each window alone holds: nothing at
\* the edge of another window, nothing twice where an hour is cut, and a chain
\* of mutations over several hours counted once.
RangesAreExact ==
    ~deferred => \A b \in Batches : RangeTotalsMulti(b) = [i \in DOMAIN b |-> InMemory(b[i])]
=============================================================================
