---------------------------- MODULE ToolTelemetry ----------------------------
(***************************************************************************)
(* What the program derives from the tool calls of a session: the          *)
(* observations the parsers append and complete, the counters over them,   *)
(* the classification of turns and the optimization findings.  A tool's    *)
(* name and arguments are abstracted to its kind, the request they make    *)
(* (target) and the resource they touch; the text of a turn is the set of  *)
(* keyword families it contains.                                           *)
(***************************************************************************)
EXTENDS Absent, Integers, Sequences, FiniteSetsExt, SequencesExt, TLC

CONSTANTS
    RepeatedRead,           \* REPEATED_READ_THRESHOLD
    CorrectiveMutation,     \* CORRECTIVE_MUTATION_THRESHOLD
    RepeatedFailure,        \* REPEATED_FAILURE_THRESHOLD
    ToolChurn,              \* HIGH_TOOL_CHURN_THRESHOLD
    ChurnRetries,           \* the 4 retries or failures that make churn
    ExcessiveOutput,        \* EXCESSIVE_OUTPUT_BYTES_THRESHOLD
    MaxServers,             \* the 16 MCP servers a call is attributed to
    ShellFamilies           \* SHELL_FAMILIES

-----------------------------------------------------------------------------
(* Token totals: one counter for each dimension the program keeps.  Cached *)
(* and created tokens are disjoint parts of the input, reasoning tokens    *)
(* are part of the output.                                                 *)

Dims == {"input", "cached", "created", "output", "reasoning", "total"}

Totals(input, cached, created, output, reasoning) ==
    [input |-> input, cached |-> cached, created |-> created, output |-> output,
     reasoning |-> reasoning, total |-> input + output]

Zero == [d \in Dims |-> 0]

Plus(a, b) == [d \in Dims |-> a[d] + b[d]]

\* saturating_sub on every dimension
Minus(a, b) == [d \in Dims |-> IF a[d] > b[d] THEN a[d] - b[d] ELSE 0]

AnyPositive(a) == \E d \in Dims : a[d] > 0

\* The sum of the totals that f maps its domain to.
SumTotals(f) == [d \in Dims |-> MapThenSumSet(LAMBDA k : f[k][d], DOMAIN f)]

\* entry(key).or_default() += totals
Bump(f, key, totals) ==
    [k \in DOMAIN f \union {key} |->
        IF k # key THEN f[k]
        ELSE IF k \in DOMAIN f THEN Plus(f[k], totals) ELSE totals]

\* Option::or
OrElse(a, b) == IF a # None THEN a ELSE b

ToolKinds == {"read", "search", "mutation", "command", "other"}

-----------------------------------------------------------------------------
(* Observations *)

\* classify_tool: a name is the set of keyword families found in it, tried in
\* this order.
ClassifyTool(name) ==
    LET found == SelectSeq(<<"read", "search", "mutation", "command">>, LAMBDA k : k \in name)
    IN  IF found = << >> THEN "other" ELSE Head(found)

\* normalized_target: a read or a search is identified by its whole request,
\* anything else by the resource it touches.
NormalizedTarget(tool) ==
    LET kind == ClassifyTool(tool.name)
    IN  IF tool.resource = None THEN None
        ELSE IF kind \in {"read", "search"} THEN <<kind, tool.resource, tool.selector>>
        ELSE <<kind, tool.resource>>

\* The open labels of a call: at most MaxServers MCP servers, the family of a
\* shell command (one of an allowlist, or "other") and the language of a path.
Labels(tool) ==
    {<<"mcp_server", tool.servers[i]>> : i \in 1..Min({Len(tool.servers), MaxServers})}
    \union (IF ClassifyTool(tool.name) # "command" \/ tool.family = None THEN {}
            ELSE {<<"shell_family", IF tool.family \in ShellFamilies THEN tool.family ELSE "other">>})
    \union (IF tool.language = None THEN {} ELSE {<<"language", tool.language>>})

\* The observation of a call, as observe_call records it.
Call(id, turn, model, ts, tool) ==
    [id |-> id, turn |-> turn, model |-> model, ts |-> ts, kind |-> ClassifyTool(tool.name),
     target |-> NormalizedTarget(tool), resource |-> tool.resource, volatile |-> tool.volatile,
     labels |-> Labels(tool), outcome |-> "pending", duration |-> None, bytes |-> 0]

\* observe_call: calls without an id are dropped, the parser has removed
\* repeated ones.
ObserveCall(obs, call) == IF call.id = None THEN obs ELSE Append(obs, call)

\* observe_result: the newest call with this id is completed.  A reported
\* duration wins over the one computed from the two timestamps, which fills
\* in only where none is known; the output never shrinks.
ObserveResult(obs, id, outcome, duration, at, bytes) ==
    LET mine == {i \in DOMAIN obs : obs[i].id = id /\ id # None}
    IN  IF mine = {} THEN obs
        ELSE LET i == Max(mine)
                 elapsed == IF at # None /\ at >= obs[i].ts THEN at - obs[i].ts ELSE None
                 known == OrElse(duration,
                            IF obs[i].duration = None THEN elapsed ELSE obs[i].duration)
             IN  [obs EXCEPT ![i].outcome = outcome, ![i].duration = known,
                             ![i].bytes = Max({@, bytes})]

-----------------------------------------------------------------------------
(* Counters *)

CountIf(obs, field, values) == Cardinality({i \in DOMAIN obs : obs[i][field] \in values})

\* mutation_chain_fields: how often each (turn, target) was mutated.
Chains(obs) ==
    LET muts == {i \in DOMAIN obs : obs[i].kind = "mutation"}
        keys == {<<obs[i].turn, obs[i].target>> : i \in muts}
    IN  [k \in keys |-> Cardinality({i \in muts : <<obs[i].turn, obs[i].target>> = k})]

\* MetricsAccumulator: push for every observation, then finish.
MetricsOf(obs, chains) ==
    [calls     |-> Len(obs),
     reads     |-> CountIf(obs, "kind", {"read"}),
     searches  |-> CountIf(obs, "kind", {"search"}),
     mutations |-> CountIf(obs, "kind", {"mutation"}),
     commands  |-> CountIf(obs, "kind", {"command"}),
     other     |-> CountIf(obs, "kind", {"other"}),
     successes |-> CountIf(obs, "outcome", {"success"}),
     failures  |-> CountIf(obs, "outcome", {"failure"}),
     unknown   |-> CountIf(obs, "outcome", {"pending", "unknown"}),
     bytes     |-> MapThenSumSet(LAMBDA i : obs[i].bytes, DOMAIN obs),
     targets   |-> Cardinality(DOMAIN chains),
     one_shot  |-> Cardinality({k \in DOMAIN chains : chains[k] = 1}),
     retries   |-> MapThenSumSet(LAMBDA k : chains[k] - 1, DOMAIN chains)]
Metrics(obs) == MetricsOf(obs, Chains(obs))

\* metrics_with_models: the same counters for the calls of each model.
MetricsByModel(obs) ==
    [m \in {obs[i].model : i \in DOMAIN obs} \ {None} |->
        Metrics(SelectSeq(obs, LAMBDA o : o.model = m))]

\* tool_dimension_metrics: the calls under each open label (an MCP server, a
\* shell family, a language); a call may carry several.
DimensionMetrics(obs) ==
    [l \in UNION {obs[i].labels : i \in DOMAIN obs} |->
        LET of == SelectSeq(obs, LAMBDA o : l \in o.labels)
        IN  [calls |-> Len(of), failures |-> CountIf(of, "outcome", {"failure"}),
             bytes |-> MapThenSumSet(LAMBDA i : of[i].bytes, DOMAIN of),
             duration |-> MapThenSumSet(LAMBDA i : OrElse(of[i].duration, 0), DOMAIN of)]]

\* context_source_breakdown: where the input tokens came from.
ContextSources(tokens) ==
    LET rest == tokens.input - tokens.cached - tokens.created
        all == ("conversation_cache" :> tokens.cached) @@ ("newly_cached_context" :> tokens.created)
                 @@ ("unknown" :> IF rest > 0 THEN rest ELSE 0)
    IN  [k \in {x \in DOMAIN all : all[x] > 0} |-> all[k]]

-----------------------------------------------------------------------------
(* Classification of a turn: the first rule that applies. *)

ClassifyTurn(words, m) ==
    IF "test" \in words \/ (m.commands > 0 /\ m.failures = 0 /\ "pass" \in words)
    THEN "testing" ELSE
    IF "debug" \in words \/ m.failures > 0 THEN "debugging" ELSE
    IF "review" \in words THEN "review" ELSE
    IF "plan" \in words THEN "planning" ELSE
    IF m.mutations > 0 \/ "code" \in words THEN "coding" ELSE
    IF m.reads + m.searches > 0 \/ "explore" \in words THEN "exploration" ELSE "other"

-----------------------------------------------------------------------------
(* Findings *)

TurnOf(o) == OrElse(o.turn, "session")

\* The longest run of identical successful reads of one request, where a
\* mutation of the resource ends every run (the ReadStreak of findings).
LongestStreak(acts, target) ==
    LET step(s, o) ==
            IF o.kind = "mutation" THEN [s EXCEPT !.current = 0]
            ELSE IF /\ o.kind = "read" /\ o.outcome = "success" /\ ~o.volatile
                    /\ o.target = target
                 THEN [current |-> s.current + 1, max |-> Max({s.max, s.current + 1}),
                       ts |-> IF s.current + 1 > s.max THEN o.ts ELSE s.ts]
                 ELSE s
    IN  FoldLeft(step, [current |-> 0, max |-> 0, ts |-> None], acts)

\* items.sort_by_key(timestamp): stable.
ByTime(obs) ==
    LET before(i, j) == obs[i].ts < obs[j].ts \/ (obs[i].ts = obs[j].ts /\ i < j)
        order == SetToSortSeq(DOMAIN obs, before)
    IN  [k \in DOMAIN order |-> obs[order[k]]]

Finding(rule, turn, ts, occurrences, avoidable) ==
    [rule |-> rule, turn |-> turn, ts |-> ts, occurrences |-> occurrences, avoidable |-> avoidable]

RepeatedReads(obs) ==
    LET named == SelectSeq(obs, LAMBDA o : o.target # None)
        groups == {<<TurnOf(named[i]), named[i].resource>> : i \in DOMAIN named}
        of(g, acts) == {<<g, t, LongestStreak(acts, t)>> :
                            t \in {acts[i].target : i \in {j \in DOMAIN acts : acts[j].kind = "read"}}}
        runs == UNION {of(g, ByTime(SelectSeq(named, LAMBDA o : <<TurnOf(o), o.resource>> = g))) : g \in groups}
    IN  {<<Append(r[1], r[2]), "repeated-read", Finding("repeated-read", r[1][1], r[3].ts, r[3].max, r[3].max - 1)>> :
            r \in {x \in runs : x[3].max >= RepeatedRead}}

Retries(obs) ==
    LET named == SelectSeq(obs, LAMBDA o : o.target # None)
        key(o) == <<TurnOf(o), o.kind, o.target>>
        rule(k, made, failed) ==
            IF k[2] = "mutation" /\ made >= CorrectiveMutation /\ failed > 0 THEN "corrective-mutation"
            ELSE IF failed >= RepeatedFailure THEN "repeated-failure" ELSE None
        found(k, of, failed, name) ==
            <<k, name, Finding(name, k[1], Last(of).ts, Len(of), IF failed > 0 THEN failed - 1 ELSE 0)>>
        judge(k, of, failed) == found(k, of, failed, rule(k, Len(of), failed))
        group(k, of) == judge(k, of, CountIf(of, "outcome", {"failure"}))
    IN  {f \in {group(k, SelectSeq(named, LAMBDA o : key(o) = k)) : k \in {key(named[i]) : i \in DOMAIN named}} :
            f[2] # None}

\* The two findings about a whole turn; they claim no avoidable call, since
\* their calls are counted by the findings above.
TurnWide(obs) ==
    LET turns == {TurnOf(obs[i]) : i \in DOMAIN obs}
        commands(of) == SelectSeq(of, LAMBDA o : o.kind = "command")
        churned(m) == m.retries >= ChurnRetries \/ m.failures >= ChurnRetries
        churn(t, of) ==
            IF Len(of) <= ToolChurn \/ ~churned(Metrics(of)) THEN {}
            ELSE {<<<<t>>, "churn", Finding("high-tool-churn", t, Last(of).ts, Len(of), 0)>>}
        flood(t, of) ==
            IF Metrics(commands(of)).bytes <= ExcessiveOutput THEN {}
            ELSE {<<<<t>>, "output", Finding("excessive-command-output", t, Last(of).ts, Len(commands(of)), 0)>>}
        judge(t, of) == churn(t, of) \union flood(t, of)
    IN  UNION {judge(t, SelectSeq(obs, LAMBDA o : TurnOf(o) = t)) : t \in turns}

\* findings: all of them, each with the group it stands for.
Findings(obs) == RepeatedReads(obs) \union Retries(obs) \union TurnWide(obs)

\* OptimizationSummary::from_findings
AvoidableCalls(findings) == MapThenSumSet(LAMBDA f : f[3].avoidable, findings)
=============================================================================
