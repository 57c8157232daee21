----------------------------- MODULE UsageReports ----------------------------
(***************************************************************************)
(* What is reported of the ledger: the range, project, session, category,  *)
(* status line, workflow and tool reports (query.rs, query_reports.rs,     *)
(* headless.rs) and the prices the desktop shows (query_desktop.rs), over  *)
(* one rate card, while the desktop writes the same ledger.  A model is    *)
(* resolved as in RateCards.                                               *)
(*                                                                         *)
(* Usage is a record [at, model, tier, tokens, request, category, calls]:  *)
(* the model may be None, and so may the size of the request.  Tokens are  *)
(* [input, cached, written], output being priced as plain input is; a      *)
(* bucket is [model, tier, tokens].  A card is RateCards' with a second    *)
(* table apiModels, dated prices [id, surface, model, from, to, rate] and  *)
(* modifiers [surface, model, from, to, tier, above, factor], a rate being *)
(* [price, cached, written], where written may be None.                    *)
(***************************************************************************)
EXTENDS RateCards, FiniteSetsExt

CONSTANTS Chats,            \* durable sessions
          ProviderOf,       \* of a session's key: a registered provider, or None
          DetectedGroup,    \* the project detected for a session, or None
          Groups,           \* projects
          CurrencyOf,       \* of a provider
          Usages,           \* what a session may use
          ReportCards,      \* rate cards
          LegacyFast,       \* models with a fast tier of their own, at twice the price
          ReportWindows,    \* [from, to], where both may be None
          ReportDay,        \* the day the reports are asked for
          ReportHour,       \* how many moments an hour has
          MaxChanges        \* bound

VARIABLES
    recorded,   \* the ledger: [redirect, assigned, known, usage]
    reportCard, \* the rate card loaded for the request
    request,    \* None or [window, seen, got]: the transaction's snapshot, and what was read of it
    changes

reportVars == <<recorded, reportCard, request, changes>>

-----------------------------------------------------------------------------
(* Prices                                                                  *)

Add(t, u) == [input |-> t.input + u.input, cached |-> t.cached + u.cached, written |-> t.written + u.written]
NoTokens == [input |-> 0, cached |-> 0, written |-> 0]
SumTokens(uses) == FoldLeft(LAMBDA t, u : Add(t, u.tokens), NoTokens, uses)

IsApi(table) == table \in {"api", "estimate"}
IsCredit(table) == table \in {"purchased", "included"}
RateTable(table) == IF IsApi(table) THEN reportCard.apiModels ELSE reportCard.models
\* The surface whose dated rules a table follows.
SurfaceOf(table) == IF table = "plan" THEN "included" ELSE IF table = "estimate" THEN "api" ELSE table

Resolution(model, table, at) == ResolveModelPricing([reportCard EXCEPT !.models = RateTable(table)], model, at)

WriteRate(rate) == IF rate.written = None THEN rate.price ELSE rate.written
TokenCost(tokens, rate, factor) ==
    factor * (Max({0, tokens.input - tokens.cached - tokens.written}) * rate.price
              + tokens.cached * rate.cached + tokens.written * WriteRate(rate))

TierRules(surface, model, tier, at) ==
    {m \in reportCard.modifiers : m.surface = surface /\ m.model = model /\ Covers(m, at) /\ m.tier = tier}
FactorOf(rules) == IF rules = {} THEN None ELSE (CHOOSE m \in rules : TRUE).factor
TierFactor(surface, model, tier, at) == FactorOf(TierRules(surface, model, tier, at))

Multiplier(dated, resolved, fallback, tier, table) ==
    IF tier = "standard" /\ (table \in {"plan", "api"} \/ dated = None) THEN 1
    ELSE IF tier = "odd" \/ (fallback /\ tier # "standard") THEN None
    ELSE IF dated = None /\ table \in {"plan", "api"} /\ resolved \in LegacyFast THEN 2
    ELSE dated
TierMultiplier(provider, r, tier, table, at) ==
    Multiplier(IF provider = "codex" THEN TierFactor(SurfaceOf(table), r.model, tier, at) ELSE None,
               r.model, r.fallback, tier, table)

Unpriced == [amount |-> None, basis |-> "unavailable"]

\* downgrade_for_cache_creation_fallback
Downgraded(basis, rate, written) ==
    IF basis \in {"direct", "aliased", "floating_alias"} /\ written > 0 /\ rate.written = None
    THEN "estimated" ELSE basis

Charge(basis, tokens, rate, factor) ==
    IF factor = None THEN Unpriced
    ELSE [amount |-> TokenCost(tokens, rate, factor), basis |-> Downgraded(basis, rate, tokens.written)]

\* The price of tokens of a model that was resolved to r.
PriceAs(r, provider, tier, tokens, table, at) ==
    LET flat == RateTable(table)[r.model]
    IN  IF r.basis = "free_local" THEN [amount |-> 0, basis |-> "free_local"]
        ELSE IF r.basis = "unavailable" \/ r.model \notin DOMAIN RateTable(table) THEN Unpriced
        ELSE Charge(r.basis, tokens, IF IsCredit(table) THEN [flat EXCEPT !.written = 0] ELSE flat,
                    TierMultiplier(provider, r, tier, table, at))

PriceTokens(provider, model, tier, tokens, table, at) ==
    IF (table # "plan" /\ provider # "codex") \/ (IsApi(table) /\ reportCard.apiModels = << >>) THEN Unpriced
    ELSE PriceAs(Resolution(model, table, at), provider, tier, tokens, table, at)

OrZero(amount) == IF amount = None THEN 0 ELSE amount
PriceOf(provider, b, table, at) == PriceTokens(provider, b.model, b.tier, b.tokens, table, at)

\* price_buckets: what can be priced, and the models that cannot.
PriceBuckets(provider, buckets, table, at) ==
    LET sum(prices) ==
          [amount |-> FoldLeft(LAMBDA n, p : IF p.amount = None THEN n ELSE p.amount + (IF n = None THEN 0 ELSE n),
                               None, prices),
           omitted |-> {buckets[i].model : i \in {j \in DOMAIN prices : prices[j].amount = None}}]
    IN  sum([i \in DOMAIN buckets |-> PriceOf(provider, buckets[i], table, at)])

Rank == [b \in {"direct", "free_local"} |-> 0] @@ [b \in {"aliased", "floating_alias"} |-> 1]
        @@ [b \in {"estimated"} |-> 2] @@ [b \in {"fallback"} |-> 3] @@ [b \in {"unavailable"} |-> 4]

\* A bug: the last bucket decides how sure a price is.
LastBasis(left, right) == right
LeastConfident(left, right) == IF Rank[right] > Rank[left] THEN right ELSE left

AddToRow(row, cost, basis, unpriced) ==
    [cost |-> row.cost + cost, unpriced |-> row.unpriced \/ unpriced, basis |-> LeastConfident(row.basis, basis)]
WithRow(surface, model, cost, basis, unpriced) ==
    [surface EXCEPT !.total = @ + cost,
                    !.rows = With(@, model, AddToRow(IF model \in DOMAIN surface.rows THEN surface.rows[model]
                                                     ELSE [cost |-> 0, basis |-> basis, unpriced |-> unpriced],
                                                     cost, basis, unpriced))]

\* One bucket of price_buckets_detailed.
Enter(surface, b, r, price, table) ==
    IF r.basis = "unavailable" /\ b.model \notin reportCard.unpriced /\ r.model \notin DOMAIN RateTable(table)
    THEN [surface EXCEPT !.missing = @ \cup {b.model}]
    ELSE IF r.basis # "unavailable" /\ r.model \notin DOMAIN RateTable(table)
         THEN IF r.basis = "free_local" THEN WithRow(surface, b.model, 0, "free_local", FALSE) ELSE surface
    ELSE IF r.basis = "unavailable" \/ price.amount = None
         THEN WithRow([surface EXCEPT !.unpriced = @ \cup {b.model}], b.model, 0, "unavailable", TRUE)
    ELSE WithRow(surface, b.model, price.amount, price.basis, FALSE)

AddBucket(provider, table, at, surface, b) ==
    LET enter(r) == Enter(IF r.fallback THEN [surface EXCEPT !.missing = @ \cup {b.model}] ELSE surface,
                          b, r, PriceOf(provider, b, table, at), table)
    IN  enter(Resolution(b.model, table, at))

NoSurface == [total |-> 0, rows |-> << >>, missing |-> {}, unpriced |-> {}]

PriceBucketsDetailed(provider, buckets, table, at) ==
    IF IsApi(table) /\ (provider # "codex" \/ reportCard.apiModels = << >>) THEN None
    ELSE FoldLeft(LAMBDA surface, b : AddBucket(provider, table, at, surface, b), NoSurface, buckets)

\* The tables each provider is priced by.
TablesOf(provider) ==
    IF provider = None THEN {} ELSE IF provider # "codex" THEN {"plan"}
    ELSE {"plan", "api", "purchased", "included", "estimate"}

\* price_session_details: every use by itself, so that none is hidden by another's excess.
SessionDetails(provider, uses, table) ==
    PriceBucketsDetailed(provider, SelectSeq(uses, LAMBDA u : u.model # None), table, ReportDay)

\* price_turn, which the desktop shows beside each turn.
PriceTurn(provider, u, table, at) ==
    LET cost(r, factor) == IF factor = None THEN 0 ELSE TokenCost(u.tokens, RateTable(table)[r.model], factor)
        priced(r) == IF r.basis = "unavailable" \/ r.model \notin DOMAIN RateTable(table) THEN 0
                     ELSE cost(r, TierMultiplier(provider, r, u.tier, table, at))
    IN  IF u.model = None \/ u.model \in reportCard.unpriced THEN 0
        ELSE IF table \notin {"plan", "api"} THEN OrZero(PriceOf(provider, u, table, at).amount)
        ELSE priced(Resolution(u.model, table, at))

-----------------------------------------------------------------------------
(* Prices as of the day of each use                                        *)

\* A bug: a use whose day has no price is left out.
LeavesOut(prices) == SelectSeq(prices, LAMBDA p : p # None)
Whole(prices) == IF None \in Range(prices) THEN None ELSE prices

\* The factor for the tier of a use of a model by that name.
DatedFactor(tier, u, surface, name) ==
    IF tier # None THEN tier ELSE IF u.tier = "standard" THEN 1
    ELSE IF surface = "api" /\ name \in LegacyFast /\ u.tier = "fast" THEN 2 ELSE None

DatedCost(u, periods, large, factor) ==
    LET met == {m \in large : u.request # None /\ u.request > m.above}
    IN  IF periods = << >> \/ factor = None THEN None
        ELSE [cost |-> FoldSet(LAMBDA m, n : m.factor * n, TokenCost(u.tokens, periods[1].rate, factor), met),
              period |-> periods[1].id, unsure |-> IF u.request = None THEN large ELSE {}]

DatedAs(name, u, surface) ==
    DatedCost(u, SelectSeq(reportCard.dated, LAMBDA p : p.surface = surface /\ p.model = name /\ Covers(p, u.at)),
              {m \in reportCard.modifiers : m.surface = surface /\ m.model = name /\ Covers(m, u.at) /\ m.above # None},
              DatedFactor(TierFactor(surface, name, u.tier, u.at), u, surface, name))

DatedPrice(provider, u, surface) ==
    LET name(r) == IF r.fallback \/ r.basis = "unavailable" THEN u.model ELSE r.model
    IN  IF u.model = None THEN IF u.tokens.input > 0 THEN None ELSE [cost |-> 0, period |-> None, unsure |-> {}]
        ELSE IF u.model \in reportCard.unpriced THEN None
        ELSE DatedAs(name(Resolution(u.model, IF surface = "api" THEN "api" ELSE "plan", u.at)), u, surface)

\* The surfaces whose prices are dated: of the provider's own API and of Codex' credits.
SurfacesOf(provider) ==
    IF provider = None THEN {} ELSE IF provider = "codex" THEN {"api", "purchased", "included"} ELSE {provider}

\* time_aware_surface
DatedSurface(provider, uses, surface) ==
    LET sum(prices) ==
          IF prices = None THEN None
          ELSE [total |-> FoldLeft(LAMBDA n, p : n + p.cost, 0, prices),
                periods |-> {p.period : p \in Range(prices)} \ {None},
                unsure |-> UNION {p.unsure : p \in Range(prices)}]
    IN  IF uses = << >> THEN None
        ELSE sum(Whole([i \in DOMAIN uses |-> DatedPrice(provider, uses[i], surface)]))

-----------------------------------------------------------------------------
(* Reports on a ledger L in a window w                                     *)

InWindow(u, w) == (w.from # None => u.at >= w.from) /\ (w.to # None => u.at <= w.to)

Bucketed(uses) ==
    LET named == SelectSeq(uses, LAMBDA u : u.model # None)
        keys == SetToSeq({<<u.model, u.tier>> : u \in Range(named)})
    IN  [i \in DOMAIN keys |->
            [model |-> keys[i][1], tier |-> keys[i][2],
             tokens |-> SumTokens(SelectSeq(named, LAMBDA u : <<u.model, u.tier>> = keys[i]))]]

UsesOf(L, w, s) == SelectSeq(L.usage[s], LAMBDA u : InWindow(u, w))
Used(L, w) == {s \in L.known : \E u \in Range(UsesOf(L, w, s)) : u.tokens.input > 0 \/ u.model # None}
SpentIn(L, w, s) == SumTokens(UsesOf(L, w, s)).input
BucketsOf(L, w, s) == Bucketed(UsesOf(L, w, s))
Together(f, S) == FoldSet(LAMBDA s, all : all \o f[s], << >>, S)
BucketsBy(L, w, S, provider) == Together([s \in S |-> BucketsOf(L, w, s)], {s \in S : ProviderOf[s] = provider})

ReportPrice(provider, b) == IF provider = None THEN Unpriced ELSE PriceOf(provider, b, "plan", ReportDay)
ReportBuckets(provider, buckets) ==
    IF provider = None THEN [amount |-> None, omitted |-> {b.model : b \in Range(buckets)}]
    ELSE PriceBuckets(provider, buckets, "plan", ReportDay)

Providers == Range(ProviderOf)
Paid(currency, provider) == provider # None /\ CurrencyOf[provider] = currency

\* A bug: what can be priced of a model stands for all of it.
PricedPart(amounts) == SelectSeq(amounts, LAMBDA a : a # None)
AllOrNone(amounts) == IF None \in Range(amounts) THEN None ELSE amounts

\* The row of a provider's model, from all its buckets.
RangeRow(provider, mine) ==
    LET row(prices, amounts) ==
          [cost |-> IF amounts = None THEN None ELSE FoldLeft(LAMBDA n, a : n + a, 0, amounts),
           basis |-> FoldLeft(LAMBDA basis, p : LeastConfident(basis, p.basis), prices[1].basis, prices)]
        entered(prices) == row(prices, AllOrNone([i \in DOMAIN prices |-> prices[i].amount]))
    IN  entered([i \in DOMAIN mine |-> ReportPrice(provider, mine[i])])

RangeRows(of) ==
    [k \in UNION {{<<p, b.model>> : b \in Range(of[p])} : p \in DOMAIN of} |->
        RangeRow(k[1], SelectSeq(of[k[1]], LAMBDA b : b.model = k[2]))]

RangeReport(L, w) ==
    LET report(used, rows) ==
          [sessions |-> Cardinality(used), tokens |-> MapThenSumSet(LAMBDA s : SpentIn(L, w, s), used), rows |-> rows,
           unpriced |-> {k[2] : k \in {j \in DOMAIN rows : rows[j].cost = None}},
           costs |-> [c \in Range(CurrencyOf) |->
                         MapThenSumSet(LAMBDA k : OrZero(rows[k].cost), {k \in DOMAIN rows : Paid(c, k[1])})]]
        of(used) == [p \in Providers |-> BucketsBy(L, w, used, p)]
        over(used) == report(used, RangeRows(of(used)))
    IN  over(Used(L, w))

GroupIn(L, s) ==
    LET raw == IF L.assigned[s] # None THEN L.assigned[s] ELSE DetectedGroup[s]
    IN  IF raw = None THEN None ELSE L.redirect[raw]

ProjectUsage(L, w, members) ==
    LET usage(of, price, tokens) ==
          [sessions |-> Cardinality(members), tokens |-> tokens,
           costs |-> [c \in Range(CurrencyOf) |->
                         MapThenSumSet(LAMBDA p : OrZero(price[p].amount), {p \in DOMAIN of : Paid(c, p)})],
           complete |-> /\ \A p \in DOMAIN of : price[p].amount # None /\ price[p].omitted = {}
                        /\ MapThenSumSet(LAMBDA p : SumTokens(of[p]).input, DOMAIN of) >= tokens]
        priced(of) == usage(of, [p \in DOMAIN of |-> ReportBuckets(p, of[p])],
                            MapThenSumSet(LAMBDA s : SpentIn(L, w, s), members))
    IN  priced([p \in {ProviderOf[s] : s \in members} |-> BucketsBy(L, w, members, p)])

ProjectReport(L, w) ==
    LET over(used, group) ==
          [projects |-> [k \in {group[s] : s \in used} \ {None} |-> ProjectUsage(L, w, {s \in used : group[s] = k})],
           without |-> {s \in used : group[s] = None}]
        grouped(used) == over(used, [s \in used |-> GroupIn(L, s)])
    IN  grouped(Used(L, w))

\* Without a window, sessions that used nothing are listed too.
SessionReport(L, w) ==
    [s \in IF w.from = None /\ w.to = None THEN L.known ELSE Used(L, w) |->
        ReportBuckets(ProviderOf[s], BucketsOf(L, w, s))]

\* A bug: a row that could not be priced vouches for its model.
AnyRow(surface) == DOMAIN surface.rows
PricedModels(surface) ==
    {m \in DOMAIN surface.rows : ~surface.rows[m].unpriced /\ surface.rows[m].basis # "unavailable"}

\* pricing_coverage
Covered(tokens, buckets, surface) ==
    LET named == SumTokens(buckets)
    IN  /\ \A f \in DOMAIN tokens : tokens[f] <= named[f]
        /\ surface # None /\ \A b \in Range(buckets) : b.model \in PricedModels(surface)

\* A provider's row of the status line, and one category of the category report.
TotalsOf(provider, uses) ==
    LET totals(buckets, surface) ==
          [tokens |-> SumTokens(uses).input, plan |-> IF surface = None THEN 0 ELSE surface.total,
           complete |-> Covered(SumTokens(uses), buckets, surface)]
        priced(buckets) ==
          totals(buckets, IF provider = None THEN None ELSE PriceBucketsDetailed(provider, buckets, "plan", ReportDay))
    IN  priced(Bucketed(uses))

UsesBy(L, w, provider) == Together([s \in L.known |-> UsesOf(L, w, s)], {s \in L.known : ProviderOf[s] = provider})

StatuslineReport(L, w) ==
    LET uses == [p \in Providers |-> UsesBy(L, w, p)]
    IN  [p \in {q \in Providers : uses[q] # << >>} |-> TotalsOf(p, uses[p])]

CategoryReport(L, provider) ==
    LET by(uses) == [c \in {u.category : u \in Range(uses)} |->
                        TotalsOf(provider, SelectSeq(uses, LAMBDA u : u.category = c))]
    IN  by(UsesBy(L, [from |-> None, to |-> None], provider))

\* tools_report
CallsOf(uses) == FoldLeft(LAMBDA n, u : n + u.calls, 0, uses)
ToolsReport(L, w) == [p \in Providers |-> CallsOf(UsesBy(L, w, p))]

\* activity_heatmap: whole hours, also where the window begins or ends within one.
HourOf(at) == at \div ReportHour
HourWithin(h, w) == (w.from # None => h >= HourOf(w.from)) /\ (w.to # None => h <= HourOf(w.to))
UsesIn(L, s, h) == SelectSeq(L.usage[s], LAMBDA u : HourOf(u.at) = h)
ActivityHeatmap(L, w) ==
    LET hours == {h \in {HourOf(u.at) : u \in UNION {Range(L.usage[s]) : s \in L.known}} : HourWithin(h, w)}
    IN  [h \in hours |->
            [tokens |-> MapThenSumSet(LAMBDA s : SumTokens(UsesIn(L, s, h)).input, L.known),
             sessions |-> Cardinality({s \in L.known : UsesIn(L, s, h) # << >>})]]

\* accounting_summary_prices: a session's price, and that of each of its categories.
SummaryPrices(L, s, table) ==
    [c \in {u.category : u \in Range(L.usage[s])} \cup {"all"} |->
        PriceBucketsDetailed(ProviderOf[s], Bucketed(SelectSeq(L.usage[s], LAMBDA u : c \in {u.category, "all"})),
                             table, ReportDay)]

\* The pricing coverage of workflow_metrics.
WorkflowCoverage(L, w) ==
    LET sum(f, S) == MapThenSumSet(LAMBDA x : f[x].tokens.input, S)
        covered(bucket) ==
          [covered |-> sum(bucket, {x \in DOMAIN bucket : ReportPrice(ProviderOf[x[1]], bucket[x]).basis
                                                             \in {"direct", "aliased", "floating_alias"}}),
           of |-> sum(bucket, DOMAIN bucket)]
        over(used) == covered([x \in UNION {{<<s, i>> : i \in DOMAIN BucketsOf(L, w, s)} : s \in used} |->
                                  BucketsOf(L, w, x[1])[x[2]]])
    IN  over(Used(L, w))

-----------------------------------------------------------------------------
(* A request and the desktop                                               *)

Parts == <<"redirect", "assigned", "known", "lifecycle", "usage">>
PartOf(L, part) == IF part = "lifecycle" THEN L.known ELSE L[part]
Answered == request # None /\ DOMAIN request.got = Range(Parts)

LedgerChange == changes < MaxChanges /\ changes' = changes + 1 /\ UNCHANGED <<reportCard, request>>

RecordUsage(s, u) ==
    /\ LedgerChange
    /\ recorded' = [recorded EXCEPT !.known = @ \cup {s}, !.usage[s] = Append(@, u)]
Purge(s) ==
    /\ LedgerChange /\ s \in recorded.known
    /\ recorded' = [recorded EXCEPT !.known = @ \ {s}, !.usage[s] = << >>, !.assigned[s] = None]
Reassign(s, k) ==
    /\ LedgerChange /\ s \in recorded.known /\ recorded.assigned[s] # k
    /\ recorded' = [recorded EXCEPT !.assigned[s] = k]
MergeInto(k, j) ==
    /\ LedgerChange /\ recorded.redirect[k] = k /\ recorded.redirect[j] = j /\ k # j
    /\ recorded' = [recorded EXCEPT !.redirect = [g \in Groups |-> IF @[g] = k THEN j ELSE @[g]]]

\* open_read_only begins one transaction, and its first read fixes the snapshot.
OpenRequest(w) ==
    /\ request = None
    /\ request' = [window |-> w, seen |-> recorded, got |-> << >>]
    /\ UNCHANGED <<recorded, reportCard, changes>>

\* A bug: every helper reads through a connection of its own.
OwnConnection(part) == PartOf(recorded, part)
SharedTransaction(part) == PartOf(request.seen, part)

ReadPart ==
    /\ request # None /\ ~Answered
    /\ LET part == Parts[Cardinality(DOMAIN request.got) + 1]
       IN  request' = [request EXCEPT !.got = With(@, part, SharedTransaction(part))]
    /\ UNCHANGED <<recorded, reportCard, changes>>

ReportsInit ==
    /\ recorded = [redirect |-> [k \in Groups |-> k], assigned |-> [s \in Chats |-> None], known |-> {},
                 usage |-> [s \in Chats |-> << >>]]
    /\ reportCard \in ReportCards /\ request = None /\ changes = 0

ReportsNext ==
    \/ \E s \in Chats : \/ \E u \in Usages : RecordUsage(s, u)
                        \/ Purge(s) \/ \E k \in Groups \cup {None} : Reassign(s, k)
    \/ \E k, j \in Groups : MergeInto(k, j)
    \/ \E w \in ReportWindows : OpenRequest(w)
    \/ ReadPart

-----------------------------------------------------------------------------
\* Every session that was used is in one project or in none, and what the
\* projects, the sessions, the providers, the categories and the status line say
\* adds up to the range report of the same request, whatever the desktop wrote
\* meanwhile, and none is refused for a session without a lifecycle.  A price that is said to be complete is.
WellFormed(L) ==
    \A s \in L.known : \A u \in Range(L.usage[s]) : u.tokens.cached + u.tokens.written <= u.tokens.input

Total(f, S) == MapThenSumSet(LAMBDA k : f[k], S)
CostOf(sessions, c) == [s \in DOMAIN sessions |-> IF Paid(c, ProviderOf[s]) THEN OrZero(sessions[s].amount) ELSE 0]

TokensAddUp(L, w, range, projects, without, status) ==
    /\ range.tokens = Total([k \in DOMAIN projects |-> projects[k].tokens], DOMAIN projects)
                      + Total([s \in without |-> SpentIn(L, w, s)], without)
    /\ range.sessions = Total([k \in DOMAIN projects |-> projects[k].sessions], DOMAIN projects) + Cardinality(without)
    /\ range.tokens = Total([p \in DOMAIN status |-> status[p].tokens], DOMAIN status)

CostsAddUp(L, range, projects, without, sessions, status) ==
    \A c \in Range(CurrencyOf) : \A shown \in {Total(CostOf(sessions, c), DOMAIN sessions)} :
        /\ shown = Total([k \in DOMAIN projects |-> projects[k].costs[c]], DOMAIN projects)
                   + Total(CostOf(sessions, c), without)
        /\ range.costs[c] <= shown
        /\ range.unpriced = {} => range.costs[c] = shown
        /\ WellFormed(L) => shown = Total([p \in DOMAIN status |-> IF Paid(c, p) THEN status[p].plan ELSE 0], DOMAIN status)

CompletenessAgrees(range, projects, without, status, coverage) ==
    /\ (\A p \in DOMAIN status : status[p].complete) =>
          range.unpriced = {} /\ \A k \in DOMAIN projects : projects[k].complete
    /\ without = {} /\ (\A k \in DOMAIN projects : projects[k].complete) => \A p \in DOMAIN status : status[p].complete
    /\ coverage.covered = coverage.of => range.unpriced = {}

ReportsAddUp(L, w) ==
    LET agree(range, report, sessions, status) ==
          /\ DOMAIN sessions \subseteq L.lifecycle
          /\ range.unpriced = UNION {sessions[s].omitted : s \in DOMAIN sessions}
          /\ TokensAddUp(L, w, range, report.projects, report.without, status)
          /\ CostsAddUp(L, range, report.projects, report.without, sessions, status)
          /\ CompletenessAgrees(range, report.projects, report.without, status, WorkflowCoverage(L, w))
    IN  agree(RangeReport(L, w), ProjectReport(L, w), SessionReport(L, w), StatuslineReport(L, w))

\* The heatmap is the range report of the hours it touches, however the window cuts them.
HeatmapAddsUp(L, w) ==
    LET hours == [from |-> IF w.from = None THEN None ELSE HourOf(w.from) * ReportHour,
                  to |-> IF w.to = None THEN None ELSE (HourOf(w.to) + 1) * ReportHour - 1]
        spent(v) == Total([s \in L.known |-> SpentIn(L, v, s)], L.known)
        agree(cells) == /\ \A h \in DOMAIN cells : cells[h].sessions >= 1
                        /\ \A total \in {Total([h \in DOMAIN cells |-> cells[h].tokens], DOMAIN cells)} :
                              total = spent(hours) /\ total >= spent(w)
    IN  agree(ActivityHeatmap(L, w))

\* What a session costs is what its categories cost.
SummariesAddUp(L) ==
    LET agree(price) == price["all"] # None =>
                          price["all"].total = MapThenSumSet(LAMBDA c : price[c].total, DOMAIN price \ {"all"})
    IN  WellFormed(L) =>
          \A s \in L.known : \A table \in TablesOf(ProviderOf[s]) : agree(SummaryPrices(L, s, table))

CategoriesAddUp(L) ==
    LET tokens(categories) == MapThenSumSet(LAMBDA c : categories[c].tokens, DOMAIN categories)
    IN  \A p \in Providers :
          tokens(CategoryReport(L, p)) = SumTokens(UsesBy(L, [from |-> None, to |-> None], p)).input

\* The surface the desktop shows and the sum the command line gives are one price;
\* no model is left out of it silently, none looks surer than its least sure part,
\* and the order of the buckets is nothing.
SurfaceAgrees(provider, buckets, table, surface, sum) ==
    surface # None =>
      /\ surface.total = OrZero(sum.amount)
      /\ sum.omitted \subseteq surface.unpriced \cup surface.missing
      /\ \A m \in sum.omitted : m \notin PricedModels(surface)
      /\ \A b \in Range(buckets) : b.model \in DOMAIN surface.rows =>
            Rank[PriceOf(provider, b, table, ReportDay).basis] <= Rank[surface.rows[b.model].basis]
      /\ surface = PriceBucketsDetailed(provider, Reverse(buckets), table, ReportDay)

SurfacesAgree(L, w) ==
    LET agree(s, buckets, table, surface) ==
          /\ SurfaceAgrees(ProviderOf[s], buckets, table, surface, PriceBuckets(ProviderOf[s], buckets, table, ReportDay))
          /\ surface # None /\ WellFormed(L) =>
                SessionDetails(ProviderOf[s], UsesOf(L, w, s), table).total = surface.total
        over(s, buckets) == \A table \in TablesOf(ProviderOf[s]) :
                              agree(s, buckets, table, PriceBucketsDetailed(ProviderOf[s], buckets, table, ReportDay))
    IN  \A s \in Used(L, w) : over(s, BucketsOf(L, w, s))

\* A turn is shown at the price its session counts it at, unless its model is
\* declared free and has a price nevertheless.
TurnsAgree(L, w) ==
    \A s \in Used(L, w) : \A u \in Range(UsesOf(L, w, s)) : \A table \in TablesOf(ProviderOf[s]) :
        LET provider == ProviderOf[s]
        IN  /\ provider # None /\ u.model # None /\ u.model \notin reportCard.free
            /\ IsApi(table) => reportCard.apiModels # << >>
            => PriceTurn(provider, u, table, ReportDay) = OrZero(PriceOf(provider, u, table, ReportDay).amount)

\* A dated price covers all of the session's usage, at prices in force on the
\* day, and says what it could not know; or there is none.
DatedIsWhole(L, w) ==
    LET inForce(u, dated, surface) ==
          \E p \in Range(reportCard.dated) : p.id \in dated.periods /\ Covers(p, u.at) /\ p.surface = surface
        whole(uses, dated, surface) ==
          dated # None => \A u \in Range(uses) : u.tokens.input > 0 =>
                            /\ u.model # None /\ inForce(u, dated, surface)
                            /\ u.tier # "odd" /\ u.model \notin reportCard.unpriced
    IN  \A s \in Used(L, w) : \A surface \in SurfacesOf(ProviderOf[s]) :
          whole(UsesOf(L, w, s), DatedSurface(ProviderOf[s], UsesOf(L, w, s), surface), surface)

ReportsAreSound ==
    Answered => /\ ReportsAddUp(request.got, request.window) /\ CategoriesAddUp(request.got)
                /\ HeatmapAddsUp(request.got, request.window) /\ SummariesAddUp(request.got)
                /\ SurfacesAgree(request.got, request.window) /\ TurnsAgree(request.got, request.window)
                /\ DatedIsWhole(request.got, request.window)
=============================================================================
