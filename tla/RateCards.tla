----------------------------- MODULE RateCards -----------------------------
(***************************************************************************)
(* The rate card (rates.rs): one is embedded in each version of the app,   *)
(* the user's own is saved beside a backup, and an older one that is read  *)
(* is brought up to the embedded one without losing what the user set.     *)
(*                                                                         *)
(* A card is [version, models, ends, aliases, floating, unpriced, free,    *)
(* fallback, periods, review]: tables from names to prices, to the day a   *)
(* flat price ends, to another name, to [target, expires]; sets of names;  *)
(* and a sequence of [id, from, to, price], where to may be None.  The     *)
(* second table of prices, the currencies and the conditional modifiers    *)
(* are kept as models and periods are.  "mine" and "own" are ghosts: the   *)
(* prices the user gave, as far as the app can tell them from embedded     *)
(* ones, and the names the user gave an alias.                             *)
(***************************************************************************)
EXTENDS Absent, Integers, Sequences, FiniteSets, Functions, SequencesExt

CONSTANTS Bundles,          \* the embedded card of each version of the app
          Archived,         \* the versions kept under rate-history
          FirstFloating,    \* versions before it had no floating aliases (11)
          Names, Prices, CustomPeriods,  \* what is asked for and what users set
          Today,            \* the days at which prices are asked for
          MaxEdits          \* bound

VARIABLES
    version,       \* of the app that runs
    rateFile,      \* rates.json: None or [card, mine, own]
    lastValid,     \* rates.last-valid.json
    editor,        \* the card being edited, or None
    saving,        \* a save between its two writes: what it writes, or None
    edits

rateVars == <<version, rateFile, lastValid, editor, saving, edits>>

With(table, k, v) == [x \in DOMAIN table \cup {k} |-> IF x = k THEN v ELSE table[x]]
Without(table, k) == [x \in DOMAIN table \ {k} |-> table[x]]
\* entry(k).or_insert(v) for every entry of the second table
OrInsert(table, more) == [x \in DOMAIN table \cup DOMAIN more |->
                            IF x \in DOMAIN table THEN table[x] ELSE more[x]]
Holds(table, k, v) == k \in DOMAIN table /\ table[k] = v

-----------------------------------------------------------------------------
(* Effective-dated prices.                                                 *)

Covers(p, at) == at >= p.from /\ (p.to # None => at < p.to)
Overlap(p, q) == /\ p.to # None => q.from < p.to
                 /\ q.to # None => p.from < q.to

\* PricingCatalog::validate
ValidPeriods(periods) ==
    /\ \A i \in DOMAIN periods : periods[i].to # None => periods[i].to > periods[i].from
    /\ \A i, j \in DOMAIN periods :
          i # j => periods[i].id # periods[j].id /\ ~Overlap(periods[i], periods[j])

\* rate_at: the first that contains the moment.
RateAt(periods, at) ==
    LET hits == SelectSeq(periods, LAMBDA p : Covers(p, at))
    IN  IF hits = << >> THEN None ELSE hits[1].price

-----------------------------------------------------------------------------
(* merge_older_override.  "was" is the archived card of the file's version *)
(* or None.                                                                *)

FromDefault(was, table, k, v) == was # None /\ Holds(was[table], k, v)

\* A bug: the embedded price replaces whatever was saved.
TakesTheNewer(disk, now, was, table) == DOMAIN now[table]
Replaced(disk, now, was, table) ==
    {k \in DOMAIN now[table] : k \in DOMAIN disk[table] => FromDefault(was, table, k, disk[table][k])}

\* merge_default_entries
TakeEntries(disk, now, table, new) ==
    [disk EXCEPT
        ![table] = [k \in DOMAIN disk[table] \cup new |-> IF k \in new THEN now[table][k] ELSE disk[table][k]],
        !.review = (@ \ {<<table, k>> : k \in new}) \cup {<<table, k>> : k \in DOMAIN disk[table] \ new}]
MergeEntries(disk, now, was, table) == TakeEntries(disk, now, table, Replaced(disk, now, was, table))

\* A bug: an embedded period is added over one of the user's.
IgnoresOthers(periods, p) == FALSE
Overlaid(periods, p) == \E i \in DOMAIN periods : periods[i].id # p.id /\ Overlap(periods[i], p)

\* merge_older_catalog, one embedded period after the other.
DefaultPeriod(was, q) == was # None /\ \E k \in DOMAIN was.periods : was.periods[k] = q
MergePeriod(was, disk, p) ==
    IF Overlaid(disk.periods, p) THEN disk
    ELSE IF \A i \in DOMAIN disk.periods : disk.periods[i].id # p.id THEN [disk EXCEPT !.periods = Append(@, p)]
    ELSE IF \E q \in Range(disk.periods) : q.id = p.id /\ DefaultPeriod(was, q)
         THEN [disk EXCEPT !.periods = [i \in DOMAIN @ |-> IF @[i].id = p.id THEN p ELSE @[i]]]
    ELSE [disk EXCEPT !.review = @ \cup {<<"pricing_catalog", p.id>>}]

\* A static alias that a later card declares floating was the older card's own.
Superseded(disk, now, k) ==
    disk.version < FirstFloating /\ k \in DOMAIN now.floating /\ Holds(disk.aliases, k, now.floating[k].target)

\* A bug: the static alias stays and outlives the floating one's expiry.
KeepsStatic(disk, now) == disk.aliases
KeptAliases(disk, now) == Restrict(disk.aliases, {k \in DOMAIN disk.aliases : ~Superseded(disk, now, k)})

\* The user's static aliases shadow what is floating in the embedded card.
Shadowing(disk, now) ==
    {k \in DOMAIN disk.aliases \cap DOMAIN now.floating : ~Superseded(disk, now, k)}
TrimFloating(disk, was, own) ==
    [disk EXCEPT !.floating = Restrict(@, {k \in DOMAIN @ : ~(k \in own /\ FromDefault(was, "floating", k, @[k]))}),
                 !.review = @ \cup {<<"model_aliases", k>> : k \in own}]
Outside(now, own) == [now EXCEPT !.floating = Restrict(@, DOMAIN @ \ own)]
FloatOver(disk, now, was, own) ==
    MergeEntries(TrimFloating(disk, was, own), Outside(now, own), was, "floating")
MergeFloating(disk, now, was) == FloatOver(disk, now, was, Shadowing(disk, now))

\* A bug: the end of a flat price is only what the saved card knows.
OldEnds(disk, now) == disk.ends
MergedEnds(disk, now) ==
    OrInsert(disk.ends, Restrict(now.ends, {m \in DOMAIN now.ends : <<"models", m>> \notin disk.review}))

\* Names without a price, aliases, free models and the user's own periods.
MergeNames(disk, now, was, priced) ==
    [priced EXCEPT
        !.unpriced = @ \cup {m \in now.unpriced :
                        m \in DOMAIN priced.models => FromDefault(was, "models", m, priced.models[m])},
        !.aliases = OrInsert(KeptAliases(disk, now), now.aliases),
        !.free = @ \cup now.free,
        !.review = @ \cup {<<"pricing_catalog", id>> :
                        id \in {p.id : p \in Range(disk.periods)} \ {p.id : p \in Range(now.periods)}}]
MergePeriods(card, now, was) == FoldLeft(LAMBDA c, p : MergePeriod(was, c, p), card, now.periods)
Stamped(card, now) == [card EXCEPT !.version = now.version, !.ends = MergedEnds(card, now)]
MergeFrom(disk, now, was) ==
    Stamped(MergePeriods(
        MergeNames(disk, now, was, MergeFloating(MergeEntries(disk, now, was, "models"), now, was)), now, was), now)

ArchivedCard(v) == IF v \in Archived THEN Bundles[v] ELSE None
MergeOlderOverride(disk, now) ==
    IF disk.version >= now.version THEN disk ELSE MergeFrom(disk, now, ArchivedCard(disk.version))

-----------------------------------------------------------------------------
(* load_at, get_rates and save_at.                                         *)

Bundled == [card |-> Bundles[version], mine |-> << >>, own |-> {}]
Damaged == [card |-> None, mine |-> << >>, own |-> {}]
Readable(f) == f # None /\ f.card # None /\ ValidPeriods(f.card.periods)
Upgraded(f) == [f EXCEPT !.card = MergeOlderOverride(@, Bundles[version])]

\* load_at: the first file that is read and upgraded as a valid card; the backup
\* is not looked at where nothing was ever saved.
Usable(f) == IF Readable(f) THEN Upgraded(f) ELSE None
FirstOf(files) ==
    LET loaded == SelectSeq(files, LAMBDA f : Readable(f))
    IN  IF loaded = << >> THEN Bundled ELSE loaded[1]
GetRates == IF rateFile = None THEN Bundled ELSE FirstOf(<<Usable(rateFile), Usable(lastValid)>>)

OpenEditor == editor' = GetRates /\ UNCHANGED <<version, rateFile, lastValid, saving, edits>>

Edit ==
    /\ editor # None /\ edits < MaxEdits /\ edits' = edits + 1
    /\ \/ \E m \in Names, p \in Prices :
            editor' = [card |-> [editor.card EXCEPT !.models = With(@, m, p)],
                       mine |-> With(editor.mine, m, p), own |-> editor.own]
       \/ \E p \in CustomPeriods : editor' = [editor EXCEPT !.card.periods = Append(@, p)]
       \/ \E k \in Names, m \in Names : editor' = [editor EXCEPT !.card.aliases = With(@, k, m), !.own = @ \cup {k}]
    /\ UNCHANGED <<version, rateFile, lastValid, saving>>

\* What equals the embedded price cannot be told from it later.
Recognized(e) ==
    [e EXCEPT !.mine = Restrict(@, {m \in DOMAIN @ : ~Holds(Bundles[e.card.version].models, m, @[m])})]

\* set_rates: validated, written in place at once, under the publication lock.
SaveCard ==
    /\ editor # None /\ saving = None /\ ValidPeriods(editor.card.periods)
    /\ rateFile' = Recognized(editor) /\ saving' = Recognized(editor)
    /\ editor' = None
    /\ UNCHANGED <<version, lastValid, edits>>

\* The backup that follows may fail.
SaveBackup ==
    /\ saving # None /\ saving' = None
    /\ lastValid' \in {saving, lastValid}
    /\ UNCHANGED <<version, rateFile, editor, edits>>

\* The app ends at any point, and another version may be started.
Restart ==
    /\ version' \in {v \in {version, version + 1} : v \in DOMAIN Bundles}
    /\ editor' = None /\ saving' = None
    /\ UNCHANGED <<rateFile, lastValid, edits>>

\* The saved card becomes unreadable.
DamageCard ==
    /\ rateFile # None /\ rateFile' = Damaged
    /\ UNCHANGED <<version, lastValid, editor, saving, edits>>

RatesInit ==
    /\ version = 1 /\ rateFile = None /\ lastValid = None
    /\ editor = None /\ saving = None /\ edits = 0

RatesNext == OpenEditor \/ Edit \/ SaveCard \/ SaveBackup \/ Restart \/ DamageCard

-----------------------------------------------------------------------------
(* resolve_model_pricing, for a card that is not stale.                    *)

\* resolve_alias: hops until a name has none or comes again.
ResolveAlias(aliases, model) ==
    LET hop[seen \in SUBSET Names, at \in Names] ==
          IF at \in DOMAIN aliases /\ at \notin seen THEN hop[seen \cup {at}, aliases[at]] ELSE at
    IN  hop[{}, model]

Ended(card, m, day) == m \in DOMAIN card.ends /\ day >= card.ends[m]

\* A bug: a floating alias is trusted for good.
TrustedForever(card, model, day) == model \in DOMAIN card.floating
Trusted(card, model, day) == model \in DOMAIN card.floating /\ day <= card.floating[model].expires

NotPriced(card, m, day) == m \in card.unpriced \/ Ended(card, m, day)
Resolved(card, m, basis, day) ==
    [model |-> m, fallback |-> basis = "fallback",
     basis |-> IF NotPriced(card, m, day) THEN "unavailable" ELSE basis]
NamedPrice(card, model, static, day) ==
    IF NotPriced(card, model, day) THEN <<model, "unavailable">>
    ELSE IF model \in DOMAIN card.models THEN <<model, "direct">>
    ELSE IF Trusted(card, model, day) /\ card.floating[model].target \in DOMAIN card.models
         THEN <<card.floating[model].target, "floating_alias">>
    ELSE IF model \in DOMAIN card.aliases /\ static \in DOMAIN card.models THEN <<static, "aliased">>
    ELSE IF card.fallback \in DOMAIN card.models THEN <<card.fallback, "fallback">>
    ELSE <<model, "unavailable">>
ResolvedAs(card, found, day) == Resolved(card, found[1], found[2], day)

ResolveModelPricing(card, model, day) ==
    IF model \in card.free THEN [model |-> model, fallback |-> FALSE, basis |-> "free_local"]
    ELSE ResolvedAs(card, NamedPrice(card, model, ResolveAlias(card.aliases, model), day), day)

-----------------------------------------------------------------------------
Basis(card, m, day) == ResolveModelPricing(card, m, day).basis

\* What the embedded card bounds in time does not price past its end.
EndsAreKept(used, now, day) ==
    /\ \A m \in {x \in DOMAIN now.ends \ DOMAIN used.mine : day >= now.ends[x]} :
          <<"models", m>> \notin used.card.review => Basis(used.card, m, day) # "direct"
    /\ \A m \in {x \in DOMAIN now.floating : day > now.floating[x].expires} :
          m \notin used.own \cup DOMAIN used.card.models /\ <<"model_aliases", m>> \notin used.card.review
          => Basis(used.card, m, day) \notin {"floating_alias", "aliased"}
KeepsTheUsers(used, file) ==
    /\ file # None /\ Readable(file) => used.mine = file.mine /\ used.own = file.own
    /\ \A m \in DOMAIN used.mine : Holds(used.card.models, m, used.mine[m])

\* Whatever is saved, interrupted, damaged and upgraded: a card that was saved
\* as valid is still in use after the upgrade, with every price the user gave,
\* one period at most prices a moment, and what the embedded card bounds in
\* time (a floating alias, a flat price) does not price past its end unless the
\* user said so or is asked to review it.
RatesAreKept ==
    /\ \A f \in {rateFile, lastValid} : Readable(f) => Readable(Upgraded(f))
    /\ \A used \in {GetRates} :
        /\ KeepsTheUsers(used, rateFile)
        /\ \A day \in Today :
            /\ Cardinality({i \in DOMAIN used.card.periods : Covers(used.card.periods[i], day)}) <= 1
            /\ EndsAreKept(used, Bundles[version], day)
=============================================================================
