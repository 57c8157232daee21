----------------------------- MODULE MCSurfaces -----------------------------
(***************************************************************************)
(* Small instances of what reads the ledger, and of what is set up around  *)
(* it.  Each behaviour has one subject; the state of the others stands     *)
(* still.                                                                  *)
(***************************************************************************)
EXTENDS RangeTotals, RateCards, AccountingExport, McpSetup, SchemaMigration, WorkflowFindings, TranscriptReading, Configuration, InstructionInventory, UsageReports

VARIABLE subject

Subjects == {"ranges", "rates", "export", "setup", "schema", "workflow", "transcript",
             "settings", "timeline", "instructions", "reports"}
surfaceVars == <<rangeVars, rateVars, exportVars, setupVars, schemaVars, workflowVars,
                 transcriptVars, settingsVars, configEventVars, inventoryVars, reportVars, subject>>

-----------------------------------------------------------------------------
\* What is recorded, and asked for.
Tokens(at, model, n) == [at |-> at, model |-> model, tier |-> None, n |-> n]
MCTokenEvents == {Tokens(4, None, 2), Tokens(5, "m", 3)}
Mutation(at) == [at |-> at, model |-> "m", kind |-> "mutation", failed |-> FALSE, turn |-> "t",
                 target |-> "f", servers |-> {}]
MCToolEvents == {Mutation(2), Mutation(7), [Mutation(4) EXCEPT !.kind = "read", !.failed = TRUE, !.servers = {"x"}]}
MCFindings == {[at |-> 3]}
Windowed == [from : {None, 1, 2, 5}, to : {None, 2, 5, 6}]
MCBatches == {<<a, b>> : a \in {w \in Windowed : w.from # None /\ w.to # None => w.from <= w.to},
                         b \in {[from |-> None, to |-> None], [from |-> 2, to |-> None], [from |-> 1, to |-> 6]}}

\* Three releases of the bundled card.
NoNames == [x \in {} |-> None]
Period(id, from, to, price) == [id |-> id, from |-> from, to |-> to, price |-> price]
Released(v, models, ends, floating, periods) ==
    [version |-> v, models |-> [x \in models |-> v], ends |-> ends,
     aliases |-> IF v = 1 THEN [x \in {"l"} |-> "a"] ELSE NoNames, floating |-> floating,
     unpriced |-> {}, free |-> {}, fallback |-> "a", periods |-> periods, review |-> {}]
EndsAtTwo == [x \in {"b"} |-> 2]
Pointing(target, expires) == [x \in {"l"} |-> [target |-> target, expires |-> expires]]
MCBundles == <<
    Released(1, {"a"}, NoNames, NoNames, <<Period("p", 0, None, 1)>>),
    Released(2, {"a", "b"}, EndsAtTwo, Pointing("a", 1), <<Period("p", 0, 2, 1), Period("q", 2, None, 2)>>),
    Released(3, {"a", "b"}, EndsAtTwo, Pointing("b", 2),
             <<Period("p", 0, 2, 1), Period("q", 2, 3, 2), Period("r", 3, None, 3)>>) >>
MCCustomPeriods == {Period("u", 1, 3, 9), Period("p", 0, 1, 9)}

\* Sessions a workflow report compares.
Uses1(rules) == [calls |-> 1, tokens |-> 1, observed |-> 1, rules |-> rules]
TokensOnly == [calls |-> 0, tokens |-> 1, observed |-> 0, rules |-> {}]
Compared(id, readable, before, after) ==
    [id |-> id, readable |-> readable, whole |-> TRUE, before |-> Uses1(before), after |-> Uses1(after)]
Chatted(id, readable) ==
    [id |-> id, readable |-> readable, whole |-> TRUE, before |-> TokensOnly, after |-> TokensOnly]
Selected(sessions, confounded) == [sessions |-> sessions, covered |-> TRUE, confounded |-> confounded]
MCSelections ==
    {Selected({Compared(1, TRUE, {"r"}, {})}, FALSE),
     Selected({Compared(1, TRUE, {}, {"r"}), Chatted(2, FALSE)}, FALSE),
     Selected({Compared(1, TRUE, {"r"}, {"r"}), Compared(2, TRUE, {"r"}, {})}, FALSE),
     Selected({Compared(1, TRUE, {}, {"r"})}, TRUE),
     Selected({Compared(1, TRUE, {"r"}, {}), Compared(2, FALSE, {}, {})}, FALSE),
     Selected({}, FALSE)}

\* A hook of the harness, and instructions in its directory and in the work tree
\* around it, which Settings may name.
Kept(dir, kind) == [dir |-> dir, kind |-> kind]
MCTracked == {Kept("h", "nested"), Kept("h", "instructions"), Kept("p", "instructions")}
MCConfigOf == [p |-> "h"]
MCBelow == {<<"p", "h">>}
MCInstructionRoots == {[dir |-> "p", recursive |-> TRUE], [dir |-> "p", recursive |-> FALSE],
                       [dir |-> "h", recursive |-> FALSE]}

\* A harness's home beside a work tree, and a directory that no walk enters.
WorkTree == <<"w", "p">>
MCGlobals == {<<"w", "h">>}
MCRepositories == {WorkTree}
Instructs(dir) == [dir |-> dir, harness |-> "codex"]
MCInstructionFiles ==
    {Instructs(d) : d \in MCGlobals \cup {<<"w">>, WorkTree, WorkTree \o <<"q">>, <<"w", "build">>}}
MCUnreadable == {Instructs(<<"w", "build">>)}
Named(dir, recursive) == [dir |-> dir, recursive |-> recursive]
Chosen(enabled, roots) == [enabled |-> enabled, roots |-> roots]
MCSettingsChoices ==
    {Chosen(FALSE, {}), Chosen(TRUE, {}), Chosen(TRUE, {Named(<<"w">>, TRUE), Named(WorkTree, FALSE)}),
     Chosen(TRUE, {Named(<<"w", "build">>, FALSE), Named(<<"w", "h">>, TRUE)}),
     Chosen(TRUE, {Named(WorkTree, FALSE), Named(<<"w", "h">>, FALSE)})}

\* What a transcript holds when it is first read.
MCWritten == {<<"ok", "ok">>, <<"more", "ok">>, <<"bad">>}

\* Sessions of a provider with every table, of another, and of none; and cards
\* that name, guess, refuse or give away the same model.
MCProviderOf == [s |-> "codex", t |-> "claude", u |-> None]
MCDetectedGroup == [s |-> "g", t |-> "g", u |-> None]
MCCurrencyOf == [codex |-> "credits", claude |-> "USD"]
Spent(input, cached, wrote) == [input |-> input, cached |-> cached, written |-> wrote]
Usage(at, model, tier, amount, asked, category) ==
    [at |-> at, model |-> model, tier |-> tier, tokens |-> amount, request |-> asked, category |-> category,
     calls |-> 1]
MCUsages ==
    {Usage(0, "a", "standard", Spent(3, 1, 1), 3, "build"), Usage(1, "a", "fast", Spent(2, 0, 0), None, "ask"),
     Usage(1, "l", "standard", Spent(2, 1, 0), 2, "build"), Usage(1, "l", "odd", Spent(1, 0, 0), 1, "ask"),
     Usage(0, None, "standard", Spent(1, 0, 0), None, "ask"), Usage(1, "a", "standard", Spent(1, 1, 1), 1, "build")}
AtRate(price, wrote) == [price |-> price, cached |-> 1, written |-> wrote]
Dated(id, owner, to, rate) == [id |-> id, surface |-> owner, model |-> "a", from |-> id - 1, to |-> to, rate |-> rate]
Modified(tier, above, factor) ==
    [surface |-> "purchased", model |-> "a", from |-> 0, to |-> None, tier |-> tier, above |-> above, factor |-> factor]
Aliasing ==
    [version |-> 1, models |-> [x \in {"a"} |-> AtRate(3, None)], apiModels |-> [x \in {"a"} |-> AtRate(5, 6)],
     ends |-> NoNames, aliases |-> [x \in {"l"} |-> "a"], floating |-> NoNames,
     unpriced |-> {}, free |-> {}, fallback |-> "none",
     dated |-> <<Dated(1, "purchased", 2, AtRate(2, 2)), Dated(2, "api", None, AtRate(4, None)),
                 Dated(1, "claude", 1, AtRate(4, 5))>>,
     modifiers |-> {Modified("fast", None, 3), Modified(None, 2, 2)}]
MCReportCards ==
    {Aliasing, [Aliasing EXCEPT !.aliases = NoNames, !.fallback = "a"], [Aliasing EXCEPT !.unpriced = {"l"}],
     [Aliasing EXCEPT !.free = {"l"}, !.apiModels = NoNames],
     [Aliasing EXCEPT !.aliases = NoNames, !.ends = [x \in {"a"} |-> 1]]}
MCReportWindows == {[from |-> None, to |-> None], [from |-> 1, to |-> 1]}

-----------------------------------------------------------------------------
MCInit ==
    /\ subject \in Subjects
    /\ RangeInit /\ RatesInit /\ ExportInit /\ SetupInit /\ WorkflowInit
    /\ SchemaInit /\ (subject # "schema" => userVersion = 0)
    /\ TranscriptInit /\ (subject # "transcript" => files[1].units = <<"bad">>)
    /\ SettingsInit
    /\ ConfigEventsInit /\ named = {}
    /\ Cardinality({f \in Tracked : held[f] # None}) <= (IF subject = "timeline" THEN 1 ELSE 0)
    /\ \A f \in Tracked : held[f] # 2
    /\ InventoryInit /\ Cardinality(InstructionFiles \ present) = 1
    /\ Instructs(WorkTree \o <<"q">>) \in present
    /\ subject # "instructions" => ~wish.enabled /\ Instructs(WorkTree) \notin present
    /\ ReportsInit /\ (subject # "reports" => reportCard = Aliasing)

\* Bounds: what each subject leaves alone.
OneExport ==
    /\ exported = None /\ (totals' # None => job' = None)
    /\ facts' + saves' + clock' <= 2
    /\ coverage' # coverage => job # None /\ job.kind = "activity"
    /\ job' # None => job'.keys = Ledgers
OneUncertainView ==
    LET second == "w"
    IN  reports'[second] # None /\ reports[second] = None =>
            \E f \in DOMAIN reports'[second].findings : reports'[second].findings[f].grounds.seen
SourceCursors(cs) == {c \in cs : IsSource(c)}
OneChain ==
    /\ Cardinality(cursors') <= 2 /\ Cardinality(SourceCursors(cursors')) <= 1
    /\ found # None => <<fileVars, watcherVars>>' = <<fileVars, watcherVars>>
    /\ IF cursors = SourceCursors(cursors) THEN snapshot' = snapshot
       ELSE <<fileVars, watcherVars, reading>>' = <<fileVars, watcherVars, reading>>

\* The hooks may be missing when the watcher starts, or the watch may fail.
MayBeUnwatched == {[dir |-> "h", what |-> "nested"]}
\* One file is ever there: what is read of the others need not be told apart.
ReadTogether(d) == d # None => DOMAIN d.found \in {{}, Tracked}
\* What Settings and sessions name is looked at only where the watcher is started.
StaleRoots ==
    starts > 0 /\ (discovery[starts] = None \/ discovery[starts].watching) /\ Roots # watched
OneFileChanges ==
    /\ past' # past => Cardinality({f \in Tracked : past'[f] # <<None>>}) <= 1
    /\ \A n \in 1..MaxStarts : ReadTogether(discovery'[n])
    /\ named' # named \/ ~(settled' \subseteq settled) =>
         /\ starts < MaxStarts /\ IoFree
         /\ Cardinality(settled') + Cardinality(named') <= 2 /\ (starts = 0 => named' = {})
    /\ watched' # watched => PlacesOf(watched') \ watchable' \subseteq MayBeUnwatched
    /\ starts' = starts => ~StaleRoots
OneProviderEdited ==
    pendingSave' # None =>
        Cardinality({p \in BuiltIn : pendingSave'.roots[p] # Discovered(form)[p]}) <= 1
OneInventoryChange == diskChanges' + instructionSaves' <= 1

\* What is used is used before a report is asked for.
UsedBefore == request = None \/ recorded'.usage = recorded.usage \/ recorded'.known # recorded.known

\* The others stand still.
Only(s) ==
    /\ subject' = s
    /\ IF s = "ranges" THEN TRUE ELSE UNCHANGED rangeVars
    /\ IF s = "rates" THEN TRUE ELSE UNCHANGED rateVars
    /\ IF s = "export" THEN TRUE ELSE UNCHANGED exportVars
    /\ IF s = "setup" THEN TRUE ELSE UNCHANGED setupVars
    /\ IF s = "schema" THEN TRUE ELSE UNCHANGED schemaVars
    /\ IF s = "workflow" THEN TRUE ELSE UNCHANGED workflowVars
    /\ IF s = "transcript" THEN TRUE ELSE UNCHANGED transcriptVars
    /\ IF s = "settings" THEN TRUE ELSE UNCHANGED settingsVars
    /\ IF s = "timeline" THEN TRUE ELSE UNCHANGED configEventVars
    /\ IF s = "instructions" THEN TRUE ELSE UNCHANGED inventoryVars
    /\ IF s = "reports" THEN TRUE ELSE UNCHANGED reportVars

MCNext ==
    \/ subject = "ranges" /\ RangeNext /\ Only("ranges")
    \/ subject = "rates" /\ RatesNext /\ Only("rates")
    \/ subject = "export" /\ ExportNext /\ OneExport /\ Only("export")
    \/ subject = "setup" /\ SetupNext /\ Only("setup")
    \/ subject = "schema" /\ SchemaNext /\ Only("schema")
    \/ subject = "workflow" /\ WorkflowNext /\ OneUncertainView /\ Only("workflow")
    \/ subject = "transcript" /\ TranscriptNext /\ OneChain /\ Only("transcript")
    \/ subject = "settings" /\ SettingsNext /\ OneProviderEdited /\ Only("settings")
    \/ subject = "instructions" /\ InventoryNext /\ OneInventoryChange /\ Only("instructions")
    \/ subject = "reports" /\ ReportsNext /\ UsedBefore /\ Only("reports")
    \/ subject = "timeline" /\ ConfigEventsNext /\ OneFileChanges /\ Only("timeline")

MCSpec == MCInit /\ [][MCNext]_surfaceVars

-----------------------------------------------------------------------------
\* What is shown of the ledger is what it holds, and what is kept around it was
\* earned: each part's own statement of it.
SurfacesAreSound ==
    CASE subject = "ranges" -> RangesAreExact
      [] subject = "rates" -> RatesAreKept
      [] subject = "schema" -> MigrationIsSound
      [] subject = "workflow" -> FindingsAreEarned
      [] subject = "transcript" -> WhatIsCompleteWasSeen
      [] subject = "settings" -> SettingsAreKept
      [] subject = "timeline" -> ConfigurationIsTrue
      [] subject = "instructions" -> InventoryIsSound
      [] subject = "reports" -> ReportsAreSound
      [] OTHER -> TRUE

\* What a step may do to an export, to a client's configuration and to what is
\* recorded of a finding.
SurfaceStepsAreSound ==
    [][CASE subject = "export" -> ExportsAreTrue
         [] subject = "setup" -> OnlyTheOwnEntryChanges
         [] subject = "workflow" -> FindingsMoveOn
         [] subject = "settings" -> ForeignSettingsSurvive
         [] OTHER -> TRUE]_surfaceVars
=============================================================================
