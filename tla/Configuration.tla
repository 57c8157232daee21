--------------------------- MODULE Configuration ---------------------------
(***************************************************************************)
(* The application's settings file (config.rs), which builds of other      *)
(* versions write as well, and the timeline of changes to the harnesses'   *)
(* own configuration files (config_events.rs).                             *)
(***************************************************************************)
EXTENDS Absent, Integers, Sequences, FiniteSetsExt, SequencesExt

CONSTANTS RootSets,         \* what the session roots of a provider may be
          Seed,             \* of them, the default ones
          OtherProviders,          \* providers this build has no adapter for
          Malformed,        \* what cannot be read
          MaxSettingsSaves  \* bound

VARIABLES
    settingsFile,  \* config.json: None, Malformed or [version, providers, flat, extra]
    form,    \* the Settings window's copy, or None
    pendingSave, \* a save that is under way: None or [previous, next, roots, restarts]
    running, \* the roots that the live session watcher watches, by provider, or None
    settingsSaves,   \* how often the file was written
    wanted,   \* not in the code: the roots last saved in Settings, while they should hold
    strayed,  \* not in the code: the file was written by another, or cut short, since running was taken from it
    outdated  \* not in the code: and since the window was opened

foreignVars == <<wanted, strayed, outdated>>
settingsVars == <<settingsFile, form, pendingSave, running, settingsSaves, foreignVars>>

ConfigVersion == 1
Mirrored == {"codex", "claude"}
BuiltIn == Mirrored \cup {"gemini"}

Provider(live, extra) == [live |-> live, extra |-> extra]

KeptProviders == [live : RootSets \cup {{}}, extra : BOOLEAN]
ProviderMaps == UNION {[ids -> KeptProviders] : ids \in SUBSET (BuiltIn \cup OtherProviders)}
Settings ==
    [version : 0..2, providers : ProviderMaps, flat : [Mirrored -> RootSets \cup {{}}], extra : BOOLEAN]
ASSUME SettingsAssumption ==
    /\ Seed \in RootSets /\ None # Malformed /\ OtherProviders \cap BuiltIn = {}
    /\ {None, Malformed} \cap Settings = {} /\ None \notin [BuiltIn -> RootSets]
Set(f, x, y) == [z \in DOMAIN f \cup {x} |-> IF z = x THEN y ELSE f[z]]

\* entry(id).or_default(), with other live roots
WithRoots(providers, id, live) ==
    Set(providers, id, Provider(live, id \in DOMAIN providers /\ providers[id].extra))

DefaultConfig ==
    [version |-> 0, providers |-> [x \in {} |-> None], flat |-> [p \in Mirrored |-> Seed], extra |-> FALSE]

IsLegacy(c) == c.version < ConfigVersion

Mirror(providers) == [p \in Mirrored |-> IF p \in DOMAIN providers THEN providers[p].live ELSE {}]

FromFlat(c) ==
    [c EXCEPT !.version = ConfigVersion,
              !.providers = WithRoots(WithRoots(@, "codex", c.flat["codex"]), "claude", c.flat["claude"])]

\* A bug: Gemini's roots are seeded whenever it has none.
SeedsWhenEmpty(providers) == "gemini" \notin DOMAIN providers \/ providers["gemini"].live = {}
NeverSaved(providers) == "gemini" \notin DOMAIN providers

Normalized(c) ==
    LET n == IF IsLegacy(c) THEN FromFlat(c) ELSE [c EXCEPT !.flat = Mirror(c.providers)]
    IN  IF NeverSaved(n.providers) THEN [n EXCEPT !.providers = WithRoots(@, "gemini", Seed)] ELSE n

Loaded == IF settingsFile \in {None, Malformed} THEN DefaultConfig ELSE Normalized(settingsFile)

Writes == settingsSaves < MaxSettingsSaves /\ settingsSaves' = settingsSaves + 1

\* The roots that are watched and scanned: those of the providers this build
\* knows.  (No two providers share one: such settings are refused.)
Discovered(c) ==
    LET providers == Normalized(c).providers
    IN  [p \in BuiltIn |-> IF p \in DOMAIN providers THEN providers[p].live ELSE {}]

\* Config::load writes the defaults where there is no file; that may fail.
WithDefaults == IF settingsFile = None THEN {None, Normalized(DefaultConfig)} ELSE {settingsFile}

\* The application starts, again after a crash at any point.
StartApp ==
    /\ settingsFile' \in WithDefaults /\ running' = Discovered(Loaded)
    /\ form' = None /\ pendingSave' = None
    /\ strayed' = FALSE /\ outdated' = FALSE
    /\ UNCHANGED <<settingsSaves, wanted>>

\* get_config
OpenSettings ==
    /\ running # None /\ form = None /\ form' = Loaded
    /\ settingsFile' \in WithDefaults /\ outdated' = FALSE
    /\ UNCHANGED <<pendingSave, running, settingsSaves, wanted, strayed>>

\* A bug: what the window echoes back is believed to be of this version.
KeepsVersion(previous, next) == next
\* preserve_backend_owned_config
PreserveBackendOwned(previous, next) ==
    LET kept == {id \in DOMAIN previous.providers \cap OtherProviders : id \notin DOMAIN next.providers}
    IN  [next EXCEPT !.version = 0,
                     !.providers = [id \in DOMAIN @ \cup kept |->
                                       IF id \in kept THEN previous.providers[id] ELSE @[id]]]

\* The window edits the flat roots, and Gemini's in the map.
FormWith(roots) ==
    [form EXCEPT !.flat = [p \in Mirrored |-> roots[p]],
                 !.providers = WithRoots(@, "gemini", roots["gemini"])]

\* A bug: the edited roots are looked for in the map that the window echoes back.
ComparesMaps(previous, next) == previous.providers # next.providers
\* ~session_sources_equal
SourcesChanged(previous, next) == Normalized(previous).providers # Normalized(next).providers

\* set_config reads the file and stages what it will need: the watchers that
\* replace the live ones, and the hooks.
BeginSetConfig ==
    /\ form # None /\ pendingSave = None
    /\ \E roots \in [BuiltIn -> RootSets] :
         LET next == PreserveBackendOwned(Loaded, FormWith(roots))
         IN  pendingSave' = [previous |-> Loaded, next |-> next, roots |-> roots,
                        restarts |-> SourcesChanged(Loaded, next)]
    /\ settingsFile' \in WithDefaults
    /\ UNCHANGED <<form, running, settingsSaves, foreignVars>>

\* A bug: the watchers are replaced before the file is written.
RefusedAfterTheSwap ==
    /\ pendingSave # None /\ pendingSave' = None /\ running' = Discovered(pendingSave.next)
    /\ UNCHANGED <<settingsFile, form, settingsSaves, foreignVars>>

\* What was asked for is not valid, or a watcher, a hook or the write failed: the
\* window stays open over what runs.
RefuseSetConfig ==
    /\ pendingSave # None /\ pendingSave' = None
    /\ UNCHANGED <<settingsFile, form, running, settingsSaves, foreignVars>>

\* The file is written, and what watches and scans is replaced only where the
\* roots are not those that this save read.
SaveConfig ==
    /\ pendingSave # None /\ Writes
    /\ settingsFile' = Normalized(pendingSave.next) /\ wanted' = pendingSave.roots
    /\ running' = IF pendingSave.restarts THEN Discovered(pendingSave.next) ELSE running
    /\ strayed' = (strayed /\ ~pendingSave.restarts)
    /\ pendingSave' = None /\ form' = None /\ outdated' = FALSE

\* Another wrote, or the write was cut short.
AnotherWrites ==
    /\ Writes /\ wanted' = None /\ strayed' = TRUE /\ outdated' = (form # None)
    /\ UNCHANGED <<form, running>>

\* Where the rename fails the file is written in place, and that may fail halfway.
SaveCutShort == pendingSave # None /\ pendingSave' = None /\ settingsFile' = Malformed /\ AnotherWrites

\* A build of a later version, which may add to all that it reads.
NewerBuildSaves ==
    /\ settingsFile \notin {None, Malformed} /\ AnotherWrites /\ UNCHANGED pendingSave
    /\ \E id \in BuiltIn \cup OtherProviders, live \in RootSets :
         settingsFile' = [Normalized(settingsFile) EXCEPT !.version = 2, !.extra = TRUE,
                        !.providers = Set(WithRoots(@, id, live), id, Provider(live, TRUE))]

\* A build from before the map: it reads and writes the flat fields alone.
OlderBuildSaves ==
    /\ settingsFile \notin {None, Malformed} /\ AnotherWrites /\ UNCHANGED pendingSave
    /\ \E p \in Mirrored, live \in RootSets :
         settingsFile' = [DefaultConfig EXCEPT !.flat = [settingsFile.flat EXCEPT ![p] = live]]

\* Another instance's write was cut short.
DamageConfig == settingsFile' = Malformed /\ AnotherWrites /\ UNCHANGED pendingSave

SettingsInit ==
    /\ settingsFile = None /\ form = None /\ pendingSave = None /\ running = None
    /\ settingsSaves = 0 /\ wanted = None /\ strayed = FALSE /\ outdated = FALSE

SettingsNext ==
    \/ StartApp \/ OpenSettings
    \/ BeginSetConfig \/ RefuseSetConfig \/ SaveConfig \/ SaveCutShort
    \/ NewerBuildSaves \/ OlderBuildSaves \/ DamageConfig

\* What was last saved in Settings is what a scan discovers, for each provider
\* and in the flat fields that an older build reads; an emptied list stays empty.
\* Unless another wrote the file, what is watched is what the file says: no failed
\* save leaves one of the two behind.
SettingsAreKept ==
    /\ wanted # None =>
         /\ \A p \in BuiltIn : Loaded.providers[p].live = wanted[p]
         /\ \A p \in Mirrored : settingsFile.flat[p] = wanted[p]
    /\ running # None /\ ~strayed => running = Discovered(Loaded)

\* Later settings have all that other builds keep in earlier ones.
KeepsForeign(earlier, later) ==
    /\ DOMAIN earlier.providers \cap OtherProviders \subseteq DOMAIN later.providers
    /\ \A id \in DOMAIN earlier.providers :
         earlier.providers[id].extra => id \in DOMAIN later.providers /\ later.providers[id].extra
    /\ earlier.extra => later.extra

\* A save of the Settings window keeps all that it was shown of what other builds
\* keep, and each provider that only they know and it was not shown, as the file
\* had it when the save read it.  If nobody else wrote the file since the window
\* was opened, it keeps all that is in the file; else what the others added since
\* to settings the window does show is lost.
ForeignSettingsSurvive ==
    pendingSave # None /\ pendingSave' = None /\ settingsSaves' # settingsSaves /\ settingsFile' # Malformed =>
        /\ KeepsForeign(form, settingsFile')
        /\ \A id \in (DOMAIN pendingSave.previous.providers \cap OtherProviders) \ DOMAIN form.providers :
             id \in DOMAIN settingsFile'.providers /\ settingsFile'.providers[id] = pendingSave.previous.providers[id]
        /\ ~outdated => KeepsForeign(Loaded, settingsFile')

-----------------------------------------------------------------------------
(***************************************************************************)
(* The timeline.  A root tracks files of the directory it names, or of all *)
(* that is below it too; its identity is what it is.  One harness stands   *)
(* for both: no root of one tracks a file of the other.                    *)
(***************************************************************************)
CONSTANTS
    Home,         \* the directory of a harness
    Projects,     \* work trees that sessions may work in
    ConfigOf,     \* by project: the directory of the harness in it
    Below,        \* pairs of directories, the second one somewhere in the first
    InstructionRoots, \* what Settings may name for instruction files: [dir, recursive]
    Tracked,      \* the files: [dir, kind], instructions, config, or nested in hooks or skills
    Values,       \* what a file may hold
    MaxLog, MaxLoaded, \* events in one log file, and in memory
    MaxConfigEdits, MaxStarts  \* bounds

VARIABLES
    held,      \* by file: None or what it holds
    past,      \* not in the code: by file, what it held, oldest first
    settled,   \* the directories of the sessions that are loaded
    named,     \* the instruction roots that Settings name
    watched,   \* the roots of the live config watcher
    watchable, \* the places of theirs that it could watch
    noticed,   \* files it was told of and has not looked at
    missed,    \* not in the code: files whose change nothing looks at, until a discovery records what they hold
    mixed,     \* not in the code: files discovered under two roots, of which one had a baseline
    snap,      \* config-snapshot-v2.json: [entries, roots]
    discovery, \* by start: None or [roots, observed, watching, found], found by file once it is read
    unlogged,  \* events of a snapshot that is saved, still to be appended
    eventLog,       \* the log files: [previous, current]
    starts,    \* how often the watcher was started
    overlapped \* not in the code: it was while an earlier discovery was under way

changeVars == <<held, past>>
placeVars == <<settled, named>>
eventVars == <<unlogged, eventLog>>
startVars == <<starts, overlapped>>
liveVars == <<watched, watchable, noticed, missed, mixed>>
configEventVars == <<changeVars, placeVars, liveVars, snap, discovery, eventVars, startVars>>

Root(dir, scope, nested) ==
    [dir |-> dir, scope |-> scope, nested |-> nested, recursive |-> FALSE, dynamic |-> FALSE]
\* project_roots
ProjectRoots(d) == {Root(d, d, FALSE), Root(ConfigOf[d], d, TRUE)}
InstructionRoot(r) ==
    [dir |-> r.dir, scope |-> None, nested |-> FALSE, recursive |-> r.recursive, dynamic |-> TRUE]

\* deduplicate_roots: one root for each surface, the harness's own before a project's.
Deduplicated(roots) ==
    {r \in roots : r.scope = None \/ [r EXCEPT !.scope = None] \notin roots}

\* roots
Roots ==
    Deduplicated({Root(Home, None, TRUE)} \cup UNION {ProjectRoots(d) : d \in settled}
                 \cup {InstructionRoot(r) : r \in named})

\* is_safe_config_path
IsSafe(root, f) ==
    IF f.kind = "instructions" THEN f.dir = root.dir \/ (root.recursive /\ <<root.dir, f.dir>> \in Below)
    ELSE f.dir = root.dir /\ root.nested

\* The order of deduplicate_roots, a sorted map by path, nested, recursive and dynamic.
Bit(b) == IF b THEN 1 ELSE 0
SortKey(r) ==
    8 * Cardinality({b \in Below : b[2] = r.dir}) + 4 * Bit(r.nested) + 2 * Bit(r.recursive) + Bit(r.dynamic)

\* tracked_root_for_path and root_by_key: of the roots that track a file the
\* first one and the last one.
Safe(f, roots) == {r \in roots : IsSafe(r, f)}
FirstRoot(f, roots) ==
    IF Safe(f, roots) = {} THEN None
    ELSE CHOOSE r \in Safe(f, roots) : \A other \in Safe(f, roots) : SortKey(r) <= SortKey(other)
LastRoot(f, roots) ==
    IF Safe(f, roots) = {} THEN None
    ELSE CHOOSE r \in Safe(f, roots) : \A other \in Safe(f, roots) : SortKey(other) <= SortKey(r)

\* What start asks the debouncer to watch: a directory alone or with all that is
\* below it, and its hooks and skills.
PlacesOf(roots) ==
    {[dir |-> r.dir, what |-> IF r.recursive THEN "tree" ELSE "files"] : r \in roots}
    \cup {[dir |-> r.dir, what |-> "nested"] : r \in {other \in roots : other.nested}}
Sees(place, f) ==
    \/ place.what = "files" /\ place.dir = f.dir /\ f.kind # "nested"
    \/ place.what = "nested" /\ place.dir = f.dir /\ f.kind = "nested"
    \/ place.what = "tree" /\ (place.dir = f.dir \/ <<place.dir, f.dir>> \in Below)

NothingDiscovered == [n \in 1..MaxStarts |-> None]
NoEntries == [f \in Tracked |-> None]

-----------------------------------------------------------------------------
Edits == Cardinality(UNION {{f} \X (2..Len(past[f])) : f \in Tracked})

\* Other programs.  The watcher is told of what changes in a place that it watches.
ChangeFile ==
    /\ Edits < MaxConfigEdits
    /\ \E f \in Tracked, v \in Values \cup {None} :
         /\ v # held[f]
         /\ held' = [held EXCEPT ![f] = v] /\ past' = [past EXCEPT ![f] = Append(@, v)]
         /\ LET told == \E place \in watchable : Sees(place, f)
            IN  IF FirstRoot(f, watched) = None THEN UNCHANGED <<noticed, missed>>
                ELSE /\ noticed' = IF told THEN noticed \cup {f} ELSE noticed
                     /\ missed' = IF told THEN missed ELSE missed \cup {f}
    /\ UNCHANGED <<placeVars, watched, watchable, mixed, snap, discovery, eventVars, startVars>>

\* The scan loads sessions, and Settings are saved; both start the watcher anew.
SettleIn ==
    /\ \/ \E d \in Projects \ settled : settled' = settled \cup {d} /\ UNCHANGED named
       \/ named' \in (SUBSET InstructionRoots) \ {named} /\ UNCHANGED settled
    /\ UNCHANGED <<changeVars, liveVars, snap, discovery, eventVars, startVars>>

-----------------------------------------------------------------------------
\* append_event_locked: the full log takes the place of the previous one; where
\* that fails it grows on, and the previous one is gone.
Appended(e) ==
    IF Len(eventLog.current) < MaxLog THEN {[eventLog EXCEPT !.current = Append(@, e)]}
    ELSE {[previous |-> eventLog.current, current |-> <<e>>],
          [previous |-> << >>, current |-> Append(eventLog.current, e)]}

Change(f, old, new) == [file |-> f, old |-> old, new |-> new]
\* load_events
Timeline ==
    LET events == eventLog.previous \o eventLog.current
    IN  IF Len(events) > MaxLoaded THEN SubSeq(events, Len(events) - MaxLoaded + 1, Len(events)) ELSE events

IoFree == unlogged = << >>

AppendEvent ==
    /\ ~IoFree
    /\ unlogged' = Tail(unlogged)
    /\ \E l \in Appended(Head(unlogged)) : eventLog' = l
    /\ UNCHANGED <<changeVars, placeVars, liveVars, snap, discovery, startVars>>

\* A bug: what the watcher sees of a root before its baseline is taken is told.
TellsAll(root) == TRUE
BaselineTaken(root) == root \in snap.roots

\* record_change, for a path the debouncer names.
RecordChange(f) ==
    LET root == FirstRoot(f, watched)
        old == snap.entries[f]
    IN  /\ IoFree /\ f \in noticed /\ root # None
        /\ noticed' = noticed \ {f} /\ missed' = missed \ {f}
        /\ snap' = [snap EXCEPT !.entries[f] = held[f]]
        /\ unlogged' = IF old # held[f] /\ BaselineTaken(root) THEN <<Change(f, old, held[f])>> ELSE << >>
        /\ UNCHANGED <<changeVars, placeVars, watched, watchable, mixed, discovery, eventLog, startVars>>

-----------------------------------------------------------------------------
\* start: the snapshot is read, the new watcher is made, the old one is dropped
\* with what it had not looked at, and a thread discovers what is there now.
StartWatcher ==
    /\ IoFree /\ starts < MaxStarts /\ (starts > 0 /\ discovery[starts] # None => discovery[starts].watching)
    /\ starts' = starts + 1
    /\ overlapped' = (overlapped \/ discovery # NothingDiscovered)
    /\ discovery' = [discovery EXCEPT ![starts'] =
         [roots |-> Roots, observed |-> snap, watching |-> FALSE, found |-> [f \in {} |-> None]]]
    /\ UNCHANGED <<changeVars, placeVars, liveVars, snap, eventVars>>

\* The old watcher goes with what it was told of.  What is not there yet, or cannot
\* be watched, is not watched until the watcher is started again.
Watch ==
    /\ starts > 0 /\ discovery[starts] # None /\ ~discovery[starts].watching
    /\ discovery' = [discovery EXCEPT ![starts].watching = TRUE]
    /\ watched' = discovery[starts].roots
    /\ \E unwatched \in SUBSET PlacesOf(watched') : watchable' = PlacesOf(watched') \ unwatched
    /\ noticed' = {} /\ missed' = missed \cup noticed
    /\ UNCHANGED <<changeVars, placeVars, mixed, snap, eventVars, startVars>>

\* discover_snapshot: the next file is read, or all that are left with nothing between.
DiscoverFiles(n) ==
    /\ discovery[n] # None /\ discovery[n].watching
    /\ LET d == discovery[n]
           left == Tracked \ DOMAIN d.found
           ReadWith(files) == [f \in DOMAIN d.found \cup files |->
               IF f \in DOMAIN d.found THEN d.found[f] ELSE IF Safe(f, d.roots) # {} THEN held[f] ELSE None]
       IN  /\ left # {}
           /\ \E files \in {left} \cup {{f} : f \in left} :
                discovery' = [discovery EXCEPT ![n].found = ReadWith(files)]
    /\ UNCHANGED <<changeVars, placeVars, liveVars, snap, eventVars, startVars>>

\* A bug: the scan is believed over what was recorded meanwhile.
ScanIsNewer(f, old) == TRUE
NothingNewer(f, old) == snap.entries[f] = old

\* merge_discovery: what changed under the roots that had a baseline is told,
\* what is found under the others is theirs.
Before(d, f) == IF FirstRoot(f, d.roots) \in d.observed.roots THEN d.observed.entries[f] ELSE None
After(d, f) == IF LastRoot(f, d.roots) \in d.observed.roots THEN d.found[f] ELSE None
Told(d) == {f \in Tracked : Before(d, f) # After(d, f) /\ NothingNewer(f, Before(d, f))}
NewBaseline(d) ==
    {f \in Tracked \ Told(d) : /\ LastRoot(f, d.roots) \notin d.observed.roots
                              /\ d.found[f] # None /\ NothingNewer(f, d.observed.entries[f])}

\* Two roots track it, and only one of them had a baseline.
IsMixed(d, f) == (FirstRoot(f, d.roots) \in d.observed.roots) # (LastRoot(f, d.roots) \in d.observed.roots)

MergeDiscovery(n) ==
    /\ IoFree /\ discovery[n] # None /\ DOMAIN discovery[n].found = Tracked
    /\ LET d == discovery[n]
           told == Told(d)
       IN  /\ snap' = [entries |-> [f \in Tracked |-> IF f \in told THEN After(d, f)
                                                     ELSE IF f \in NewBaseline(d) THEN d.found[f]
                                                     ELSE snap.entries[f]],
                       roots |-> snap.roots \cup d.roots]
           /\ \E order \in SetToSeqs(told) :
                unlogged' = [i \in DOMAIN order |-> Change(order[i], Before(d, order[i]), After(d, order[i]))]
           /\ mixed' = mixed \cup {f \in Tracked : IsMixed(d, f)}
           /\ missed' = {f \in missed \cup {g \in Tracked : IsMixed(d, g)} : snap'.entries[f] # held[f]}
    /\ discovery' = [discovery EXCEPT ![n] = None]
    /\ UNCHANGED <<changeVars, placeVars, watched, watchable, noticed, eventLog, startVars>>

NoSnapshot == [entries |-> NoEntries, roots |-> {}]

\* The application ends at any point and starts again; a snapshot that was being
\* written in place is lost.
RestartWatching ==
    /\ starts > 0 /\ starts < MaxStarts
    /\ watched' = {} /\ watchable' = {} /\ noticed' = {} /\ missed' = {}
    /\ discovery' = NothingDiscovered /\ unlogged' = << >>
    /\ settled' = {} /\ snap' \in {snap, NoSnapshot}
    /\ UNCHANGED <<changeVars, named, mixed, eventLog, startVars>>

ConfigEventsInit ==
    /\ held \in [Tracked -> Values \cup {None}] /\ past = [f \in Tracked |-> <<held[f]>>]
    /\ settled = {} /\ named \in SUBSET InstructionRoots
    /\ watched = {} /\ watchable = {} /\ noticed = {} /\ missed = {} /\ mixed = {} /\ discovery = NothingDiscovered
    /\ snap = NoSnapshot
    /\ unlogged = << >> /\ eventLog = [previous |-> << >>, current |-> << >>]
    /\ starts = 0 /\ overlapped = FALSE

ConfigEventsNext ==
    \/ ChangeFile \/ SettleIn \/ AppendEvent
    \/ \E f \in Tracked : RecordChange(f)
    \/ \E n \in 1..MaxStarts : DiscoverFiles(n) \/ MergeDiscovery(n)
    \/ StartWatcher \/ Watch \/ RestartWatching

-----------------------------------------------------------------------------
\* A file that never held again what it held before.  To a discovery that began
\* before another took the baseline, a removal is such a return.
NeverReturned(f) == IsInjective(past[f]) /\ (overlapped => None \notin Range(Tail(past[f])))

\* Where a file's changes do not return to an earlier content, the timeline has
\* each change at most once, in the order they were made, and a file that was
\* there when its root was first read is not told as new.  A file that a discovery
\* found under a root with a baseline and under one without is excepted: it may be
\* told as removed, and later as new again, while it is there.
TimelineIsTrue ==
    \A f \in {g \in Tracked : NeverReturned(g) /\ g \notin mixed} :
        LET told == SelectSeq(Timeline, LAMBDA e : e.file = f)
            at(v) == CHOOSE i \in DOMAIN past[f] : past[f][i] = v
        IN  /\ \A i \in DOMAIN told : /\ {told[i].old, told[i].new} \subseteq Range(past[f])
                                      /\ at(told[i].old) < at(told[i].new)
            /\ \A i, j \in DOMAIN told : i < j => at(told[i].new) <= at(told[j].old)

\* What is recorded of a file that is there, under a root that is watched, is what
\* it holds once nothing of it is under way.  A change that the watcher is not told
\* of, or has been dropped with, waits for a discovery that records it; and so does
\* what a discovery leaves out of a file under two roots.
SnapshotCatchesUp ==
    discovery = NothingDiscovered =>
        \A f \in Tracked \ (noticed \cup missed) :
            held[f] # None /\ NeverReturned(f) /\ FirstRoot(f, watched) \in snap.roots => snap.entries[f] = held[f]

ConfigurationIsTrue == TimelineIsTrue /\ SnapshotCatchesUp
=============================================================================
