------------------------ MODULE SessionPublication ------------------------
(***************************************************************************)
(* How a transcript on disk becomes an availability in the archive and a   *)
(* session in memory (store.rs, watcher.rs, scanner.rs, commands.rs).      *)
(*                                                                         *)
(* Three kinds of thread write: the one watcher callback, the bulk scans   *)
(* (one per settings generation, a superseded one may still be draining)   *)
(* and a history rebuild.  The archive is open throughout (module          *)
(* DurableWriters opens it) and its writes succeed.  A session has one     *)
(* source path and its content is abstracted to the number of its events.  *)
(* A step is what happens between two lock or database operations.         *)
(***************************************************************************)
EXTENDS Naturals, Sequences

CONSTANTS
    Paths,          \* source paths, each the path of one session
    MaxLength,      \* bound on the events of a transcript
    MaxGeneration,  \* bound on scan_generation: one scan, then settings changes
    MaxOps,         \* bound on changes of the file system
    NoPath          \* the watcher or a scan's reload is between two paths

ASSUME LengthAssumption == MaxLength \in Nat \ {0}
ASSUME GenerationAssumption == MaxGeneration \in Nat \ {0}
ASSUME OpsAssumption == MaxOps \in Nat
ASSUME NoPathAssumption == NoPath \notin Paths

VARIABLES
    disk,                     \* events in each file, 0 when there is none
    ops,                      \* changes of the file system so far
    events,                   \* debounced events the watcher has to handle
    location,                 \* source_locations and the snapshot of its session
    durable_generation,       \* history_meta: scan_generation
    scan_generation,          \* AppState: generation of the settings
    history_scan_generation,  \* AppState: what the watcher stamps
    session_paths,            \* AppState: who wrote a path last
    sessions,                 \* AppState: the resident projection
    config_pc,                \* set_config, between invalidation and clearing
    parser,                   \* events each parser slot has read, 0 without one
    watcher,                  \* the callback's program counter and locals
    scan_pc, scan_stamp,      \* per scan: step and durable generation
    scan_failed,              \* per scan: report.parse_failures > 0
    item,                     \* per scan and path: the batch pipeline
    affected, reload,         \* per scan: keys finish_scan changed, one loaded
    rebuild_pc, rebuild_stamp, rebuild_item

fileVars == <<disk, ops, events>>
stateVars == <<session_paths, sessions>>
settingsVars == <<scan_generation, config_pc>>
watcherVars == <<parser, watcher>>
scanVars == <<scan_pc, scan_stamp, scan_failed, item, affected, reload>>
rebuildVars == <<rebuild_pc, rebuild_stamp, rebuild_item>>
vars == <<fileVars, location, durable_generation, history_scan_generation, stateVars,
          settingsVars, watcherVars, scanVars, rebuildVars>>

-----------------------------------------------------------------------------
Lengths == 0..MaxLength
Generations == 1..MaxGeneration
DurableGenerations == Nat   \* one for each scan and one for the rebuild

\* A row of the archive and what load_one makes of it.  No row: length 0.
Locations == [length : Lengths, present : BOOLEAN, seen : DurableGenerations]
Loaded == [length : Lengths, present : BOOLEAN]
Load(p) == [length |-> location[p].length, present |-> location[p].present]
Nothing == [length |-> 0, present |-> FALSE]

\* PathSessionState; Unclaimed stands for a path without an entry.
PathStates == [generation : 0..MaxGeneration, watcher_touched : BOOLEAN, removed : BOOLEAN]
Unclaimed == [generation |-> 0, watcher_touched |-> FALSE, removed |-> FALSE]

EventKinds == {"modify", "remove"}
WatcherPCs == {"idle", "parsed", "observing", "committed", "publish", "tombstoned", "missing"}
Watchers == [pc : WatcherPCs, path : Paths \union {NoPath}, session : Loaded,
             stamp : DurableGenerations]
IdleWatcher == [pc |-> "idle", path |-> NoPath, session |-> Nothing, stamp |-> 0]

ScanPCs == {"none", "spawned", "storing", "discover", "batches", "finish", "reload", "done"}
ItemPCs == {"none", "todo", "parsed", "reserved", "committed", "loaded", "raced",
            "corrected", "returned", "done"}
Items == [pc : ItemPCs, session : Loaded]
NoItem == [pc |-> "none", session |-> Nothing]
Reloads == [path : Paths \union {NoPath}, session : Loaded]
NoReload == [path |-> NoPath, session |-> Nothing]

TypeOK ==
    /\ disk \in [Paths -> Lengths]
    /\ ops \in 0..MaxOps
    /\ events \in Seq([path : Paths, kind : EventKinds])
    /\ location \in [Paths -> Locations]
    /\ durable_generation \in DurableGenerations
    /\ scan_generation \in Generations
    /\ history_scan_generation \in DurableGenerations
    /\ session_paths \in [Paths -> PathStates]
    /\ sessions \in [Paths -> Loaded]
    /\ config_pc \in {"idle", "swapping"}
    /\ parser \in [Paths -> Lengths]
    /\ watcher \in Watchers
    /\ scan_pc \in [Generations -> ScanPCs]
    /\ scan_stamp \in [Generations -> DurableGenerations]
    /\ scan_failed \in [Generations -> BOOLEAN]
    /\ item \in [Generations -> [Paths -> Items]]
    /\ affected \in [Generations -> SUBSET Paths]
    /\ reload \in [Generations -> Reloads]
    /\ rebuild_pc \in {"idle", "running", "done"}
    /\ rebuild_stamp \in DurableGenerations
    /\ rebuild_item \in [Paths -> Items]

\* After start-up: the archive has been hydrated, the watcher runs, the first
\* scan has been spawned.  Files may have changed while the program was down.
Init ==
    /\ disk \in [Paths -> Lengths]
    /\ ops = 0
    /\ events = <<>>
    /\ location \in [Paths -> {[length |-> l.length, present |-> l.present, seen |-> 0] :
                                  l \in {s \in Loaded : s.length = 0 => ~s.present}}]
    /\ durable_generation = 0
    /\ scan_generation = 1
    /\ history_scan_generation = 0
    /\ session_paths = [p \in Paths |-> Unclaimed]
    /\ sessions = [p \in Paths |-> Load(p)]
    /\ config_pc = "idle"
    /\ parser = [p \in Paths |-> 0]
    /\ watcher = IdleWatcher
    /\ scan_pc = [g \in Generations |-> IF g = 1 THEN "spawned" ELSE "none"]
    /\ scan_stamp = [g \in Generations |-> 0]
    /\ scan_failed = [g \in Generations |-> FALSE]
    /\ item = [g \in Generations |-> [p \in Paths |-> NoItem]]
    /\ affected = [g \in Generations |-> {}]
    /\ reload = [g \in Generations |-> NoReload]
    /\ rebuild_pc = "idle"
    /\ rebuild_stamp = 0
    /\ rebuild_item = [p \in Paths |-> NoItem]

-----------------------------------------------------------------------------
(* Locks.                                                                  *)

\* history_publication is held over several steps only by the watcher, in
\* mark_source_missing and reconcile_observed_session.
PublicationFree == watcher.pc \notin {"observing", "committed", "tombstoned", "missing"}

\* config_transition: set_config, or a batch from its reservation to the end
\* of its correction.
InBatch(g, p) == item[g][p].pc \in {"reserved", "committed", "loaded", "raced", "corrected"}
TransitionFree ==
    config_pc = "idle" /\ \A g \in Generations, p \in Paths : ~InBatch(g, p)

\* observe_one_in_transaction for a path: a shorter history is dropped, the
\* location is present and seen by the newest generation that saw it.
Observe(p, length, stamp) ==
    location' = [location EXCEPT
        ![p] = [length |-> IF length > @.length THEN length ELSE @.length,
                present |-> TRUE,
                seen |-> IF stamp > @.seen THEN stamp ELSE @.seen]]

\* mark_path_missing; a path without a row is left alone.
Missing(l) == [length |-> l.length, present |-> FALSE, seen |-> l.seen]
MarkPathMissing(p) == location' = [location EXCEPT ![p] = Missing(@)]

-----------------------------------------------------------------------------
(* The file system.  The debouncer delivers every change, in order.        *)

FileChange(p, length, kind) ==
    /\ ops < MaxOps
    /\ ops' = ops + 1
    /\ disk' = [disk EXCEPT ![p] = length]
    /\ events' = Append(events, [path |-> p, kind |-> kind])
    /\ UNCHANGED <<location, durable_generation, history_scan_generation, stateVars,
                   settingsVars, watcher, scanVars, rebuildVars>>

AppendFile(p) ==
    /\ disk[p] \in 1..(MaxLength - 1)
    /\ FileChange(p, disk[p] + 1, "modify")
    /\ UNCHANGED parser

\* A new artifact: ensure_source_identity replaces a slot of the old one.
CreateFile(p, length) ==
    /\ disk[p] = 0
    /\ FileChange(p, length, "modify")
    /\ parser' = [parser EXCEPT ![p] = 0]

DeleteFile(p) ==
    /\ disk[p] > 0
    /\ FileChange(p, 0, "remove")
    /\ UNCHANGED parser

-----------------------------------------------------------------------------
(* The watcher callback.                                                   *)

WatcherUnchanged ==
    UNCHANGED <<disk, ops, durable_generation, history_scan_generation, settingsVars,
                scanVars, rebuildVars>>

\* A create or modify event: parse_to_end.  No file, or nothing new, ends the
\* event.
WatcherParse ==
    /\ watcher.pc = "idle" /\ events /= <<>> /\ Head(events).kind = "modify"
    /\ events' = Tail(events)
    /\ LET p == Head(events).path
       IN  IF disk[p] = 0 \/ disk[p] = parser[p]
           THEN UNCHANGED watcherVars
           ELSE /\ parser' = [parser EXCEPT ![p] = disk[p]]
                /\ watcher' = [watcher EXCEPT
                                  !.pc = "parsed", !.path = p,
                                  !.session = [length |-> disk[p], present |-> TRUE]]
    /\ UNCHANGED <<location, stateVars>>
    /\ WatcherUnchanged

\* reconcile_observed_session takes history_publication and reads the durable
\* generation, commits, and reads the stored session back.
WatcherLoadGeneration ==
    /\ watcher.pc = "parsed"
    /\ watcher' = [watcher EXCEPT !.pc = "observing", !.stamp = history_scan_generation]
    /\ UNCHANGED <<events, location, stateVars, parser>>
    /\ WatcherUnchanged

\* Mutant: the newest parse replaces the stored one even when it is shorter.
WatcherObserveShorter ==
    /\ watcher.pc = "observing"
    /\ location' = [location EXCEPT
            ![watcher.path] = [length |-> watcher.session.length, present |-> TRUE,
                               seen |-> watcher.stamp]]
    /\ watcher' = [watcher EXCEPT !.pc = "committed"]
    /\ UNCHANGED <<events, stateVars, parser>>
    /\ WatcherUnchanged

WatcherObserve ==
    /\ watcher.pc = "observing"
    /\ Observe(watcher.path, watcher.session.length, watcher.stamp)
    /\ watcher' = [watcher EXCEPT !.pc = "committed"]
    /\ UNCHANGED <<events, stateVars, parser>>
    /\ WatcherUnchanged

WatcherLoad ==
    /\ watcher.pc = "committed"
    /\ watcher' = [watcher EXCEPT !.pc = "publish", !.session = Load(watcher.path)]
    /\ UNCHANGED <<events, location, stateVars, parser>>
    /\ WatcherUnchanged

\* publish_watched_session.
WatcherPublish ==
    /\ watcher.pc = "publish"
    /\ session_paths' = [session_paths EXCEPT
            ![watcher.path] = [generation |-> scan_generation, watcher_touched |-> TRUE,
                               removed |-> FALSE]]
    /\ sessions' = [sessions EXCEPT ![watcher.path] = watcher.session]
    /\ watcher' = IdleWatcher
    /\ UNCHANGED <<events, location, parser>>
    /\ WatcherUnchanged

\* mark_source_missing, in three steps under history_publication: the
\* tombstone, the archive, the projection.
Tombstone == [generation |-> scan_generation, watcher_touched |-> TRUE, removed |-> TRUE]

\* Mutant: the removal reaches the archive but leaves no tombstone.
WatcherNoTombstone ==
    /\ watcher.pc = "idle" /\ events /= <<>> /\ Head(events).kind = "remove"
    /\ events' = Tail(events)
    /\ parser' = [parser EXCEPT ![Head(events).path] = 0]
    /\ watcher' = [watcher EXCEPT !.pc = "tombstoned", !.path = Head(events).path]
    /\ UNCHANGED <<location, stateVars>>
    /\ WatcherUnchanged

WatcherTombstone ==
    /\ watcher.pc = "idle" /\ events /= <<>> /\ Head(events).kind = "remove"
    /\ events' = Tail(events)
    /\ parser' = [parser EXCEPT ![Head(events).path] = 0]
    /\ session_paths' = [session_paths EXCEPT ![Head(events).path] = Tombstone]
    /\ watcher' = [watcher EXCEPT !.pc = "tombstoned", !.path = Head(events).path]
    /\ UNCHANGED <<location, sessions>>
    /\ WatcherUnchanged

WatcherMarkMissing ==
    /\ watcher.pc = "tombstoned"
    /\ MarkPathMissing(watcher.path)
    /\ watcher' = [watcher EXCEPT !.pc = "missing",
                       !.session = [length |-> location[watcher.path].length,
                                    present |-> FALSE]]
    /\ UNCHANGED <<events, stateVars, parser>>
    /\ WatcherUnchanged

WatcherPublishMissing ==
    /\ watcher.pc = "missing"
    /\ sessions' = [sessions EXCEPT ![watcher.path] = watcher.session]
    /\ watcher' = IdleWatcher
    /\ UNCHANGED <<events, location, session_paths, parser>>
    /\ WatcherUnchanged

\* The idle sweep of the parser slots.
EvictParser(p) ==
    /\ watcher.pc = "idle"
    /\ parser[p] > 0
    /\ parser' = [parser EXCEPT ![p] = 0]
    /\ UNCHANGED <<events, location, stateVars, watcher>>
    /\ WatcherUnchanged

-----------------------------------------------------------------------------
(* set_config with changed session sources.                                *)

SettingsUnchanged ==
    UNCHANGED <<fileVars, location, durable_generation, history_scan_generation, sessions,
                watcher, scan_stamp, scan_failed, item, affected, reload, rebuildVars>>

\* Mutant: the generation advances without config_transition.
SetConfigUnlocked ==
    /\ config_pc = "idle"
    /\ scan_generation < MaxGeneration
    /\ scan_generation' = scan_generation + 1
    /\ config_pc' = "swapping"
    /\ UNCHANGED <<session_paths, parser, scan_pc>>
    /\ SettingsUnchanged

\* Mutant: both set_config and the scan it spawns advance the generation.
SetConfigTwice ==
    /\ TransitionFree
    /\ scan_generation < MaxGeneration
    /\ scan_generation' = scan_generation + 2
    /\ config_pc' = "swapping"
    /\ UNCHANGED <<session_paths, parser, scan_pc>>
    /\ SettingsUnchanged

SetConfigAdvance ==
    /\ TransitionFree
    /\ scan_generation < MaxGeneration
    /\ scan_generation' = scan_generation + 1
    /\ config_pc' = "swapping"
    /\ UNCHANGED <<session_paths, parser, scan_pc>>
    /\ SettingsUnchanged

\* Dropping the old watcher waits out its callback; clear_sessions; spawn_scan.
SetConfigClear ==
    /\ config_pc = "swapping"
    /\ watcher.pc = "idle"
    /\ config_pc' = "idle"
    /\ session_paths' = [p \in Paths |-> Unclaimed]
    /\ parser' = [p \in Paths |-> 0]
    /\ scan_pc' = [scan_pc EXCEPT ![scan_generation] = "spawned"]
    /\ UNCHANGED scan_generation
    /\ SettingsUnchanged

-----------------------------------------------------------------------------
(* The bulk scan of generation g.                                          *)

ScanUnchanged ==
    UNCHANGED <<fileVars, settingsVars, watcherVars, rebuildVars>>

ItemStep(g, p, pc, session) ==
    item' = [item EXCEPT ![g][p] = [pc |-> pc, session |-> session]]

\* begin_scan_after_any_rebuild and begin_history_scan: the durable counter,
\* then the generation the watcher stamps.
ScanBegin(g) ==
    /\ scan_pc[g] = "spawned"
    /\ rebuild_pc /= "running"
    /\ durable_generation' = durable_generation + 1
    /\ scan_stamp' = [scan_stamp EXCEPT ![g] = durable_generation + 1]
    /\ scan_pc' = [scan_pc EXCEPT ![g] = "storing"]
    /\ UNCHANGED <<location, history_scan_generation, stateVars, scan_failed, item,
                   affected, reload>>
    /\ ScanUnchanged

ScanStoreGeneration(g) ==
    /\ scan_pc[g] = "storing"
    /\ history_scan_generation' = scan_stamp[g]
    /\ scan_pc' = [scan_pc EXCEPT ![g] = "discover"]
    /\ UNCHANGED <<location, durable_generation, stateVars, scan_stamp, scan_failed, item,
                   affected, reload>>
    /\ ScanUnchanged

\* scan_all_observed: the walk of the roots.
ScanDiscover(g) ==
    /\ scan_pc[g] = "discover"
    /\ item' = [item EXCEPT ![g] = [p \in Paths |->
                    IF disk[p] > 0 THEN [pc |-> "todo", session |-> Nothing] ELSE NoItem]]
    /\ scan_pc' = [scan_pc EXCEPT ![g] = "batches"]
    /\ UNCHANGED <<location, durable_generation, history_scan_generation, stateVars,
                   scan_stamp, scan_failed, affected, reload>>
    /\ ScanUnchanged

ScanItemUnchanged ==
    /\ UNCHANGED <<durable_generation, history_scan_generation, scan_pc, scan_stamp,
                   affected, reload>>
    /\ ScanUnchanged

ScanParse(g, p) ==
    /\ item[g][p].pc = "todo"
    /\ disk[p] > 0
    /\ ItemStep(g, p, "parsed", [length |-> disk[p], present |-> TRUE])
    /\ UNCHANGED <<location, stateVars, scan_failed>>
    /\ ScanItemUnchanged

\* The file is gone, unreadable, or changed under the parser.
ScanParseFails(g, p) ==
    /\ item[g][p].pc = "todo"
    /\ ItemStep(g, p, "done", Nothing)
    /\ scan_failed' = [scan_failed EXCEPT ![g] = TRUE]
    /\ UNCHANGED <<location, stateVars>>
    /\ ScanItemUnchanged

\* A same-generation watcher touch or tombstone wins over the scan.
Ineligible(g, p) ==
    /\ session_paths[p].generation = g
    /\ session_paths[p].watcher_touched \/ session_paths[p].removed

\* reconcile_scanned_batch_if_current takes config_transition, checks the
\* generation and reserves the path.  Paths are independent here, so a batch
\* has one path.
ScanReserve(g, p) ==
    /\ item[g][p].pc = "parsed"
    /\ TransitionFree
    /\ IF scan_generation = g /\ ~Ineligible(g, p)
       THEN /\ session_paths' = IF session_paths[p] = Unclaimed
                                THEN [session_paths EXCEPT ![p].generation = g]
                                ELSE session_paths
            /\ ItemStep(g, p, "reserved", item[g][p].session)
       ELSE /\ ItemStep(g, p, "done", Nothing)
            /\ UNCHANGED session_paths
    /\ UNCHANGED <<location, sessions, scan_failed>>
    /\ ScanItemUnchanged

\* observe_bulk_batch: the transaction, then the read-back on another
\* connection.
ScanCommit(g, p) ==
    /\ item[g][p].pc = "reserved"
    /\ Observe(p, item[g][p].session.length, scan_stamp[g])
    /\ ItemStep(g, p, "committed", item[g][p].session)
    /\ UNCHANGED <<stateVars, scan_failed>>
    /\ ScanItemUnchanged

ScanLoad(g, p) ==
    /\ item[g][p].pc = "committed"
    /\ ItemStep(g, p, "loaded", Load(p))
    /\ UNCHANGED <<location, stateVars, scan_failed>>
    /\ ScanItemUnchanged

\* Mutant: no reconcile_removals_racing_batch_commit.
ScanSkipsRemovals(g, p) ==
    /\ item[g][p].pc = "loaded"
    /\ ItemStep(g, p, "returned", item[g][p].session)
    /\ UNCHANGED <<location, stateVars, scan_failed>>
    /\ ScanItemUnchanged

\* reconcile_removals_racing_batch_commit: the tombstone is read, the archive
\* corrected and the correction published, each on its own and outside
\* history_publication.
ScanCheckRemoved(g, p) ==
    /\ item[g][p].pc = "loaded"
    /\ ItemStep(g, p, IF session_paths[p].generation = g /\ session_paths[p].removed
                      THEN "raced" ELSE "returned", item[g][p].session)
    /\ UNCHANGED <<location, stateVars, scan_failed>>
    /\ ScanItemUnchanged

\* The session it goes on to publish is kept; that it is missing is implied.
ScanMarkMissing(g, p) ==
    /\ item[g][p].pc = "raced"
    /\ MarkPathMissing(p)
    /\ ItemStep(g, p, "corrected", [length |-> location[p].length, present |-> FALSE])
    /\ UNCHANGED <<stateVars, scan_failed>>
    /\ ScanItemUnchanged

ScanInsertMissing(g, p) ==
    /\ item[g][p].pc = "corrected"
    /\ sessions' = [sessions EXCEPT ![p] = item[g][p].session]
    /\ ItemStep(g, p, "returned", item[g][p].session)
    /\ UNCHANGED <<location, session_paths, scan_failed>>
    /\ ScanItemUnchanged

\* publish_scanned_session.
ScanPublish(g, p) ==
    /\ item[g][p].pc = "returned"
    /\ PublicationFree
    /\ IF scan_generation = g /\ ~Ineligible(g, p)
       THEN /\ session_paths' = [session_paths EXCEPT ![p] =
                   [generation |-> g, watcher_touched |-> FALSE, removed |-> FALSE]]
            /\ sessions' = [sessions EXCEPT ![p] = item[g][p].session]
       ELSE UNCHANGED stateVars
    /\ ItemStep(g, p, "done", Nothing)
    /\ UNCHANGED <<location, scan_failed>>
    /\ ScanItemUnchanged

ScanEndUnchanged ==
    /\ UNCHANGED <<durable_generation, history_scan_generation, session_paths, scan_stamp,
                   scan_failed, item>>
    /\ ScanUnchanged

\* Mutant: no look at the settings generation between the batches and
\* finish_history_scan.
ScanBatchesDoneUnchecked(g) ==
    /\ scan_pc[g] = "batches"
    /\ \A p \in Paths : item[g][p].pc \in {"none", "done"}
    /\ scan_pc' = [scan_pc EXCEPT ![g] = IF scan_failed[g] THEN "done" ELSE "finish"]
    /\ UNCHANGED <<location, sessions, affected, reload>>
    /\ ScanEndUnchanged

\* All batches are done: a superseded scan returns, one with a parse failure
\* leaves the availability alone.
ScanBatchesDone(g) ==
    /\ scan_pc[g] = "batches"
    /\ \A p \in Paths : item[g][p].pc \in {"none", "done"}
    /\ scan_pc' = [scan_pc EXCEPT ![g] =
                        IF scan_generation = g /\ ~scan_failed[g] THEN "finish" ELSE "done"]
    /\ UNCHANGED <<location, sessions, affected, reload>>
    /\ ScanEndUnchanged

\* finish_scan: unseen locations become missing, unless a newer durable
\* generation has begun.
Unseen(g) ==
    {p \in Paths : /\ location[p].present
                   /\ location[p].seen < scan_stamp[g]
                   /\ scan_stamp[g] = durable_generation}

ScanFinish(g) ==
    /\ scan_pc[g] = "finish"
    /\ location' = [p \in Paths |->
            IF p \in Unseen(g) THEN Missing(location[p]) ELSE location[p]]
    /\ affected' = [affected EXCEPT ![g] = Unseen(g)]
    /\ scan_pc' = [scan_pc EXCEPT ![g] = "reload"]
    /\ UNCHANGED <<sessions, reload>>
    /\ ScanEndUnchanged

\* finish_history_scan: load_one, then apply_loaded_session, which alone takes
\* history_publication.
ScanReload(g, p) ==
    /\ scan_pc[g] = "reload"
    /\ reload[g] = NoReload
    /\ p \in affected[g]
    /\ reload' = [reload EXCEPT ![g] = [path |-> p, session |-> Load(p)]]
    /\ affected' = [affected EXCEPT ![g] = @ \ {p}]
    /\ UNCHANGED <<location, sessions, scan_pc>>
    /\ ScanEndUnchanged

ScanApplyLoaded(g) ==
    /\ reload[g] /= NoReload
    /\ PublicationFree
    /\ sessions' = [sessions EXCEPT ![reload[g].path] = reload[g].session]
    /\ reload' = [reload EXCEPT ![g] = NoReload]
    /\ UNCHANGED <<location, affected, scan_pc>>
    /\ ScanEndUnchanged

ScanDone(g) ==
    /\ scan_pc[g] = "reload"
    /\ affected[g] = {} /\ reload[g] = NoReload
    /\ scan_pc' = [scan_pc EXCEPT ![g] = "done"]
    /\ UNCHANGED <<location, sessions, affected, reload>>
    /\ ScanEndUnchanged

-----------------------------------------------------------------------------
(* A history rebuild: rebuild_from_transcripts and publish_rebuilt_session. *)

RebuildUnchanged ==
    UNCHANGED <<fileVars, history_scan_generation, session_paths, settingsVars, watcherVars,
                scanVars>>

RebuildStep(p, pc, session) ==
    rebuild_item' = [rebuild_item EXCEPT ![p] = [pc |-> pc, session |-> session]]

\* The worklist is every archived session; begin_scan only for its stamp.
RebuildBegin ==
    /\ rebuild_pc = "idle"
    /\ \A g \in Generations : scan_pc[g] \in {"none", "spawned", "done"}
    /\ rebuild_pc' = "running"
    /\ durable_generation' = durable_generation + 1
    /\ rebuild_stamp' = durable_generation + 1
    /\ rebuild_item' = [p \in Paths |-> IF location[p].length > 0
                                        THEN [pc |-> "todo", session |-> Nothing] ELSE NoItem]
    /\ UNCHANGED <<location, sessions>>
    /\ RebuildUnchanged

\* A session whose file is gone is counted as missing, one that no longer
\* parses as failed; both are left alone.
RebuildParse(p) ==
    /\ rebuild_item[p].pc = "todo"
    /\ \/ /\ disk[p] > 0
          /\ RebuildStep(p, "parsed", [length |-> disk[p], present |-> TRUE])
       \/ RebuildStep(p, "none", Nothing)
    /\ UNCHANGED <<location, durable_generation, sessions, rebuild_pc, rebuild_stamp>>
    /\ RebuildUnchanged

\* A cancel between two files: the rest is left alone, the batch that has been
\* parsed is still flushed.
RebuildCancel ==
    /\ \E p \in Paths : rebuild_item[p].pc = "todo"
    /\ rebuild_item' = [p \in Paths |->
            IF rebuild_item[p].pc = "todo" THEN NoItem ELSE rebuild_item[p]]
    /\ UNCHANGED <<location, durable_generation, sessions, rebuild_pc, rebuild_stamp>>
    /\ RebuildUnchanged

RebuildCommit(p) ==
    /\ rebuild_item[p].pc = "parsed"
    /\ Observe(p, rebuild_item[p].session.length, rebuild_stamp)
    /\ RebuildStep(p, "committed", rebuild_item[p].session)
    /\ UNCHANGED <<durable_generation, sessions, rebuild_pc, rebuild_stamp>>
    /\ RebuildUnchanged

RebuildLoad(p) ==
    /\ rebuild_item[p].pc = "committed"
    /\ RebuildStep(p, "loaded", Load(p))
    /\ UNCHANGED <<location, durable_generation, sessions, rebuild_pc, rebuild_stamp>>
    /\ RebuildUnchanged

RebuildPublish(p) ==
    /\ rebuild_item[p].pc = "loaded"
    /\ PublicationFree
    /\ sessions' = [sessions EXCEPT ![p] = rebuild_item[p].session]
    /\ RebuildStep(p, "done", Nothing)
    /\ UNCHANGED <<location, durable_generation, rebuild_pc, rebuild_stamp>>
    /\ RebuildUnchanged

RebuildDone ==
    /\ rebuild_pc = "running"
    /\ \A p \in Paths : rebuild_item[p].pc \in {"none", "done"}
    /\ rebuild_pc' = "done"
    /\ UNCHANGED <<location, durable_generation, sessions, rebuild_stamp, rebuild_item>>
    /\ RebuildUnchanged

-----------------------------------------------------------------------------
FileStep ==
    \E p \in Paths : \/ AppendFile(p)
                     \/ \E n \in 1..MaxLength : CreateFile(p, n)
                     \/ DeleteFile(p)

WatcherStep ==
    \/ WatcherParse \/ WatcherLoadGeneration \/ WatcherObserve \/ WatcherLoad
    \/ WatcherPublish \/ WatcherTombstone \/ WatcherMarkMissing
    \/ WatcherPublishMissing \/ (\E p \in Paths : EvictParser(p))

SettingsStep == SetConfigAdvance \/ SetConfigClear

ScanStep(g) ==
    \/ ScanBegin(g) \/ ScanStoreGeneration(g) \/ ScanDiscover(g)
    \/ \E p \in Paths :
          \/ ScanParse(g, p) \/ ScanParseFails(g, p) \/ ScanReserve(g, p)
          \/ ScanCommit(g, p) \/ ScanLoad(g, p) \/ ScanCheckRemoved(g, p)
          \/ ScanMarkMissing(g, p) \/ ScanInsertMissing(g, p) \/ ScanPublish(g, p)
          \/ ScanReload(g, p)
    \/ ScanBatchesDone(g) \/ ScanFinish(g) \/ ScanApplyLoaded(g) \/ ScanDone(g)

RebuildAnyStep ==
    \/ RebuildBegin \/ RebuildCancel \/ RebuildDone
    \/ \E p \in Paths : RebuildParse(p) \/ RebuildCommit(p) \/ RebuildLoad(p) \/ RebuildPublish(p)

Next ==
    \/ FileStep
    \/ WatcherStep
    \/ SettingsStep
    \/ \E g \in Generations : ScanStep(g)
    \/ RebuildAnyStep

Spec == Init /\ [][Next]_vars

-----------------------------------------------------------------------------
(* Properties.                                                             *)

\* Every change of path p has been handled by the watcher.
Settled(p) ==
    /\ watcher.path /= p
    /\ \A i \in 1..Len(events) : events[i].path /= p

Quiescent ==
    /\ config_pc = "idle" /\ watcher.pc = "idle" /\ events = <<>>
    /\ \A g \in Generations : scan_pc[g] \in {"none", "done"}
    /\ rebuild_pc /= "running"

\* A path whose content a rebuild has rewritten.
Rebuilt(p) == rebuild_item[p].pc \in {"committed", "loaded", "done"}

\* A watcher removal stands in the archive against every scan of its
\* generation, whatever the order of tombstone, batch commit and correction:
\* the location is present only until the correction of a batch that raced it.
TombstoneHolds ==
    \A p \in Paths :
        /\ session_paths[p].removed /\ session_paths[p].generation = scan_generation
        /\ ~(watcher.path = p /\ watcher.pc \in {"tombstoned", "observing", "committed", "publish"})
        /\ \A g \in Generations : ~InBatch(g, p)
        /\ ~Rebuilt(p)
        => ~location[p].present

\* When everything has come to rest, the scan of the current settings saw every
\* file and was the newest durable generation, no file that is gone is present in the archive: neither a late
\* batch nor a superseded scan has resurrected it.
NoResurrection ==
    /\ Quiescent
    /\ ~scan_failed[scan_generation]
    /\ \A g \in Generations : scan_stamp[g] <= scan_stamp[scan_generation]
    => \A p \in Paths : disk[p] = 0 /\ ~Rebuilt(p) => ~location[p].present

\* What the watcher saw removed does not come back, neither while scans of the
\* same settings run nor once everything has come to rest.
NothingReturns == TombstoneHolds /\ NoResurrection

\* A step of the thread that scans for generation g.
ScanMoves(g) ==
    \/ scan_pc'[g] /= scan_pc[g] \/ item'[g] /= item[g]
    \/ affected'[g] /= affected[g] \/ reload'[g] /= reload[g]

\* A scan that set_config has superseded brings no transcript into the archive
\* or the projection and claims no path, whichever of its steps comes next: it
\* commits no batch and publishes no parsed session.  spawn_scan looks at the
\* generation for the last time before finish_history_scan, so one superseded
\* after that still marks rows missing, but only until the scan of the newer
\* settings has begun its durable generation, and republishes those rows as it
\* reads them back.
SupersededScanAddsNothing ==
    [][\A g \in Generations :
        g < scan_generation /\ ScanMoves(g) =>
            /\ UNCHANGED session_paths
            /\ \A p \in Paths :
                  /\ location'[p] /= location[p] =>
                        /\ scan_pc[g] = "finish" /\ location'[p] = Missing(location[p])
                        /\ scan_stamp[scan_generation] = 0
                  /\ sessions'[p] /= sessions[p] =>
                        /\ scan_pc[g] = "reload"
                        /\ reload[g] = [path |-> p, session |-> sessions'[p]]]_vars

\* The projection never holds content that the archive does not have, through
\* every read-back, correction and reload that publishes an earlier read.
PublishedIsDurable ==
    \A p \in Paths : sessions[p].length <= location[p].length

\* While the current scan runs, the watcher stamps its generation, so that a
\* newly created file is not marked missing at completion.
WatcherStampsCurrentScan ==
    scan_pc[scan_generation] \in {"discover", "batches", "finish"}
    => history_scan_generation = scan_stamp[scan_generation]

\* A completed scan marks missing no file that exists and whose changes the
\* watcher has handled.
FinishSparesLiveFiles ==
    [][\A g \in Generations, p \in Paths :
            /\ scan_pc[g] = "finish" /\ scan_pc'[g] = "reload" /\ p \in affected'[g]
            => disk[p] = 0 \/ ~Settled(p)]_vars

\* The correction of a raced removal marks missing no file that exists and
\* whose changes the watcher has handled.
CorrectionSparesLiveFiles ==
    [][\A g \in Generations, p \in Paths :
            /\ item[g][p].pc = "raced" /\ item'[g][p].pc = "corrected"
            => disk[p] = 0 \/ ~Settled(p)]_vars

\* An older loaded row never replaces a newer publication: at rest the
\* projection shows the archive's availability.
ProjectionFollowsArchive ==
    Quiescent => \A p \in Paths : sessions[p].present = location[p].present

\* A rebuild changes content, not availability: it makes no source present
\* that is gone.
RebuildResurrectsNothing ==
    [][\A p \in Paths :
            /\ rebuild_item[p].pc = "parsed" /\ rebuild_item'[p].pc = "committed"
            => location[p].present \/ disk[p] > 0 \/ ~Settled(p)]_vars
=============================================================================
