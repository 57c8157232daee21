---------------------- MODULE SessionPublication_proofs ----------------------
(***************************************************************************)
(* Proofs, for all sets of paths and every bound, that a superseded scan   *)
(* of module SessionPublication adds nothing to the archive or the         *)
(* projection, that the projection never shows content the archive does    *)
(* not have, and that what was removed does not come back.                 *)
(***************************************************************************)
EXTENDS SessionPublication, TLAPS

\* The watcher has a path exactly while it handles one.
WatcherHasPath == watcher.pc /= "idle" => watcher.path \in Paths

\* A batch holds config_transition from its reservation to the end of its
\* correction, so set_config cannot supersede its scan in between.
BatchIsCurrent ==
    \A g \in Generations, p \in Paths :
        InBatch(g, p) => g = scan_generation /\ config_pc = "idle"

\* Everything read back from the archive and still to be published is no
\* longer than what the archive has now.
WatcherReadIsDurable ==
    watcher.pc \in {"publish", "missing"}
    => watcher.session.length <= location[watcher.path].length

ItemReadIsDurable ==
    \A g \in Generations, p \in Paths :
        item[g][p].pc \in {"loaded", "raced", "corrected", "returned"}
        => item[g][p].session.length <= location[p].length

ReloadIsDurable ==
    \A g \in Generations :
        reload[g].path /= NoPath
        => reload[g].session.length <= location[reload[g].path].length

RebuildReadIsDurable ==
    \A p \in Paths :
        rebuild_item[p].pc = "loaded"
        => rebuild_item[p].session.length <= location[p].length

IInv ==
    /\ TypeOK
    /\ WatcherHasPath
    /\ BatchIsCurrent
    /\ PublishedIsDurable
    /\ WatcherReadIsDurable
    /\ ItemReadIsDurable
    /\ ReloadIsDurable
    /\ RebuildReadIsDurable

\* What a step has to do to the archive to keep every earlier read durable.
LocationsGrow ==
    \A p \in Paths : location[p].length <= location'[p].length

-----------------------------------------------------------------------------
\* observe_one_in_transaction keeps a row's type and never shortens it.
LEMMA ObserveGrows ==
    ASSUME TypeOK, NEW p \in Paths, NEW length \in Lengths, NEW stamp \in Nat,
           Observe(p, length, stamp)
    PROVE  location' \in [Paths -> Locations] /\ LocationsGrow
<1> USE LengthAssumption DEF TypeOK, Locations, Lengths, DurableGenerations
<1> DEFINE row == [length |-> IF length > location[p].length THEN length ELSE location[p].length,
                   present |-> TRUE,
                   seen |-> IF stamp > location[p].seen THEN stamp ELSE location[p].seen]
<1>1. location' = [location EXCEPT ![p] = row]
  BY DEF Observe
<1>2. row \in Locations /\ row.length >= location[p].length
  OBVIOUS
<1> HIDE DEF row
<1>3. location' \in [Paths -> Locations]
  BY <1>1, <1>2
<1>4. LocationsGrow
  BY <1>1, <1>2 DEF LocationsGrow
<1> QED BY <1>3, <1>4

\* A row marked missing keeps its content.
LEMMA MissingKeeps ==
    ASSUME NEW l \in Locations
    PROVE  Missing(l) \in Locations /\ Missing(l).length = l.length /\ l.length \in Nat
<1>1. l.length \in Lengths /\ l.seen \in DurableGenerations
  BY DEF Locations
<1>2. l.length \in Nat
  BY <1>1, LengthAssumption DEF Lengths
<1> QED BY <1>1, <1>2 DEF Missing, Locations

\* mark_path_missing keeps the row's content.
LEMMA MarkPathMissingKeeps ==
    ASSUME TypeOK, NEW p \in Paths, MarkPathMissing(p)
    PROVE  /\ location' \in [Paths -> Locations]
           /\ LocationsGrow
           /\ \A q \in Paths : location'[q].length = location[q].length
<1> USE LengthAssumption DEF TypeOK, Locations, Lengths, DurableGenerations
<1> DEFINE row == Missing(location[p])
<1>1. location' = [location EXCEPT ![p] = row]
  BY DEF MarkPathMissing
<1>2. row \in Locations /\ row.length = location[p].length
  BY DEF Missing
<1> HIDE DEF row
<1>3. location' \in [Paths -> Locations]
      /\ \A q \in Paths : location'[q].length = location[q].length
  BY <1>1, <1>2
<1>4. \A q \in Paths : location[q].length \in Nat
  OBVIOUS
<1> QED BY <1>3, <1>4 DEF LocationsGrow

\* A loaded session has its type.
LEMMA LoadTyped ==
    ASSUME TypeOK, NEW p \in Paths
    PROVE  Load(p) \in Loaded /\ Load(p).length = location[p].length
  BY DEF TypeOK, Load, Loaded, Locations

LEMMA InitIInv == Init => IInv
<1> SUFFICES ASSUME Init PROVE IInv
  OBVIOUS
<1> USE LengthAssumption, GenerationAssumption, OpsAssumption
<1>1. location \in [Paths -> Locations]
  BY DEF Init, Locations, Loaded, DurableGenerations, Lengths
<1>2. sessions \in [Paths -> Loaded] /\ \A p \in Paths : sessions[p].length = location[p].length
  BY <1>1 DEF Init, Load, Loaded, Locations
<1>3. Nothing \in Loaded /\ NoItem \in Items /\ NoReload \in Reloads
  BY DEF Nothing, NoItem, NoReload, Items, Reloads, Loaded, Lengths, ItemPCs
<1>4. Unclaimed \in PathStates
  BY DEF Unclaimed, PathStates
<1>5. IdleWatcher \in Watchers /\ IdleWatcher.pc = "idle"
  BY <1>3 DEF IdleWatcher, Watchers, WatcherPCs, DurableGenerations
<1>6. TypeOK
  BY <1>1, <1>2, <1>3, <1>4, <1>5
     DEF Init, TypeOK, Lengths, Generations, DurableGenerations, ScanPCs
<1>7. \A g \in Generations, p \in Paths : item[g][p].pc = "none"
  BY DEF Init, NoItem
<1>8. \A g \in Generations : reload[g].path = NoPath
  BY DEF Init, NoReload
<1>9. \A p \in Paths : rebuild_item[p].pc = "none"
  BY DEF Init, NoItem
<1>10. PublishedIsDurable
  <2> SUFFICES ASSUME NEW p \in Paths PROVE sessions[p].length <= location[p].length
    BY DEF PublishedIsDurable
  <2>1. location[p].length \in Nat
    BY <1>1 DEF Locations, Lengths
  <2>2. sessions[p].length = location[p].length
    BY <1>2
  <2> QED BY ONLY <2>1, <2>2
<1> QED
  BY <1>5, <1>6, <1>7, <1>8, <1>9, <1>10
     DEF Init, IInv, WatcherHasPath, BatchIsCurrent, InBatch, WatcherReadIsDurable,
         ItemReadIsDurable, ReloadIsDurable, RebuildReadIsDurable

-----------------------------------------------------------------------------
(* Frame lemmas.                                                           *)

\* Reads that are still to be published stay durable while rows only grow.
LEMMA ReadsKept ==
    ASSUME IInv, location' \in [Paths -> Locations], LocationsGrow
    PROVE  /\ UNCHANGED sessions => PublishedIsDurable'
           /\ UNCHANGED watcher => WatcherReadIsDurable' /\ WatcherHasPath'
           /\ UNCHANGED item => ItemReadIsDurable'
           /\ UNCHANGED reload => ReloadIsDurable'
           /\ UNCHANGED rebuild_item => RebuildReadIsDurable'
           /\ UNCHANGED <<item, settingsVars>> => BatchIsCurrent'
<1> USE LengthAssumption DEF IInv
<1>1. \A p \in Paths : /\ location[p].length \in Nat
                       /\ location'[p].length \in Nat
                       /\ location[p].length <= location'[p].length
  BY DEF TypeOK, Locations, Lengths, LocationsGrow
<1>2. UNCHANGED sessions => PublishedIsDurable'
  <2>1. \A p \in Paths : sessions[p].length \in Nat
    BY DEF TypeOK, Loaded, Lengths
  <2> QED BY <1>1, <2>1 DEF PublishedIsDurable
<1>3. UNCHANGED watcher => WatcherReadIsDurable' /\ WatcherHasPath'
  <2>1. watcher.session.length \in Nat
    BY DEF TypeOK, Watchers, Loaded, Lengths
  <2> QED BY <1>1, <2>1 DEF WatcherReadIsDurable, WatcherHasPath
<1>4. UNCHANGED item => ItemReadIsDurable'
  <2>1. \A g \in Generations, p \in Paths : item[g][p].session.length \in Nat
    BY DEF TypeOK, Items, Loaded, Lengths
  <2> QED BY <1>1, <2>1 DEF ItemReadIsDurable
<1>5. UNCHANGED reload => ReloadIsDurable'
  <2>1. \A g \in Generations : /\ reload[g].session.length \in Nat
                               /\ reload[g].path /= NoPath => reload[g].path \in Paths
    BY DEF TypeOK, Reloads, Loaded, Lengths
  <2> QED BY <1>1, <2>1 DEF ReloadIsDurable
<1>6. UNCHANGED rebuild_item => RebuildReadIsDurable'
  <2>1. \A p \in Paths : rebuild_item[p].session.length \in Nat
    BY DEF TypeOK, Items, Loaded, Lengths
  <2> QED BY <1>1, <2>1 DEF RebuildReadIsDurable
<1>7. UNCHANGED <<item, settingsVars>> => BatchIsCurrent'
  BY DEF BatchIsCurrent, InBatch, settingsVars
<1> QED BY <1>2, <1>3, <1>4, <1>5, <1>6, <1>7

\* An unchanged archive is one whose rows grow.
LEMMA SameLocations ==
    ASSUME TypeOK, UNCHANGED location
    PROVE  location' \in [Paths -> Locations] /\ LocationsGrow
<1>1. \A p \in Paths : location[p].length \in Nat
  BY LengthAssumption DEF TypeOK, Locations, Lengths
<1> QED BY <1>1 DEF TypeOK, LocationsGrow

\* Publishing a session that the archive has.
LEMMA PublishKept ==
    ASSUME IInv, location' \in [Paths -> Locations], LocationsGrow,
           NEW p \in Paths, NEW s \in Loaded, s.length <= location'[p].length,
           sessions' = [sessions EXCEPT ![p] = s]
    PROVE  sessions' \in [Paths -> Loaded] /\ PublishedIsDurable'
<1> USE LengthAssumption DEF IInv
<1>1. \A q \in Paths : /\ location[q].length \in Nat
                       /\ location'[q].length \in Nat
                       /\ location[q].length <= location'[q].length
                       /\ sessions[q].length \in Nat
  BY DEF TypeOK, Locations, Loaded, Lengths, LocationsGrow
<1>2. sessions' \in [Paths -> Loaded]
  BY DEF TypeOK
<1>3. \A q \in Paths : sessions'[q] = IF q = p THEN s ELSE sessions[q]
  BY DEF TypeOK
<1> QED BY <1>1, <1>2, <1>3 DEF PublishedIsDurable

\* One step of a batch's pipeline.
LEMMA ItemKept ==
    ASSUME IInv, location' \in [Paths -> Locations], LocationsGrow, UNCHANGED settingsVars,
           NEW g \in Generations, NEW p \in Paths, NEW pc \in ItemPCs, NEW s \in Loaded,
           ItemStep(g, p, pc, s),
           pc \in {"loaded", "raced", "corrected", "returned"} => s.length <= location'[p].length,
           pc \in {"reserved", "committed", "loaded", "raced", "corrected"}
              => g = scan_generation /\ config_pc = "idle"
    PROVE  /\ item' \in [Generations -> [Paths -> Items]]
           /\ ItemReadIsDurable'
           /\ BatchIsCurrent'
<1> USE LengthAssumption DEF IInv
<1>1. \A q \in Paths : /\ location[q].length \in Nat
                       /\ location'[q].length \in Nat
                       /\ location[q].length <= location'[q].length
  BY DEF TypeOK, Locations, Lengths, LocationsGrow
<1>2. \A h \in Generations, q \in Paths : item[h][q].session.length \in Nat
  BY DEF TypeOK, Items, Loaded, Lengths
<1> DEFINE rec == [pc |-> pc, session |-> s]
<1>3. rec \in Items /\ rec.pc = pc /\ rec.session = s
  BY DEF Items
<1>4. item' = [item EXCEPT ![g] = [item[g] EXCEPT ![p] = rec]]
  BY DEF ItemStep, TypeOK
<1> HIDE DEF rec
<1>5. item' \in [Generations -> [Paths -> Items]]
  BY <1>3, <1>4 DEF TypeOK
<1>6. \A h \in Generations, q \in Paths :
         item'[h][q] = IF h = g /\ q = p THEN rec ELSE item[h][q]
  BY <1>4 DEF TypeOK
<1>7. ItemReadIsDurable'
  BY <1>1, <1>2, <1>3, <1>6 DEF ItemReadIsDurable
<1>8. BatchIsCurrent'
  BY <1>3, <1>6 DEF BatchIsCurrent, InBatch, settingsVars
<1> QED BY <1>5, <1>7, <1>8

-----------------------------------------------------------------------------
(* One lemma for each kind of thread.                                    *)

\* The file system does not touch what the program holds.
LEMMA FileStepKept == ASSUME IInv, FileStep PROVE IInv'
<1> USE LengthAssumption, OpsAssumption DEF IInv
<1>1. PICK p \in Paths : AppendFile(p) \/ (\E n \in 1..MaxLength : CreateFile(p, n)) \/ DeleteFile(p)
  BY DEF FileStep
<1>2. PICK length \in Lengths, kind \in EventKinds : FileChange(p, length, kind)
  <2>1. AppendFile(p) => disk[p] + 1 \in Lengths /\ FileChange(p, disk[p] + 1, "modify")
    BY DEF AppendFile, TypeOK, Lengths
  <2>2. \A n \in 1..MaxLength : CreateFile(p, n) => n \in Lengths /\ FileChange(p, n, "modify")
    BY DEF CreateFile, Lengths
  <2>3. DeleteFile(p) => 0 \in Lengths /\ FileChange(p, 0, "remove")
    BY DEF DeleteFile, Lengths
  <2> QED BY <1>1, <2>1, <2>2, <2>3 DEF EventKinds
<1>3. parser' \in [Paths -> Lengths]
  BY <1>1 DEF AppendFile, CreateFile, DeleteFile, TypeOK, Lengths
<1>4. /\ ops' \in 0..MaxOps
      /\ disk' \in [Paths -> Lengths]
      /\ events' \in Seq([path : Paths, kind : EventKinds])
  <2>1. [path |-> p, kind |-> kind] \in [path : Paths, kind : EventKinds]
    OBVIOUS
  <2>2. ops' = ops + 1 /\ ops < MaxOps /\ disk' = [disk EXCEPT ![p] = length]
        /\ events' = Append(events, [path |-> p, kind |-> kind])
    BY <1>2 DEF FileChange
  <2>3. events' \in Seq([path : Paths, kind : EventKinds])
    BY <2>1, <2>2 DEF TypeOK
  <2> QED BY <2>2, <2>3 DEF TypeOK
<1>5. UNCHANGED <<location, durable_generation, history_scan_generation, stateVars,
                  settingsVars, watcher, scanVars, rebuildVars>>
  BY <1>2 DEF FileChange
<1>6. TypeOK'
  BY <1>3, <1>4, <1>5 DEF TypeOK, stateVars, settingsVars, scanVars, rebuildVars
<1>7. location' \in [Paths -> Locations] /\ LocationsGrow
  BY <1>5, SameLocations
<1> QED BY <1>5, <1>6, <1>7, ReadsKept DEF stateVars, settingsVars, scanVars, rebuildVars

\* The watcher publishes only what it has read back.
LEMMA WatcherStepKept == ASSUME IInv, WatcherStep PROVE IInv'
<1> USE LengthAssumption, GenerationAssumption DEF IInv
<1>e. ASSUME events /= <<>>
      PROVE  /\ Head(events) \in [path : Paths, kind : EventKinds]
             /\ Tail(events) \in Seq([path : Paths, kind : EventKinds])
  <2> DEFINE S == [path : Paths, kind : EventKinds]
  <2>1. events \in Seq(S)
    BY DEF TypeOK
  <2> HIDE DEF S
  <2>2. Head(events) \in S /\ Tail(events) \in Seq(S)
    BY <1>e, <2>1
  <2> QED BY <2>2 DEF S
<1>w. /\ watcher.pc \in WatcherPCs /\ watcher.session \in Loaded /\ watcher.stamp \in Nat
      /\ watcher.path \in Paths \union {NoPath}
      /\ watcher = [pc |-> watcher.pc, path |-> watcher.path, session |-> watcher.session,
                    stamp |-> watcher.stamp]
  BY DEF TypeOK, Watchers, DurableGenerations
<1>i. IdleWatcher \in Watchers /\ IdleWatcher.pc = "idle"
  BY DEF IdleWatcher, Watchers, WatcherPCs, DurableGenerations, Nothing, Loaded, Lengths
<1>1. CASE WatcherParse
  <2>1. location' \in [Paths -> Locations] /\ LocationsGrow
    BY <1>1, SameLocations DEF WatcherParse
  <2>2. /\ watcher' \in Watchers /\ parser' \in [Paths -> Lengths]
        /\ watcher' = watcher \/ (watcher'.pc = "parsed" /\ watcher'.path \in Paths)
    <3> DEFINE p == Head(events).path
    <3>1. p \in Paths /\ disk[p] \in Lengths
      BY <1>1, <1>e DEF WatcherParse, TypeOK
    <3>2. CASE disk[p] = 0 \/ disk[p] = parser[p]
      BY <1>1, <3>2 DEF WatcherParse, TypeOK, watcherVars
    <3>3. CASE ~(disk[p] = 0 \/ disk[p] = parser[p])
      <4>1. /\ parser' = [parser EXCEPT ![p] = disk[p]]
            /\ watcher' = [pc |-> "parsed", path |-> p, stamp |-> watcher.stamp,
                           session |-> [length |-> disk[p], present |-> TRUE]]
        BY <1>1, <1>w, <3>3 DEF WatcherParse
      <4> QED BY <1>w, <3>1, <4>1 DEF TypeOK, Watchers, WatcherPCs, Loaded, DurableGenerations
    <3> QED BY <3>2, <3>3
  <2>3. WatcherReadIsDurable' /\ WatcherHasPath'
    BY <2>1, <2>2, ReadsKept DEF WatcherReadIsDurable, WatcherHasPath
  <2>4. events' \in Seq([path : Paths, kind : EventKinds])
    BY <1>1, <1>e DEF WatcherParse
  <2>5. TypeOK'
    BY <1>1, <2>1, <2>2, <2>4 DEF WatcherParse, TypeOK, WatcherUnchanged, settingsVars, scanVars, rebuildVars, stateVars, watcherVars
  <2>6. PublishedIsDurable'
    BY <1>1, <2>1, ReadsKept DEF WatcherParse, stateVars
  <2>7. /\ ItemReadIsDurable' /\ ReloadIsDurable' /\ RebuildReadIsDurable'
        /\ BatchIsCurrent'
    BY <1>1, <2>1, ReadsKept DEF WatcherParse, WatcherUnchanged, scanVars, rebuildVars, settingsVars
  <2> QED BY <2>3, <2>5, <2>6, <2>7
<1>2. CASE WatcherLoadGeneration
  <2>p. watcher.path \in Paths
    BY <1>2 DEF WatcherLoadGeneration, WatcherHasPath
  <2>1. location' \in [Paths -> Locations] /\ LocationsGrow
    BY <1>2, SameLocations DEF WatcherLoadGeneration
  <2>2. watcher' = [pc |-> "observing", path |-> watcher.path, session |-> watcher.session,
                    stamp |-> history_scan_generation]
        /\ watcher' \in Watchers
    <3>1. watcher' = [pc |-> "observing", path |-> watcher.path, session |-> watcher.session,
                      stamp |-> history_scan_generation]
      BY <1>2, <1>w DEF WatcherLoadGeneration
    <3> QED BY <1>w, <3>1 DEF Watchers, WatcherPCs, DurableGenerations, TypeOK
  <2>3. WatcherReadIsDurable' /\ WatcherHasPath'
    BY <2>p, <2>2 DEF WatcherReadIsDurable, WatcherHasPath
  <2>5. TypeOK'
    BY <1>2, <2>1, <2>2 DEF WatcherLoadGeneration, TypeOK, WatcherUnchanged, settingsVars, scanVars, rebuildVars, stateVars, watcherVars
  <2>6. PublishedIsDurable'
    BY <1>2, <2>1, ReadsKept DEF WatcherLoadGeneration, stateVars
  <2>7. /\ ItemReadIsDurable' /\ ReloadIsDurable' /\ RebuildReadIsDurable'
        /\ BatchIsCurrent'
    BY <1>2, <2>1, ReadsKept DEF WatcherLoadGeneration, WatcherUnchanged, scanVars, rebuildVars, settingsVars
  <2> QED BY <2>3, <2>5, <2>6, <2>7
<1>3. CASE WatcherObserve
  <2>p. watcher.path \in Paths
    BY <1>3 DEF WatcherObserve, WatcherHasPath
  <2>1. location' \in [Paths -> Locations] /\ LocationsGrow
    BY <1>3, <1>w, <2>p, ObserveGrows DEF WatcherObserve, Loaded
  <2>2. watcher' = [pc |-> "committed", path |-> watcher.path, session |-> watcher.session,
                    stamp |-> watcher.stamp]
        /\ watcher' \in Watchers
    <3>1. watcher' = [pc |-> "committed", path |-> watcher.path, session |-> watcher.session,
                      stamp |-> watcher.stamp]
      BY <1>3, <1>w DEF WatcherObserve
    <3> QED BY <1>w, <3>1 DEF Watchers, WatcherPCs, DurableGenerations, TypeOK
  <2>3. WatcherReadIsDurable' /\ WatcherHasPath'
    BY <2>p, <2>2 DEF WatcherReadIsDurable, WatcherHasPath
  <2>5. TypeOK'
    BY <1>3, <2>1, <2>2 DEF WatcherObserve, TypeOK, WatcherUnchanged, settingsVars, scanVars, rebuildVars, stateVars, watcherVars
  <2>6. PublishedIsDurable'
    BY <1>3, <2>1, ReadsKept DEF WatcherObserve, stateVars
  <2>7. /\ ItemReadIsDurable' /\ ReloadIsDurable' /\ RebuildReadIsDurable'
        /\ BatchIsCurrent'
    BY <1>3, <2>1, ReadsKept DEF WatcherObserve, WatcherUnchanged, scanVars, rebuildVars, settingsVars
  <2> QED BY <2>3, <2>5, <2>6, <2>7
<1>4. CASE WatcherLoad
  <2>p. watcher.path \in Paths
    BY <1>4 DEF WatcherLoad, WatcherHasPath
  <2>1. location' \in [Paths -> Locations] /\ LocationsGrow
    BY <1>4, SameLocations DEF WatcherLoad
  <2>2. watcher' = [pc |-> "publish", path |-> watcher.path, session |-> Load(watcher.path),
                    stamp |-> watcher.stamp]
        /\ watcher' \in Watchers
    <3>1. watcher' = [pc |-> "publish", path |-> watcher.path, session |-> Load(watcher.path),
                      stamp |-> watcher.stamp]
      BY <1>4, <1>w DEF WatcherLoad
    <3> QED BY <1>w, <3>1, <2>p, LoadTyped DEF Watchers, WatcherPCs, DurableGenerations, TypeOK
  <2>3. WatcherReadIsDurable' /\ WatcherHasPath'
    <3>1. Load(watcher.path).length <= location'[watcher.path].length
      <4>1. location[watcher.path].length \in Nat
        BY <2>p DEF TypeOK, Locations, Lengths
      <4> QED BY <1>4, <2>p, <4>1, LoadTyped DEF WatcherLoad
    <3> QED BY <2>p, <2>2, <3>1 DEF WatcherReadIsDurable, WatcherHasPath
  <2>5. TypeOK'
    BY <1>4, <2>1, <2>2 DEF WatcherLoad, TypeOK, WatcherUnchanged, settingsVars, scanVars, rebuildVars, stateVars, watcherVars
  <2>6. PublishedIsDurable'
    BY <1>4, <2>1, ReadsKept DEF WatcherLoad, stateVars
  <2>7. /\ ItemReadIsDurable' /\ ReloadIsDurable' /\ RebuildReadIsDurable'
        /\ BatchIsCurrent'
    BY <1>4, <2>1, ReadsKept DEF WatcherLoad, WatcherUnchanged, scanVars, rebuildVars, settingsVars
  <2> QED BY <2>3, <2>5, <2>6, <2>7
<1>5. CASE WatcherPublish
  <2>p. watcher.path \in Paths
    BY <1>5 DEF WatcherPublish, WatcherHasPath
  <2>1. location' \in [Paths -> Locations] /\ LocationsGrow
    BY <1>5, SameLocations DEF WatcherPublish
  <2>2. watcher' \in Watchers /\ watcher'.pc = "idle"
    BY <1>5, <1>i DEF WatcherPublish
  <2>3. WatcherReadIsDurable' /\ WatcherHasPath'
    BY <2>2 DEF WatcherReadIsDurable, WatcherHasPath
  <2>4. session_paths' \in [Paths -> PathStates]
    <3>1. [generation |-> scan_generation, watcher_touched |-> TRUE, removed |-> FALSE] \in PathStates
      BY DEF TypeOK, PathStates, Generations
    <3> QED BY <1>5, <2>p, <3>1 DEF WatcherPublish, TypeOK
  <2>s. sessions' \in [Paths -> Loaded] /\ PublishedIsDurable'
    <3>1. watcher.session.length <= location'[watcher.path].length
      BY <1>5 DEF WatcherPublish, WatcherReadIsDurable
    <3> QED BY <1>5, <1>w, <2>p, <2>1, <3>1, PublishKept DEF WatcherPublish
  <2>5. TypeOK'
    BY <1>5, <2>1, <2>2, <2>4, <2>s DEF WatcherPublish, TypeOK, WatcherUnchanged, settingsVars, scanVars, rebuildVars, stateVars, watcherVars
  <2>6. PublishedIsDurable'
    BY <2>s
  <2>7. /\ ItemReadIsDurable' /\ ReloadIsDurable' /\ RebuildReadIsDurable'
        /\ BatchIsCurrent'
    BY <1>5, <2>1, ReadsKept DEF WatcherPublish, WatcherUnchanged, scanVars, rebuildVars, settingsVars
  <2> QED BY <2>3, <2>5, <2>6, <2>7
<1>6. CASE WatcherTombstone
  <2> DEFINE p == Head(events).path
  <2>p. p \in Paths
    BY <1>6, <1>e DEF WatcherTombstone
  <2>1. location' \in [Paths -> Locations] /\ LocationsGrow
    BY <1>6, SameLocations DEF WatcherTombstone
  <2>2. watcher' = [pc |-> "tombstoned", path |-> p, session |-> watcher.session,
                    stamp |-> watcher.stamp]
        /\ watcher' \in Watchers
    <3>1. watcher' = [pc |-> "tombstoned", path |-> p, session |-> watcher.session,
                      stamp |-> watcher.stamp]
      BY <1>6, <1>w DEF WatcherTombstone
    <3> QED BY <1>w, <2>p, <3>1 DEF Watchers, WatcherPCs, DurableGenerations
  <2>3. WatcherReadIsDurable' /\ WatcherHasPath'
    BY <2>p, <2>2 DEF WatcherReadIsDurable, WatcherHasPath
  <2>4. /\ events' \in Seq([path : Paths, kind : EventKinds])
        /\ parser' \in [Paths -> Lengths]
        /\ session_paths' \in [Paths -> PathStates]
    <3>1. Tombstone \in PathStates
      BY DEF Tombstone, TypeOK, PathStates, Generations
    <3>2. 0 \in Lengths
      BY DEF Lengths
    <3> QED BY <1>6, <1>e, <2>p, <3>1, <3>2 DEF WatcherTombstone, TypeOK
  <2>5. TypeOK'
    BY <1>6, <2>1, <2>2, <2>4 DEF WatcherTombstone, TypeOK, WatcherUnchanged, settingsVars, scanVars, rebuildVars, stateVars, watcherVars
  <2>6. PublishedIsDurable'
    BY <1>6, <2>1, ReadsKept DEF WatcherTombstone
  <2>7. /\ ItemReadIsDurable' /\ ReloadIsDurable' /\ RebuildReadIsDurable'
        /\ BatchIsCurrent'
    BY <1>6, <2>1, ReadsKept DEF WatcherTombstone, WatcherUnchanged, scanVars, rebuildVars, settingsVars
  <2> QED BY <2>3, <2>5, <2>6, <2>7
<1>7. CASE WatcherMarkMissing
  <2>p. watcher.path \in Paths
    BY <1>7 DEF WatcherMarkMissing, WatcherHasPath
  <2>m. /\ location' \in [Paths -> Locations] /\ LocationsGrow
        /\ \A q \in Paths : location'[q].length = location[q].length
    BY <1>7, <2>p, MarkPathMissingKeeps DEF WatcherMarkMissing
  <2>1. location' \in [Paths -> Locations] /\ LocationsGrow
    BY <2>m
  <2>l. location[watcher.path].length \in Lengths /\ location[watcher.path].length \in Nat
    BY <2>p DEF TypeOK, Locations, Lengths
  <2>2. watcher' = [pc |-> "missing", path |-> watcher.path, session |-> [length |-> location[watcher.path].length, present |-> FALSE],
                    stamp |-> watcher.stamp]
        /\ watcher' \in Watchers
    <3>1. watcher' = [pc |-> "missing", path |-> watcher.path, session |-> [length |-> location[watcher.path].length, present |-> FALSE],
                      stamp |-> watcher.stamp]
      BY <1>7, <1>w DEF WatcherMarkMissing
    <3> QED BY <1>w, <3>1, <2>l DEF Watchers, WatcherPCs, DurableGenerations, TypeOK, Loaded
  <2>3. WatcherReadIsDurable' /\ WatcherHasPath'
    BY <2>p, <2>l, <2>m, <2>2 DEF WatcherReadIsDurable, WatcherHasPath
  <2>5. TypeOK'
    BY <1>7, <2>1, <2>2 DEF WatcherMarkMissing, TypeOK, WatcherUnchanged, settingsVars, scanVars, rebuildVars, stateVars, watcherVars
  <2>6. PublishedIsDurable'
    BY <1>7, <2>1, ReadsKept DEF WatcherMarkMissing, stateVars
  <2>7. /\ ItemReadIsDurable' /\ ReloadIsDurable' /\ RebuildReadIsDurable'
        /\ BatchIsCurrent'
    BY <1>7, <2>1, ReadsKept DEF WatcherMarkMissing, WatcherUnchanged, scanVars, rebuildVars, settingsVars
  <2> QED BY <2>3, <2>5, <2>6, <2>7
<1>8. CASE WatcherPublishMissing
  <2>p. watcher.path \in Paths
    BY <1>8 DEF WatcherPublishMissing, WatcherHasPath
  <2>1. location' \in [Paths -> Locations] /\ LocationsGrow
    BY <1>8, SameLocations DEF WatcherPublishMissing
  <2>2. watcher' \in Watchers /\ watcher'.pc = "idle"
    BY <1>8, <1>i DEF WatcherPublishMissing
  <2>3. WatcherReadIsDurable' /\ WatcherHasPath'
    BY <2>2 DEF WatcherReadIsDurable, WatcherHasPath
  <2>s. sessions' \in [Paths -> Loaded] /\ PublishedIsDurable'
    <3>1. watcher.session.length <= location'[watcher.path].length
      BY <1>8 DEF WatcherPublishMissing, WatcherReadIsDurable
    <3> QED BY <1>8, <1>w, <2>p, <2>1, <3>1, PublishKept DEF WatcherPublishMissing
  <2>5. TypeOK'
    BY <1>8, <2>1, <2>2, <2>s DEF WatcherPublishMissing, TypeOK, WatcherUnchanged, settingsVars, scanVars, rebuildVars, stateVars, watcherVars
  <2>6. PublishedIsDurable'
    BY <2>s
  <2>7. /\ ItemReadIsDurable' /\ ReloadIsDurable' /\ RebuildReadIsDurable'
        /\ BatchIsCurrent'
    BY <1>8, <2>1, ReadsKept DEF WatcherPublishMissing, WatcherUnchanged, scanVars, rebuildVars, settingsVars
  <2> QED BY <2>3, <2>5, <2>6, <2>7
<1>9. ASSUME NEW p \in Paths, EvictParser(p) PROVE IInv'
  <2>1. location' \in [Paths -> Locations] /\ LocationsGrow
    BY <1>9, SameLocations DEF EvictParser
  <2>2. parser' \in [Paths -> Lengths]
    BY <1>9 DEF EvictParser, TypeOK, Lengths
  <2>5. TypeOK'
    BY <1>9, <2>1, <2>2 DEF EvictParser, TypeOK, WatcherUnchanged, settingsVars, scanVars, rebuildVars, stateVars
  <2> QED
    BY <1>9, <2>1, <2>5, ReadsKept
       DEF EvictParser, WatcherUnchanged, settingsVars, scanVars, rebuildVars, stateVars
<1> QED BY ONLY WatcherStep, <1>1, <1>2, <1>3, <1>4, <1>5, <1>6, <1>7, <1>8, <1>9 DEF WatcherStep

\* set_config waits for the batch that holds config_transition.
LEMMA SettingsStepKept == ASSUME IInv, SettingsStep PROVE IInv'
<1> USE LengthAssumption, GenerationAssumption DEF IInv
<1>1. UNCHANGED <<fileVars, location, durable_generation, history_scan_generation, sessions,
                  watcher, scan_stamp, scan_failed, item, affected, reload, rebuildVars>>
  BY DEF SettingsStep, SetConfigAdvance, SetConfigClear, SettingsUnchanged
<1>2. location' \in [Paths -> Locations] /\ LocationsGrow
  BY <1>1, SameLocations
<1>3. CASE SetConfigAdvance
  <2>1. scan_generation' \in Generations /\ config_pc' = "swapping"
        /\ UNCHANGED <<session_paths, parser, scan_pc>>
    BY <1>3 DEF SetConfigAdvance, TypeOK, Generations
  <2>2. TypeOK'
    BY <1>1, <2>1 DEF TypeOK, fileVars, rebuildVars
  <2>3. BatchIsCurrent'
    BY <1>1, <1>3 DEF SetConfigAdvance, TransitionFree, BatchIsCurrent, InBatch
  <2> QED BY <1>1, <1>2, <2>2, <2>3, ReadsKept DEF rebuildVars
<1>4. CASE SetConfigClear
  <2>1. /\ config_pc' = "idle" /\ UNCHANGED scan_generation
        /\ session_paths' \in [Paths -> PathStates]
        /\ parser' \in [Paths -> Lengths]
        /\ scan_pc' \in [Generations -> ScanPCs]
    <3>1. Unclaimed \in PathStates /\ 0 \in Lengths
      BY DEF Unclaimed, PathStates, Lengths
    <3> QED BY <1>4, <3>1 DEF SetConfigClear, TypeOK, ScanPCs
  <2>2. TypeOK'
    BY <1>1, <2>1 DEF TypeOK, fileVars, rebuildVars
  <2>3. BatchIsCurrent'
    BY <1>1, <1>4 DEF SetConfigClear, BatchIsCurrent, InBatch
  <2> QED BY <1>1, <1>2, <2>2, <2>3, ReadsKept DEF rebuildVars
<1> QED BY <1>3, <1>4 DEF SettingsStep

\* The steps of a scan before and after its batches.
LEMMA ScanThreadStepKept ==
    ASSUME IInv, NEW g \in Generations,
           \/ ScanBegin(g) \/ ScanStoreGeneration(g) \/ ScanDiscover(g)
           \/ ScanBatchesDone(g) \/ ScanFinish(g) \/ ScanDone(g)
           \/ ScanApplyLoaded(g) \/ \E p \in Paths : ScanReload(g, p)
    PROVE  IInv'
<1> USE LengthAssumption, GenerationAssumption DEF IInv
<1> USE DEF fileVars, settingsVars, watcherVars, rebuildVars, stateVars, ScanUnchanged,
            ScanEndUnchanged, DurableGenerations
<1>n. Nothing \in Loaded /\ NoItem \in Items /\ NoReload \in Reloads
      /\ [pc |-> "todo", session |-> Nothing] \in Items
  BY DEF Nothing, NoItem, NoReload, Items, Reloads, Loaded, Lengths, ItemPCs
<1>1. CASE ScanBegin(g)
  <2>1. location' \in [Paths -> Locations] /\ LocationsGrow
    BY <1>1, SameLocations DEF ScanBegin
  <2>2. /\ durable_generation' \in Nat
        /\ scan_stamp' \in [Generations -> Nat]
        /\ scan_pc' \in [Generations -> ScanPCs]
    BY <1>1 DEF ScanBegin, TypeOK, ScanPCs
  <2>3. TypeOK'
    BY <1>1, <2>2 DEF ScanBegin, TypeOK
  <2> QED BY <1>1, <2>1, <2>3, ReadsKept DEF ScanBegin
<1>2. CASE ScanStoreGeneration(g)
  <2>1. location' \in [Paths -> Locations] /\ LocationsGrow
    BY <1>2, SameLocations DEF ScanStoreGeneration
  <2>2. history_scan_generation' \in Nat /\ scan_pc' \in [Generations -> ScanPCs]
    BY <1>2 DEF ScanStoreGeneration, TypeOK, ScanPCs
  <2>3. TypeOK'
    BY <1>2, <2>2 DEF ScanStoreGeneration, TypeOK
  <2> QED BY <1>2, <2>1, <2>3, ReadsKept DEF ScanStoreGeneration
<1>3. CASE ScanDiscover(g)
  <2>1. location' \in [Paths -> Locations] /\ LocationsGrow
    BY <1>3, SameLocations DEF ScanDiscover
  <2> DEFINE found == [p \in Paths |->
                IF disk[p] > 0 THEN [pc |-> "todo", session |-> Nothing] ELSE NoItem]
  <2>2. found \in [Paths -> Items] /\ \A p \in Paths : found[p].pc \in {"todo", "none"}
    BY <1>n DEF NoItem
  <2>3. item' = [item EXCEPT ![g] = found] /\ scan_pc' \in [Generations -> ScanPCs]
    BY <1>3 DEF ScanDiscover, TypeOK, ScanPCs
  <2> HIDE DEF found
  <2>4. /\ item' \in [Generations -> [Paths -> Items]]
        /\ \A h \in Generations : item'[h] = IF h = g THEN found ELSE item[h]
    BY <2>2, <2>3 DEF TypeOK
  <2>5. TypeOK'
    BY <1>3, <2>3, <2>4 DEF ScanDiscover, TypeOK
  <2>6. ItemReadIsDurable' /\ BatchIsCurrent'
    BY <1>3, <2>2, <2>4 DEF ScanDiscover, ItemReadIsDurable, BatchIsCurrent, InBatch
  <2> QED BY <1>3, <2>1, <2>5, <2>6, ReadsKept DEF ScanDiscover
<1>4. CASE ScanBatchesDone(g)
  <2>1. location' \in [Paths -> Locations] /\ LocationsGrow
    BY <1>4, SameLocations DEF ScanBatchesDone
  <2>2. scan_pc' \in [Generations -> ScanPCs]
    BY <1>4 DEF ScanBatchesDone, TypeOK, ScanPCs
  <2>3. TypeOK'
    BY <1>4, <2>2 DEF ScanBatchesDone, TypeOK
  <2> QED BY <1>4, <2>1, <2>3, ReadsKept DEF ScanBatchesDone
<1>5. CASE ScanFinish(g)
  <2>1. location' \in [Paths -> Locations] /\ LocationsGrow
    <3>1. \A p \in Paths : /\ location[p] \in Locations /\ Missing(location[p]) \in Locations
                           /\ Missing(location[p]).length = location[p].length
                           /\ location[p].length \in Nat
      BY MissingKeeps DEF TypeOK
    <3>2. location' = [p \in Paths |->
              IF p \in Unseen(g) THEN Missing(location[p]) ELSE location[p]]
      BY <1>5 DEF ScanFinish
    <3> QED BY <3>1, <3>2 DEF LocationsGrow
  <2>2. scan_pc' \in [Generations -> ScanPCs] /\ affected' \in [Generations -> SUBSET Paths]
    <3>1. Unseen(g) \in SUBSET Paths
      BY DEF Unseen
    <3> QED BY <1>5, <3>1 DEF ScanFinish, TypeOK, ScanPCs
  <2>3. TypeOK'
    BY <1>5, <2>1, <2>2 DEF ScanFinish, TypeOK
  <2> QED BY <1>5, <2>1, <2>3, ReadsKept DEF ScanFinish
<1>6. CASE ScanDone(g)
  <2>1. location' \in [Paths -> Locations] /\ LocationsGrow
    BY <1>6, SameLocations DEF ScanDone
  <2>2. scan_pc' \in [Generations -> ScanPCs]
    BY <1>6 DEF ScanDone, TypeOK, ScanPCs
  <2>3. TypeOK'
    BY <1>6, <2>2 DEF ScanDone, TypeOK
  <2> QED BY <1>6, <2>1, <2>3, ReadsKept DEF ScanDone
<1>7. CASE ScanApplyLoaded(g)
  <2>1. location' \in [Paths -> Locations] /\ LocationsGrow
    BY <1>7, SameLocations DEF ScanApplyLoaded
  <2>p. CASE reload[g].path \in Paths
    <3>1. reload[g].session \in Loaded
      BY DEF TypeOK, Reloads
    <3>2. reload[g].session.length <= location'[reload[g].path].length
      BY <1>7, <2>p, NoPathAssumption DEF ScanApplyLoaded, ReloadIsDurable
    <3>3. sessions' \in [Paths -> Loaded] /\ PublishedIsDurable'
      BY <1>7, <2>p, <2>1, <3>1, <3>2, PublishKept DEF ScanApplyLoaded
    <3>4. reload' = [reload EXCEPT ![g] = NoReload] /\ reload' \in [Generations -> Reloads]
      BY <1>7, <1>n DEF ScanApplyLoaded, TypeOK
    <3>5. TypeOK'
      BY <1>7, <3>3, <3>4 DEF ScanApplyLoaded, TypeOK
    <3>6. ReloadIsDurable'
      <4>1. \A h \in Generations : reload'[h] = IF h = g THEN NoReload ELSE reload[h]
        BY <3>4 DEF TypeOK
      <4> QED BY <1>7, <4>1 DEF ScanApplyLoaded, ReloadIsDurable, NoReload
    <3> QED BY <1>7, <2>1, <3>3, <3>5, <3>6, ReadsKept DEF ScanApplyLoaded
  <2>q. CASE reload[g].path = NoPath
    <3>1. UNCHANGED sessions
      BY <1>7, <2>q, NoPathAssumption DEF ScanApplyLoaded, TypeOK
    <3>4. reload' = [reload EXCEPT ![g] = NoReload] /\ reload' \in [Generations -> Reloads]
      BY <1>7, <1>n DEF ScanApplyLoaded, TypeOK
    <3>5. TypeOK'
      BY <1>7, <3>1, <3>4 DEF ScanApplyLoaded, TypeOK
    <3>6. ReloadIsDurable'
      <4>1. \A h \in Generations : reload'[h] = IF h = g THEN NoReload ELSE reload[h]
        BY <3>4 DEF TypeOK
      <4> QED BY <1>7, <4>1 DEF ScanApplyLoaded, ReloadIsDurable, NoReload
    <3> QED BY <1>7, <2>1, <3>1, <3>5, <3>6, ReadsKept DEF ScanApplyLoaded
  <2> QED BY <2>p, <2>q DEF TypeOK, Reloads
<1>8. ASSUME NEW p \in Paths, ScanReload(g, p) PROVE IInv'
  <2>1. location' \in [Paths -> Locations] /\ LocationsGrow
    BY <1>8, SameLocations DEF ScanReload
  <2> DEFINE rec == [path |-> p, session |-> Load(p)]
  <2>2. rec \in Reloads /\ rec.path = p /\ rec.session = Load(p)
    BY LoadTyped DEF Reloads
  <2>3. reload' = [reload EXCEPT ![g] = rec] /\ affected' \in [Generations -> SUBSET Paths]
    BY <1>8 DEF ScanReload, TypeOK
  <2> HIDE DEF rec
  <2>4. /\ reload' \in [Generations -> Reloads]
        /\ \A h \in Generations : reload'[h] = IF h = g THEN rec ELSE reload[h]
    BY <2>2, <2>3 DEF TypeOK
  <2>5. TypeOK'
    BY <1>8, <2>3, <2>4 DEF ScanReload, TypeOK
  <2>6. ReloadIsDurable'
    <3>1. location[p].length \in Nat
      BY DEF TypeOK, Locations, Lengths
    <3>2. Load(p).length <= location[p].length
      BY <3>1, LoadTyped
    <3> QED BY <1>8, <2>2, <2>4, <3>2 DEF ScanReload, ReloadIsDurable
  <2> QED BY <1>8, <2>1, <2>5, <2>6, ReadsKept DEF ScanReload
<1> QED BY <1>1, <1>2, <1>3, <1>4, <1>5, <1>6, <1>7, <1>8

\* The batch pipeline: reads are published only while they are durable, and a
\* batch starts only for the current generation.
LEMMA ScanItemStepKept ==
    ASSUME IInv, NEW g \in Generations, NEW p \in Paths,
           \/ ScanParse(g, p) \/ ScanParseFails(g, p) \/ ScanReserve(g, p)
           \/ ScanCommit(g, p) \/ ScanLoad(g, p) \/ ScanCheckRemoved(g, p)
           \/ ScanMarkMissing(g, p) \/ ScanInsertMissing(g, p) \/ ScanPublish(g, p)
    PROVE  IInv'
<1> USE LengthAssumption, GenerationAssumption DEF IInv
<1> USE DEF fileVars, settingsVars, watcherVars, rebuildVars, stateVars, ScanUnchanged,
            ScanItemUnchanged, DurableGenerations
<1> DEFINE BatchPCs == {"reserved", "committed", "loaded", "raced", "corrected"}
<1> DEFINE ReadPCs == {"loaded", "raced", "corrected", "returned"}
<1>t. /\ item[g][p].session \in Loaded /\ Nothing \in Loaded
      /\ item[g][p].session.length \in Lengths
      /\ location[p].length \in Lengths /\ location[p].length \in Nat
      /\ disk[p] \in Lengths
  BY DEF TypeOK, Items, Nothing, Loaded, Lengths, Locations
<1>b. item[g][p].pc \in BatchPCs => g = scan_generation /\ config_pc = "idle"
  BY DEF BatchIsCurrent, InBatch
<1>r. item[g][p].pc \in ReadPCs => item[g][p].session.length <= location[p].length
  BY DEF ItemReadIsDurable
<1>u. UNCHANGED <<fileVars, settingsVars, watcherVars, rebuildVars, durable_generation,
                  history_scan_generation, scan_pc, scan_stamp, affected, reload>>
  BY DEF ScanParse, ScanParseFails, ScanReserve, ScanCommit, ScanLoad, ScanCheckRemoved,
         ScanMarkMissing, ScanInsertMissing, ScanPublish
\* What is left of an action once its effects on the shared state are known.
<1>k. ASSUME location' \in [Paths -> Locations], LocationsGrow,
             sessions' \in [Paths -> Loaded], PublishedIsDurable',
             session_paths' \in [Paths -> PathStates],
             scan_failed' \in [Generations -> BOOLEAN],
             NEW pc \in ItemPCs, NEW s \in Loaded, ItemStep(g, p, pc, s),
             pc \in ReadPCs => s.length <= location'[p].length,
             pc \in BatchPCs => g = scan_generation /\ config_pc = "idle"
      PROVE  IInv'
  <2>1. /\ item' \in [Generations -> [Paths -> Items]]
        /\ ItemReadIsDurable'
        /\ BatchIsCurrent'
    BY <1>u, <1>k, ItemKept
  <2>2. TypeOK'
    BY <1>u, <1>k, <2>1 DEF TypeOK
  <2>3. /\ WatcherReadIsDurable' /\ WatcherHasPath' /\ ReloadIsDurable'
        /\ RebuildReadIsDurable'
    BY <1>u, <1>k, ReadsKept
  <2> QED BY <1>k, <2>1, <2>2, <2>3
<1>1. CASE ScanParse(g, p)
  <2>1. location' \in [Paths -> Locations] /\ LocationsGrow
    BY <1>1, SameLocations DEF ScanParse
  <2>2. sessions' \in [Paths -> Loaded] /\ PublishedIsDurable'
    BY <1>1, <2>1, ReadsKept DEF ScanParse, TypeOK
  <2>3. session_paths' \in [Paths -> PathStates] /\ scan_failed' \in [Generations -> BOOLEAN]
    BY <1>1 DEF ScanParse, TypeOK
  <2>4. ItemStep(g, p, "parsed", [length |-> disk[p], present |-> TRUE])
    BY <1>1 DEF ScanParse
  <2> DEFINE s == [length |-> disk[p], present |-> TRUE]
  <2>5. s \in Loaded /\ "parsed" \in ItemPCs
    BY <1>t DEF Loaded, ItemPCs
  <2> QED BY <2>1, <2>2, <2>3, <2>4, <2>5, <1>k
<1>2. CASE ScanParseFails(g, p)
  <2>1. location' \in [Paths -> Locations] /\ LocationsGrow
    BY <1>2, SameLocations DEF ScanParseFails
  <2>2. sessions' \in [Paths -> Loaded] /\ PublishedIsDurable'
    BY <1>2, <2>1, ReadsKept DEF ScanParseFails, TypeOK
  <2>3. session_paths' \in [Paths -> PathStates] /\ scan_failed' \in [Generations -> BOOLEAN]
    BY <1>2 DEF ScanParseFails, TypeOK
  <2>4. ItemStep(g, p, "done", Nothing)
    BY <1>2 DEF ScanParseFails
  <2> DEFINE s == Nothing
  <2>5. s \in Loaded /\ "done" \in ItemPCs
    BY <1>t DEF Loaded, ItemPCs
  <2> QED BY <2>1, <2>2, <2>3, <2>4, <2>5, <1>k
<1>3. CASE ScanReserve(g, p)
  <2>1. location' \in [Paths -> Locations] /\ LocationsGrow
    BY <1>3, SameLocations DEF ScanReserve
  <2>2. sessions' \in [Paths -> Loaded] /\ PublishedIsDurable'
    BY <1>3, <2>1, ReadsKept DEF ScanReserve, TypeOK
  <2>3. session_paths' \in [Paths -> PathStates] /\ scan_failed' \in [Generations -> BOOLEAN]
    <3>1. g \in 0..MaxGeneration
      BY DEF Generations
    <3>2. session_paths' \in {session_paths, [session_paths EXCEPT ![p].generation = g]}
      BY <1>3 DEF ScanReserve
    <3>3. [session_paths EXCEPT ![p].generation = g] \in [Paths -> PathStates]
      BY <3>1 DEF TypeOK, PathStates
    <3> QED BY <1>3, <3>2, <3>3 DEF ScanReserve, TypeOK
  <2>4. CASE scan_generation = g /\ ~Ineligible(g, p)
    <3>1. ItemStep(g, p, "reserved", item[g][p].session) /\ config_pc = "idle"
      BY <1>3, <2>4 DEF ScanReserve, TransitionFree
    <3> QED BY <1>t, <2>1, <2>2, <2>3, <2>4, <3>1, <1>k DEF ItemPCs
  <2>5. CASE ~(scan_generation = g /\ ~Ineligible(g, p))
    <3>1. ItemStep(g, p, "done", Nothing)
      BY <1>3, <2>5 DEF ScanReserve
    <3> QED BY <1>t, <2>1, <2>2, <2>3, <3>1, <1>k DEF ItemPCs
  <2> QED BY <2>4, <2>5
<1>4. CASE ScanCommit(g, p)
  <2>1. location' \in [Paths -> Locations] /\ LocationsGrow
    <3>1. scan_stamp[g] \in Nat
      BY DEF TypeOK
    <3> QED BY <1>4, <1>t, <3>1, ObserveGrows DEF ScanCommit
  <2>2. sessions' \in [Paths -> Loaded] /\ PublishedIsDurable'
    BY <1>4, <2>1, ReadsKept DEF ScanCommit, TypeOK
  <2>3. session_paths' \in [Paths -> PathStates] /\ scan_failed' \in [Generations -> BOOLEAN]
    BY <1>4 DEF ScanCommit, TypeOK
  <2>4. ItemStep(g, p, "committed", item[g][p].session)
    BY <1>4 DEF ScanCommit
  <2> DEFINE s == item[g][p].session
  <2>5. s \in Loaded /\ "committed" \in ItemPCs
    BY <1>t DEF Loaded, ItemPCs
  <2>7. g = scan_generation /\ config_pc = "idle"
    BY <1>4, <1>b DEF ScanCommit
  <2> QED BY <2>1, <2>2, <2>3, <2>4, <2>5, <2>7, <1>k
<1>5. CASE ScanLoad(g, p)
  <2>1. location' \in [Paths -> Locations] /\ LocationsGrow
    BY <1>5, SameLocations DEF ScanLoad
  <2>2. sessions' \in [Paths -> Loaded] /\ PublishedIsDurable'
    BY <1>5, <2>1, ReadsKept DEF ScanLoad, TypeOK
  <2>3. session_paths' \in [Paths -> PathStates] /\ scan_failed' \in [Generations -> BOOLEAN]
    BY <1>5 DEF ScanLoad, TypeOK
  <2>4. ItemStep(g, p, "loaded", Load(p))
    BY <1>5 DEF ScanLoad
  <2> DEFINE s == Load(p)
  <2>5. s \in Loaded /\ "loaded" \in ItemPCs
    BY LoadTyped DEF Loaded, ItemPCs
  <2>6. s.length <= location'[p].length
    BY <1>5, <1>t, <1>r, <2>1, LoadTyped DEF ScanLoad, LocationsGrow
  <2>7. g = scan_generation /\ config_pc = "idle"
    BY <1>5, <1>b DEF ScanLoad
  <2> QED BY <2>1, <2>2, <2>3, <2>4, <2>5, <2>6, <2>7, <1>k
<1>6. CASE ScanCheckRemoved(g, p)
  <2>1. location' \in [Paths -> Locations] /\ LocationsGrow
    BY <1>6, SameLocations DEF ScanCheckRemoved
  <2>2. sessions' \in [Paths -> Loaded] /\ PublishedIsDurable'
    BY <1>6, <2>1, ReadsKept DEF ScanCheckRemoved, TypeOK
  <2>3. session_paths' \in [Paths -> PathStates] /\ scan_failed' \in [Generations -> BOOLEAN]
    BY <1>6 DEF ScanCheckRemoved, TypeOK
  <2>4. \E pc \in {"raced", "returned"} : ItemStep(g, p, pc, item[g][p].session)
    BY <1>6 DEF ScanCheckRemoved
  <2>5. item[g][p].session.length <= location'[p].length
    BY <1>6, <1>r DEF ScanCheckRemoved
  <2>6. g = scan_generation /\ config_pc = "idle"
    BY <1>6, <1>b DEF ScanCheckRemoved
  <2> QED BY <1>t, <2>1, <2>2, <2>3, <2>4, <2>5, <2>6, <1>k DEF ItemPCs
<1>7. CASE ScanMarkMissing(g, p)
  <2>m. /\ location' \in [Paths -> Locations] /\ LocationsGrow
        /\ \A q \in Paths : location'[q].length = location[q].length
    BY <1>7, MarkPathMissingKeeps DEF ScanMarkMissing
  <2>1. location' \in [Paths -> Locations] /\ LocationsGrow
    BY <2>m
  <2>2. sessions' \in [Paths -> Loaded] /\ PublishedIsDurable'
    BY <1>7, <2>1, ReadsKept DEF ScanMarkMissing, TypeOK
  <2>3. session_paths' \in [Paths -> PathStates] /\ scan_failed' \in [Generations -> BOOLEAN]
    BY <1>7 DEF ScanMarkMissing, TypeOK
  <2>4. ItemStep(g, p, "corrected", [length |-> location[p].length, present |-> FALSE])
    BY <1>7 DEF ScanMarkMissing
  <2> DEFINE s == [length |-> location[p].length, present |-> FALSE]
  <2>5. s \in Loaded /\ "corrected" \in ItemPCs
    BY <1>t DEF Loaded, ItemPCs
  <2>6. s.length <= location'[p].length
    BY <1>t, <2>m
  <2>7. g = scan_generation /\ config_pc = "idle"
    BY <1>7, <1>b DEF ScanMarkMissing
  <2> QED BY <2>1, <2>2, <2>3, <2>4, <2>5, <2>6, <2>7, <1>k
<1>8. CASE ScanInsertMissing(g, p)
  <2>1. location' \in [Paths -> Locations] /\ LocationsGrow
    BY <1>8, SameLocations DEF ScanInsertMissing
  <2>2. sessions' \in [Paths -> Loaded] /\ PublishedIsDurable'
    <3>1. item[g][p].session.length <= location'[p].length
      BY <1>8, <1>r DEF ScanInsertMissing
    <3> QED BY <1>8, <1>t, <2>1, <3>1, PublishKept DEF ScanInsertMissing
  <2>3. session_paths' \in [Paths -> PathStates] /\ scan_failed' \in [Generations -> BOOLEAN]
    BY <1>8 DEF ScanInsertMissing, TypeOK
  <2>4. ItemStep(g, p, "returned", item[g][p].session)
    BY <1>8 DEF ScanInsertMissing
  <2> DEFINE s == item[g][p].session
  <2>5. s \in Loaded /\ "returned" \in ItemPCs
    BY <1>t DEF Loaded, ItemPCs
  <2>6. s.length <= location'[p].length
    BY <1>8, <1>r DEF ScanInsertMissing
  <2> QED BY <2>1, <2>2, <2>3, <2>4, <2>5, <2>6, <1>k
<1>9. CASE ScanPublish(g, p)
  <2>1. location' \in [Paths -> Locations] /\ LocationsGrow
    BY <1>9, SameLocations DEF ScanPublish
  <2>2. sessions' \in [Paths -> Loaded] /\ PublishedIsDurable'
    <3>1. item[g][p].session.length <= location'[p].length
      BY <1>9, <1>r DEF ScanPublish
    <3>2. CASE sessions' = [sessions EXCEPT ![p] = item[g][p].session]
      BY <3>2, <1>t, <2>1, <3>1, PublishKept
    <3>3. CASE UNCHANGED sessions
      BY <3>3, <2>1, ReadsKept DEF TypeOK
    <3> QED BY <1>9, <3>2, <3>3 DEF ScanPublish
  <2>3. session_paths' \in [Paths -> PathStates] /\ scan_failed' \in [Generations -> BOOLEAN]
    <3>1. [generation |-> g, watcher_touched |-> FALSE, removed |-> FALSE] \in PathStates
      BY DEF PathStates, Generations
    <3> QED BY <1>9, <3>1 DEF ScanPublish, TypeOK
  <2>4. ItemStep(g, p, "done", Nothing)
    BY <1>9 DEF ScanPublish
  <2> DEFINE s == Nothing
  <2>5. s \in Loaded /\ "done" \in ItemPCs
    BY <1>t DEF Loaded, ItemPCs
  <2> QED BY <2>1, <2>2, <2>3, <2>4, <2>5, <1>k
<1> QED BY <1>1, <1>2, <1>3, <1>4, <1>5, <1>6, <1>7, <1>8, <1>9

\* One step of the rebuild's pipeline.
LEMMA RebuildItemKept ==
    ASSUME IInv, location' \in [Paths -> Locations], LocationsGrow,
           NEW p \in Paths, NEW pc \in ItemPCs, NEW s \in Loaded, RebuildStep(p, pc, s),
           pc = "loaded" => s.length <= location'[p].length
    PROVE  rebuild_item' \in [Paths -> Items] /\ RebuildReadIsDurable'
<1> USE LengthAssumption DEF IInv
<1>1. \A q \in Paths : /\ location[q].length \in Nat
                       /\ location'[q].length \in Nat
                       /\ location[q].length <= location'[q].length
                       /\ rebuild_item[q].session.length \in Nat
  BY DEF TypeOK, Locations, Items, Loaded, Lengths, LocationsGrow
<1> DEFINE rec == [pc |-> pc, session |-> s]
<1>2. rec \in Items /\ rec.pc = pc /\ rec.session = s
  BY DEF Items
<1>3. rebuild_item' = [rebuild_item EXCEPT ![p] = rec]
  BY DEF RebuildStep
<1> HIDE DEF rec
<1>4. /\ rebuild_item' \in [Paths -> Items]
      /\ \A q \in Paths : rebuild_item'[q] = IF q = p THEN rec ELSE rebuild_item[q]
  BY <1>2, <1>3 DEF TypeOK
<1> QED BY <1>1, <1>2, <1>4 DEF RebuildReadIsDurable

\* The rebuild publishes only what it has read back.
LEMMA RebuildStepKept == ASSUME IInv, RebuildAnyStep PROVE IInv'
<1> USE LengthAssumption, GenerationAssumption DEF IInv
<1> USE DEF fileVars, settingsVars, watcherVars, scanVars, rebuildVars, stateVars,
            RebuildUnchanged, DurableGenerations
<1>n. Nothing \in Loaded /\ NoItem \in Items
      /\ [pc |-> "todo", session |-> Nothing] \in Items
  BY DEF Nothing, NoItem, Items, Loaded, Lengths, ItemPCs
<1>u. UNCHANGED <<fileVars, history_scan_generation, session_paths, settingsVars, watcherVars,
                  scanVars>>
  BY DEF RebuildAnyStep, RebuildBegin, RebuildCancel, RebuildDone, RebuildParse, RebuildCommit,
         RebuildLoad, RebuildPublish
\* What is left of an action once its effects on the shared state are known.
<1>k. ASSUME location' \in [Paths -> Locations], LocationsGrow,
             sessions' \in [Paths -> Loaded], PublishedIsDurable',
             durable_generation' \in Nat, rebuild_stamp' \in Nat,
             rebuild_pc' \in {"idle", "running", "done"},
             rebuild_item' \in [Paths -> Items], RebuildReadIsDurable'
      PROVE  IInv'
  <2>1. TypeOK'
    BY <1>u, <1>k DEF TypeOK
  <2>2. /\ WatcherReadIsDurable' /\ WatcherHasPath' /\ ReloadIsDurable'
        /\ ItemReadIsDurable' /\ BatchIsCurrent'
    BY <1>u, <1>k, ReadsKept
  <2> QED BY <1>k, <2>1, <2>2
<1>1. CASE RebuildBegin
  <2>1. location' \in [Paths -> Locations] /\ LocationsGrow
    BY <1>1, SameLocations DEF RebuildBegin
  <2>2. sessions' \in [Paths -> Loaded] /\ PublishedIsDurable'
    BY <1>1, <2>1, ReadsKept DEF RebuildBegin, TypeOK
  <2>3. durable_generation' \in Nat /\ rebuild_stamp' \in Nat /\ rebuild_pc' = "running"
    BY <1>1 DEF RebuildBegin, TypeOK
  <2>4. rebuild_item' \in [Paths -> Items]
        /\ \A p \in Paths : rebuild_item'[p].pc \in {"todo", "none"}
    BY <1>1, <1>n DEF RebuildBegin, NoItem
  <2>5. RebuildReadIsDurable'
    BY <2>4 DEF RebuildReadIsDurable
  <2> QED BY <2>1, <2>2, <2>3, <2>4, <2>5, <1>k
<1>2. CASE RebuildDone
  <2>1. location' \in [Paths -> Locations] /\ LocationsGrow
    BY <1>2, SameLocations DEF RebuildDone
  <2>2. sessions' \in [Paths -> Loaded] /\ PublishedIsDurable' /\ RebuildReadIsDurable'
    BY <1>2, <2>1, ReadsKept DEF RebuildDone, TypeOK
  <2> QED BY <1>2, <2>1, <2>2, <1>k DEF RebuildDone, TypeOK
<1>3. ASSUME NEW p \in Paths, RebuildParse(p) PROVE IInv'
  <2>1. location' \in [Paths -> Locations] /\ LocationsGrow
    BY <1>3, SameLocations DEF RebuildParse
  <2>2. sessions' \in [Paths -> Loaded] /\ PublishedIsDurable'
    BY <1>3, <2>1, ReadsKept DEF RebuildParse, TypeOK
  <2>3. \E pc \in {"parsed", "none"}, s \in Loaded : RebuildStep(p, pc, s)
    <3>1. [length |-> disk[p], present |-> TRUE] \in Loaded
      BY DEF TypeOK, Loaded
    <3> QED BY <1>3, <1>n, <3>1 DEF RebuildParse
  <2>4. rebuild_item' \in [Paths -> Items] /\ RebuildReadIsDurable'
    BY <2>1, <2>3, RebuildItemKept DEF ItemPCs
  <2>5. durable_generation' \in Nat /\ rebuild_stamp' \in Nat
        /\ rebuild_pc' \in {"idle", "running", "done"}
    BY <1>3 DEF RebuildParse, TypeOK
  <2> QED BY <2>1, <2>2, <2>4, <2>5, <1>k
<1>4. ASSUME NEW p \in Paths, RebuildCommit(p) PROVE IInv'
  <2>t. /\ rebuild_item[p].session \in Loaded /\ rebuild_stamp \in Nat
        /\ rebuild_item[p].session.length \in Lengths
    BY DEF TypeOK, Items, Loaded
  <2>1. location' \in [Paths -> Locations] /\ LocationsGrow
    BY <1>4, <2>t, ObserveGrows DEF RebuildCommit
  <2>2. sessions' \in [Paths -> Loaded] /\ PublishedIsDurable'
    BY <1>4, <2>1, ReadsKept DEF RebuildCommit, TypeOK
  <2>4. rebuild_item' \in [Paths -> Items] /\ RebuildReadIsDurable'
    BY <1>4, <2>t, <2>1, RebuildItemKept DEF RebuildCommit, ItemPCs
  <2>5. durable_generation' \in Nat /\ rebuild_stamp' \in Nat
        /\ rebuild_pc' \in {"idle", "running", "done"}
    BY <1>4 DEF RebuildCommit, TypeOK
  <2> QED BY <2>1, <2>2, <2>4, <2>5, <1>k
<1>5. ASSUME NEW p \in Paths, RebuildLoad(p) PROVE IInv'
  <2>1. location' \in [Paths -> Locations] /\ LocationsGrow
    BY <1>5, SameLocations DEF RebuildLoad
  <2>2. sessions' \in [Paths -> Loaded] /\ PublishedIsDurable'
    BY <1>5, <2>1, ReadsKept DEF RebuildLoad, TypeOK
  <2>3. Load(p).length <= location'[p].length
    <3>1. location[p].length \in Nat
      BY DEF TypeOK, Locations, Lengths
    <3> QED BY <1>5, <3>1, LoadTyped DEF RebuildLoad
  <2>4. rebuild_item' \in [Paths -> Items] /\ RebuildReadIsDurable'
    BY <1>5, <2>1, <2>3, LoadTyped, RebuildItemKept DEF RebuildLoad, ItemPCs
  <2>5. durable_generation' \in Nat /\ rebuild_stamp' \in Nat
        /\ rebuild_pc' \in {"idle", "running", "done"}
    BY <1>5 DEF RebuildLoad, TypeOK
  <2> QED BY <2>1, <2>2, <2>4, <2>5, <1>k
<1>6. ASSUME NEW p \in Paths, RebuildPublish(p) PROVE IInv'
  <2>1. location' \in [Paths -> Locations] /\ LocationsGrow
    BY <1>6, SameLocations DEF RebuildPublish
  <2>2. sessions' \in [Paths -> Loaded] /\ PublishedIsDurable'
    <3>1. rebuild_item[p].session.length <= location'[p].length
          /\ rebuild_item[p].session \in Loaded
      BY <1>6 DEF RebuildPublish, RebuildReadIsDurable, TypeOK, Items
    <3> QED BY <1>6, <2>1, <3>1, PublishKept DEF RebuildPublish
  <2>4. rebuild_item' \in [Paths -> Items] /\ RebuildReadIsDurable'
    BY <1>6, <1>n, <2>1, RebuildItemKept DEF RebuildPublish, ItemPCs
  <2>5. durable_generation' \in Nat /\ rebuild_stamp' \in Nat
        /\ rebuild_pc' \in {"idle", "running", "done"}
    BY <1>6 DEF RebuildPublish, TypeOK
  <2> QED BY <2>1, <2>2, <2>4, <2>5, <1>k
<1>7. CASE RebuildCancel
  <2>1. location' \in [Paths -> Locations] /\ LocationsGrow
    BY <1>7, SameLocations DEF RebuildCancel
  <2>2. sessions' \in [Paths -> Loaded] /\ PublishedIsDurable'
    BY <1>7, <2>1, ReadsKept DEF RebuildCancel, TypeOK
  <2>3. /\ rebuild_item' \in [Paths -> Items]
        /\ \A p \in Paths : rebuild_item'[p] = rebuild_item[p] \/ rebuild_item'[p].pc = "none"
    BY <1>7, <1>n DEF RebuildCancel, TypeOK, NoItem
  <2>4. RebuildReadIsDurable'
    BY <1>7, <2>3 DEF RebuildCancel, RebuildReadIsDurable
  <2> QED BY <1>7, <2>1, <2>2, <2>3, <2>4, <1>k DEF RebuildCancel, TypeOK
<1> QED BY <1>1, <1>2, <1>3, <1>4, <1>5, <1>6, <1>7 DEF RebuildAnyStep

-----------------------------------------------------------------------------
LEMMA IInvPreserved == IInv /\ [Next]_vars => IInv'
<1> SUFFICES ASSUME IInv, [Next]_vars PROVE IInv'
  OBVIOUS
<1>1. CASE UNCHANGED vars
  <2> USE <1>1 DEF vars, fileVars, stateVars, settingsVars, watcherVars, scanVars, rebuildVars
  <2>1. location' \in [Paths -> Locations] /\ LocationsGrow
    BY SameLocations DEF IInv
  <2>2. TypeOK'
    BY DEF IInv, TypeOK
  <2> QED BY <2>1, <2>2, ReadsKept DEF IInv
<1>2. ASSUME NEW g \in Generations, ScanStep(g) PROVE IInv'
  BY <1>2, ScanThreadStepKept, ScanItemStepKept DEF ScanStep
<1> QED
  BY <1>1, <1>2, FileStepKept, WatcherStepKept, SettingsStepKept, RebuildStepKept DEF Next

\* The inductive invariant holds in every reachable state.
THEOREM InductiveInvariant == Spec => []IInv
  BY InitIInv, IInvPreserved, PTL DEF Spec

\* The state of the archive, the projection, the watcher, every scan and the
\* rebuild has its type in every reachable state.
THEOREM TypeCorrect == Spec => []TypeOK
  BY InductiveInvariant, PTL DEF IInv

\* load_one results that wait to be published, whatever commits and removals
\* pass them, never put content in the projection that the archive lacks.
THEOREM PublishedIsDurableHolds == Spec => []PublishedIsDurable
  BY InductiveInvariant, PTL DEF IInv

-----------------------------------------------------------------------------
(* What was removed does not come back.                                    *)

\* Scans and settings: a path is claimed by no later generation, only the
\* current generation may still have to be spawned, items are at work during the
\* batches alone, and a rebuild that has not begun has none.
Control ==
    /\ \A p \in Paths : session_paths[p].generation <= scan_generation
    /\ \A g \in Generations : g > scan_generation => scan_pc[g] = "none"
    /\ config_pc = "swapping" <=> scan_pc[scan_generation] = "none"
    /\ \A g \in Generations, p \in Paths :
          scan_pc[g] /= "batches" => item[g][p].pc \in {"none", "done"}
    /\ \A p \in Paths : rebuild_pc = "idle" => rebuild_item[p].pc = "none"

Overtaken(g) == \E h \in Generations : scan_stamp[h] > scan_stamp[g]

\* The newest durable generation is the one of the scan that runs, unless
\* another scan has begun after it.
Stamps ==
    \A g \in Generations :
        /\ scan_stamp[g] <= durable_generation
        /\ scan_pc[g] \in {"storing", "discover", "batches", "finish"}
           => scan_stamp[g] > 0 /\ (scan_stamp[g] = durable_generation \/ Overtaken(g))

\* The watcher has recorded the removal of p for the current settings.
Tombstoned(p) == session_paths[p].removed /\ session_paths[p].generation = scan_generation

\* The watcher has yet to hear of a removal of p.
RemovePending(p) == \E i \in 1..Len(events) : events[i].path = p /\ events[i].kind = "remove"

\* The batch has committed p and may still have to take it back.
Unchecked(p) == \E g \in Generations : item[g][p].pc \in {"committed", "loaded", "raced"}

\* The watcher is between a removal or a parse of p and what it publishes.
Handling(p) ==
    watcher.path = p /\ watcher.pc \in {"tombstoned", "observing", "committed", "publish"}

TombstoneStands(p) ==
    Tombstoned(p) /\ ~Handling(p) /\ ~Unchecked(p) /\ ~Rebuilt(p) => ~location[p].present

\* What was read from a file that is gone by now will be heard of.
ReadIsHeard(p) ==
    disk[p] = 0 =>
        /\ watcher.path = p /\ watcher.pc \in {"parsed", "observing", "committed", "publish"}
           => RemovePending(p)
        /\ item[scan_generation][p].pc \in {"parsed", "reserved"}
           => RemovePending(p) \/ Tombstoned(p)

\* A path never seen that the current scan has yet to mark missing, if it can.
NotYetMissed(p) ==
    /\ location[p].seen = 0
    /\ \/ scan_pc[scan_generation] \in {"none", "spawned", "storing", "discover", "batches", "finish"}
       \/ scan_failed[scan_generation]
       \/ Overtaken(scan_generation)

\* A file that is gone is present in the archive only while somebody still
\* has to take it out.
GoneIsTakenOut(p) ==
    disk[p] = 0 /\ location[p].present /\ ~Rebuilt(p) =>
        \/ RemovePending(p)
        \/ watcher.path = p /\ watcher.pc = "tombstoned"
        \/ Unchecked(p) /\ Tombstoned(p)
        \/ NotYetMissed(p)

PathInv(p) == TombstoneStands(p) /\ ReadIsHeard(p) /\ GoneIsTakenOut(p)

RInv == Control /\ Stamps /\ \A p \in Paths : PathInv(p)

-----------------------------------------------------------------------------
(* What one step does to the shared structures, path by path.              *)

LEMMA ItemMoves ==
    ASSUME TypeOK, NEW g \in Generations, NEW q \in Paths, NEW pc, NEW s, ItemStep(g, q, pc, s)
    PROVE  \A h \in Generations, r \in Paths :
               item'[h][r].pc = IF h = g /\ r = q THEN pc ELSE item[h][r].pc
<1> DEFINE rec == [pc |-> pc, session |-> s]
<1>1. item' = [item EXCEPT ![g] = [item[g] EXCEPT ![q] = rec]] /\ rec.pc = pc
  BY DEF ItemStep, TypeOK
<1> HIDE DEF rec
<1> QED BY <1>1 DEF TypeOK

LEMMA RebuildMoves ==
    ASSUME TypeOK, NEW q \in Paths, NEW pc, NEW s, RebuildStep(q, pc, s)
    PROVE  \A r \in Paths : rebuild_item'[r].pc = IF r = q THEN pc ELSE rebuild_item[r].pc
<1> DEFINE rec == [pc |-> pc, session |-> s]
<1>1. rebuild_item' = [rebuild_item EXCEPT ![q] = rec] /\ rec.pc = pc
  BY DEF RebuildStep
<1> HIDE DEF rec
<1> QED BY <1>1 DEF TypeOK

LEMMA ObserveMoves ==
    ASSUME TypeOK, NEW q \in Paths, NEW length, NEW stamp, Observe(q, length, stamp)
    PROVE  location'[q].present /\ \A r \in Paths \ {q} : location'[r] = location[r]
  BY DEF Observe, TypeOK

LEMMA MissingMoves ==
    ASSUME TypeOK, NEW q \in Paths, MarkPathMissing(q)
    PROVE  ~location'[q].present /\ \A r \in Paths \ {q} : location'[r] = location[r]
<1>1. Missing(location[q]).present = FALSE
  BY DEF Missing
<1>2. location'[q] = Missing(location[q]) /\ \A r \in Paths \ {q} : location'[r] = location[r]
  BY DEF MarkPathMissing, TypeOK
<1> QED BY <1>1, <1>2

\* A change is heard of after those before it.
LEMMA ChangeIsPending ==
    ASSUME TypeOK, NEW p \in Paths, NEW q \in Paths, NEW kind \in EventKinds,
           events' = Append(events, [path |-> q, kind |-> kind])
    PROVE  /\ RemovePending(p) => RemovePending(p)'
           /\ kind = "remove" => RemovePending(q)'
<1> DEFINE e == [path |-> q, kind |-> kind]
           E == [path : Paths, kind : EventKinds]
<1>1. events \in Seq(E) /\ e \in E /\ e.path = q /\ e.kind = kind
  BY DEF TypeOK
<1> HIDE DEF e, E
<1>2. /\ Len(events') = Len(events) + 1 /\ events'[Len(events) + 1] = e /\ Len(events) \in Nat
      /\ \A i \in 1..Len(events) : events'[i] = events[i]
  BY <1>1 DEF e
<1> QED BY <1>1, <1>2 DEF RemovePending

\* What is heard of is pending no more, everything else still is.
LEMMA RestIsPending ==
    ASSUME TypeOK, NEW p \in Paths, events /= <<>>, events' = Tail(events),
           Head(events).path = p => Head(events).kind /= "remove"
    PROVE  RemovePending(p) => RemovePending(p)'
<1> DEFINE E == [path : Paths, kind : EventKinds]
<1>1. events \in Seq(E)
  BY DEF TypeOK
<1> HIDE DEF E
<1>2. /\ Len(events') = Len(events) - 1 /\ Len(events) \in Nat /\ Head(events) = events[1]
      /\ \A i \in 1..(Len(events) - 1) : events'[i] = events[i + 1]
  BY <1>1
<1> SUFFICES ASSUME NEW i \in 1..Len(events), events[i].path = p, events[i].kind = "remove"
             PROVE  RemovePending(p)'
  BY DEF RemovePending
<1>3. i /= 1
  BY <1>2
<1>4. i - 1 \in 1..Len(events') /\ events'[i - 1] = events[i]
  BY <1>2, <1>3
<1> QED BY <1>4 DEF RemovePending

-----------------------------------------------------------------------------
(* A path that a step does not concern.                                    *)

Working == {"parsed", "reserved", "committed", "loaded", "raced"}

\* The step leaves what the archive and the threads have of p.
Apart(p) ==
    /\ disk'[p] = disk[p] /\ location'[p] = location[p]
    /\ Tombstoned(p)' <=> Tombstoned(p)
    /\ \/ watcher' = watcher
       \/ ~(watcher'.path = p /\ watcher'.pc /= "idle") /\ ~(watcher.path = p /\ watcher.pc /= "idle")
    /\ \A g \in Generations : \/ item'[g][p].pc = item[g][p].pc
                              \/ item'[g][p].pc \notin Working /\ item[g][p].pc \notin Working
    /\ Rebuilt(p)' <=> Rebuilt(p)
    /\ scan_generation' = scan_generation
    /\ RemovePending(p) => RemovePending(p)'
    /\ NotYetMissed(p) => NotYetMissed(p)'

LEMMA ApartKept ==
    ASSUME TypeOK, NEW p \in Paths, PathInv(p), Apart(p)
    PROVE  PathInv(p)'
<1>1. Unchecked(p)' <=> Unchecked(p)
  BY DEF Apart, Unchecked, Working
<1>2. Handling(p)' <=> Handling(p)
  BY DEF Apart, Handling
<1>3. TombstoneStands(p)'
  BY <1>1, <1>2 DEF PathInv, TombstoneStands, Apart
<1>4. ReadIsHeard(p)'
  <2>1. scan_generation \in Generations
    BY DEF TypeOK
  <2> QED BY <2>1 DEF PathInv, ReadIsHeard, Apart, Working
<1>5. GoneIsTakenOut(p)'
  BY <1>1 DEF PathInv, GoneIsTakenOut, Apart
<1> QED BY <1>3, <1>4, <1>5 DEF PathInv

\* Nothing that decides what a scan will mark missing has changed.
LEMMA MissedKept ==
    ASSUME NEW p \in Paths, location'[p].seen = location[p].seen,
           UNCHANGED <<scan_generation, scan_pc, scan_stamp>>,
           scan_failed[scan_generation] => scan_failed'[scan_generation]
    PROVE  NotYetMissed(p) => NotYetMissed(p)'
  BY DEF NotYetMissed, Overtaken

-----------------------------------------------------------------------------
(* The control part.                                                       *)

LEMMA ControlInit == ASSUME Init PROVE Control /\ Stamps
<1>1. /\ \A p \in Paths : session_paths[p].generation = 0 /\ rebuild_item[p].pc = "none"
      /\ \A g \in Generations, p \in Paths : item[g][p].pc = "none"
      /\ \A g \in Generations : scan_stamp[g] = 0 /\ scan_pc[g] = IF g = 1 THEN "spawned" ELSE "none"
      /\ scan_generation = 1 /\ config_pc = "idle" /\ durable_generation = 0 /\ 1 \in Generations
  BY GenerationAssumption DEF Init, Unclaimed, NoItem, Generations
<1> QED BY <1>1 DEF Control, Stamps, Generations

LEMMA ControlKept == ASSUME IInv, Control, [Next]_vars PROVE Control'
<1> USE DEF fileVars, stateVars, settingsVars, watcherVars, scanVars, rebuildVars
<1>t. /\ TypeOK /\ BatchIsCurrent /\ scan_generation \in Generations
      /\ \A g \in Generations : g \in Nat
  BY DEF IInv, TypeOK, Generations
\* Only the claims of paths have changed, or nothing has.
<1>c. ASSUME UNCHANGED <<scan_generation, config_pc, scan_pc, item, rebuild_pc, rebuild_item>>,
             \A p \in Paths : \/ session_paths'[p].generation = session_paths[p].generation
                              \/ session_paths'[p].generation = scan_generation
      PROVE  Control'
  BY <1>t, <1>c DEF Control
<1>1. CASE FileStep \/ UNCHANGED vars
  BY <1>c, <1>1 DEF FileStep, AppendFile, CreateFile, DeleteFile, FileChange, vars
<1>2. CASE WatcherStep
  <2>1. UNCHANGED <<scan_generation, config_pc, scan_pc, item, rebuild_pc, rebuild_item>>
    BY <1>2 DEF WatcherStep, WatcherParse, WatcherLoadGeneration, WatcherObserve, WatcherLoad,
       WatcherPublish, WatcherTombstone, WatcherMarkMissing, WatcherPublishMissing, EvictParser,
       WatcherUnchanged
  <2>2. \/ UNCHANGED session_paths
        \/ \E q \in Paths, s \in PathStates :
              session_paths' = [session_paths EXCEPT ![q] = s] /\ s.generation = scan_generation
    <3>1. CASE WatcherPublish
      <4>1. watcher.path \in Paths
        BY <3>1 DEF WatcherPublish, IInv, WatcherHasPath
      <4>2. [generation |-> scan_generation, watcher_touched |-> TRUE, removed |-> FALSE] \in PathStates
        BY <1>t DEF PathStates, Generations
      <4> QED BY <3>1, <4>1, <4>2 DEF WatcherPublish
    <3>2. CASE WatcherTombstone
      <4>1. Head(events).path \in Paths
        <5> DEFINE E == [path : Paths, kind : EventKinds]
        <5>1. events \in Seq(E) /\ events /= <<>>
          BY <1>t, <3>2 DEF WatcherTombstone, TypeOK
        <5> HIDE DEF E
        <5>2. Head(events) \in E
          BY <5>1
        <5> QED BY <5>2 DEF E
      <4>2. Tombstone \in PathStates /\ Tombstone.generation = scan_generation
        BY <1>t DEF Tombstone, PathStates, Generations
      <4> QED BY <3>2, <4>1, <4>2 DEF WatcherTombstone
    <3> QED BY <1>2, <3>1, <3>2 DEF WatcherStep, WatcherParse, WatcherLoadGeneration,
               WatcherObserve, WatcherLoad, WatcherMarkMissing, WatcherPublishMissing, EvictParser
  <2>3. \A p \in Paths : \/ session_paths'[p].generation = session_paths[p].generation
                         \/ session_paths'[p].generation = scan_generation
    BY <1>t, <2>2 DEF TypeOK
  <2> QED BY <1>c, <2>1, <2>3
<1>3. CASE SetConfigAdvance
  <2>1. /\ scan_generation' = scan_generation + 1 /\ config_pc' = "swapping" /\ config_pc = "idle"
        /\ UNCHANGED <<session_paths, scan_pc, item, rebuild_pc, rebuild_item>>
        /\ scan_generation' \in Generations
    BY <1>3, <1>t, GenerationAssumption
       DEF SetConfigAdvance, SettingsUnchanged, TransitionFree, Generations
  <2>2. \A p \in Paths : session_paths[p].generation \in Nat
    BY <1>t DEF TypeOK, PathStates
  <2> QED BY <1>t, <2>1, <2>2 DEF Control
<1>4. CASE SetConfigClear
  <2>1. /\ config_pc' = "idle" /\ UNCHANGED <<scan_generation, item, rebuild_pc, rebuild_item>>
        /\ \A p \in Paths : session_paths'[p].generation = 0
        /\ \A g \in Generations : scan_pc'[g] = IF g = scan_generation THEN "spawned" ELSE scan_pc[g]
        /\ config_pc = "swapping"
    BY <1>4, <1>t DEF SetConfigClear, SettingsUnchanged, Unclaimed, TypeOK
  <2> QED BY <1>t, <2>1 DEF Control
<1>5. ASSUME NEW g \in Generations, ScanStep(g)
      PROVE  Control'
  <2>1. UNCHANGED <<scan_generation, config_pc, rebuild_pc, rebuild_item>>
    BY <1>5 DEF ScanStep, ScanBegin, ScanStoreGeneration, ScanDiscover, ScanParse, ScanParseFails,
       ScanReserve, ScanCommit, ScanLoad, ScanCheckRemoved, ScanMarkMissing, ScanInsertMissing,
       ScanPublish, ScanReload, ScanBatchesDone, ScanFinish, ScanApplyLoaded, ScanDone,
       ScanItemUnchanged, ScanEndUnchanged, ScanUnchanged
  <2>2. CASE ScanBegin(g) \/ ScanStoreGeneration(g) \/ ScanBatchesDone(g) \/ ScanFinish(g) \/ ScanDone(g)
    <3>1. /\ UNCHANGED <<session_paths, item>> /\ scan_pc[g] /= "none"
          /\ \E pc \in {"storing", "discover", "finish", "reload", "done"} :
                /\ scan_pc' = [scan_pc EXCEPT ![g] = pc]
                /\ \A p \in Paths : item[g][p].pc \in {"none", "done"}
      BY <2>2 DEF ScanBegin, ScanStoreGeneration, ScanBatchesDone, ScanFinish, ScanDone,
         ScanEndUnchanged, ScanUnchanged, Control
    <3> QED BY <1>t, <2>1, <3>1 DEF Control, TypeOK
  <2>3. CASE ScanDiscover(g)
    <3>1. /\ scan_pc' = [scan_pc EXCEPT ![g] = "batches"] /\ scan_pc[g] = "discover"
          /\ UNCHANGED session_paths
          /\ \A h \in Generations \ {g} : item'[h] = item[h]
      BY <1>t, <2>3 DEF ScanDiscover, ScanUnchanged, TypeOK
    <3> QED BY <1>t, <2>1, <3>1 DEF Control, TypeOK
  <2>4. CASE ScanApplyLoaded(g) \/ \E p \in Paths : ScanReload(g, p)
    BY <1>c, <2>1, <2>4 DEF ScanApplyLoaded, ScanReload, ScanEndUnchanged, ScanUnchanged
  <2>5. ASSUME NEW q \in Paths,
               \/ ScanParse(g, q) \/ ScanParseFails(g, q) \/ ScanReserve(g, q) \/ ScanCommit(g, q)
               \/ ScanLoad(g, q) \/ ScanCheckRemoved(g, q) \/ ScanMarkMissing(g, q)
               \/ ScanInsertMissing(g, q) \/ ScanPublish(g, q)
        PROVE  Control'
    <3>1. item[g][q].pc \notin {"none", "done"} /\ UNCHANGED scan_pc
      BY <2>5 DEF ScanParse, ScanParseFails, ScanReserve, ScanCommit, ScanLoad, ScanCheckRemoved,
         ScanMarkMissing, ScanInsertMissing, ScanPublish, ScanItemUnchanged
    <3>2. \E pc, s : ItemStep(g, q, pc, s)
      BY <2>5 DEF ScanParse, ScanParseFails, ScanReserve, ScanCommit, ScanLoad, ScanCheckRemoved,
         ScanMarkMissing, ScanInsertMissing, ScanPublish
    <3>3. \A h \in Generations, r \in Paths : ~(h = g /\ r = q) => item'[h][r].pc = item[h][r].pc
      BY <1>t, <3>2, ItemMoves
    <3>4. \A p \in Paths : \/ session_paths'[p].generation = session_paths[p].generation
                           \/ session_paths'[p].generation = scan_generation
      <4>1. CASE ScanReserve(g, q)
        <5>1. \/ UNCHANGED session_paths
              \/ /\ scan_generation = g
                 /\ session_paths' = [session_paths EXCEPT ![q].generation = g]
          BY <4>1 DEF ScanReserve
        <5>2. session_paths \in [Paths -> PathStates]
          BY <1>t DEF TypeOK
        <5> QED BY <5>1, <5>2 DEF PathStates
      <4>2. CASE ScanPublish(g, q)
        <5>1. \/ UNCHANGED session_paths
              \/ /\ scan_generation = g
                 /\ session_paths' = [session_paths EXCEPT ![q] =
                        [generation |-> g, watcher_touched |-> FALSE, removed |-> FALSE]]
          BY <4>2 DEF ScanPublish
        <5>2. session_paths \in [Paths -> PathStates]
          BY <1>t DEF TypeOK
        <5> QED BY <5>1, <5>2
      <4>3. CASE UNCHANGED session_paths
        BY <4>3
      <4> QED BY <2>5, <4>1, <4>2, <4>3 DEF ScanParse, ScanParseFails, ScanCommit, ScanLoad,
                 ScanCheckRemoved, ScanMarkMissing, ScanInsertMissing
    <3> QED BY <1>t, <2>1, <3>1, <3>3, <3>4 DEF Control
  <2> QED BY <1>5, <2>2, <2>3, <2>4, <2>5 DEF ScanStep
<1>6. CASE RebuildAnyStep
  <2>1. UNCHANGED <<session_paths, scan_generation, config_pc, scan_pc, item>>
    BY <1>6 DEF RebuildAnyStep, RebuildBegin, RebuildCancel, RebuildDone, RebuildParse, RebuildCommit, RebuildLoad,
       RebuildPublish, RebuildUnchanged
  <2>2. \A p \in Paths : rebuild_pc' = "idle" => rebuild_item'[p].pc = "none"
    <3>1. CASE RebuildBegin \/ RebuildCancel \/ RebuildDone
      BY <1>t, <3>1 DEF RebuildBegin, RebuildCancel, RebuildDone, Control
    <3>2. ASSUME NEW q \in Paths,
                 RebuildParse(q) \/ RebuildCommit(q) \/ RebuildLoad(q) \/ RebuildPublish(q)
          PROVE  rebuild_pc /= "idle" /\ UNCHANGED rebuild_pc
      BY <3>2 DEF RebuildParse, RebuildCommit, RebuildLoad, RebuildPublish, Control
    <3> QED BY <1>6, <3>1, <3>2 DEF RebuildAnyStep
  <2> QED BY <2>1, <2>2 DEF Control
<1> QED BY <1>1, <1>2, <1>3, <1>4, <1>5, <1>6 DEF Next, SettingsStep

LEMMA StampsKept == ASSUME IInv, Control, Stamps, [Next]_vars PROVE Stamps'
<1> USE DEF fileVars, stateVars, settingsVars, watcherVars, scanVars, rebuildVars
<1>t. TypeOK /\ durable_generation \in Nat /\ \A g \in Generations : scan_stamp[g] \in Nat
  BY DEF IInv, TypeOK, DurableGenerations
<1>u. ASSUME UNCHANGED <<durable_generation, scan_stamp>>,
             \A g \in Generations : scan_pc'[g] \in {"storing", "discover", "batches", "finish"}
                => scan_pc[g] \in {"storing", "discover", "batches", "finish"}
      PROVE  Stamps'
  BY <1>u DEF Stamps, Overtaken
<1>1. CASE FileStep \/ UNCHANGED vars
  BY <1>u, <1>1 DEF FileStep, AppendFile, CreateFile, DeleteFile, FileChange, vars
<1>2. CASE WatcherStep
  BY <1>u, <1>2 DEF WatcherStep, WatcherParse, WatcherLoadGeneration, WatcherObserve, WatcherLoad,
     WatcherPublish, WatcherTombstone, WatcherMarkMissing, WatcherPublishMissing, EvictParser,
     WatcherUnchanged
<1>3. CASE SettingsStep
  <2>1. UNCHANGED <<durable_generation, scan_stamp>>
    BY <1>3 DEF SettingsStep, SetConfigAdvance, SetConfigClear, SettingsUnchanged
  <2>2. scan_pc' = scan_pc \/ scan_pc' = [scan_pc EXCEPT ![scan_generation] = "spawned"]
    BY <1>3 DEF SettingsStep, SetConfigAdvance, SetConfigClear
  <2> QED BY <1>t, <1>u, <2>1, <2>2 DEF TypeOK
<1>4. ASSUME NEW g \in Generations, ScanStep(g)
      PROVE  Stamps'
  <2>1. CASE ScanBegin(g)
    <3>1. /\ durable_generation' = durable_generation + 1
          /\ \A h \in Generations :
                scan_stamp'[h] = IF h = g THEN durable_generation + 1 ELSE scan_stamp[h]
          /\ \A h \in Generations : scan_pc'[h] = IF h = g THEN "storing" ELSE scan_pc[h]
      BY <1>t, <2>1 DEF ScanBegin, TypeOK
    <3>2. \A h \in Generations \ {g} : Overtaken(h)'
      BY <1>t, <3>1 DEF Overtaken, Stamps
    <3> QED BY <1>t, <3>1, <3>2 DEF Stamps
  <2>2. CASE ~ScanBegin(g)
    <3>1. UNCHANGED <<durable_generation, scan_stamp>>
      BY <1>4, <2>2 DEF ScanStep, ScanStoreGeneration, ScanDiscover, ScanParse, ScanParseFails,
         ScanReserve, ScanCommit, ScanLoad, ScanCheckRemoved, ScanMarkMissing, ScanInsertMissing,
         ScanPublish, ScanReload, ScanBatchesDone, ScanFinish, ScanApplyLoaded, ScanDone,
         ScanItemUnchanged, ScanEndUnchanged, ScanUnchanged
    <3>2. \/ UNCHANGED scan_pc
          \/ \E pc \in ScanPCs : /\ scan_pc' = [scan_pc EXCEPT ![g] = pc]
                                 /\ pc \in {"storing", "discover", "batches", "finish"}
                                    => scan_pc[g] \in {"storing", "discover", "batches", "finish"}
      BY <1>4, <2>2 DEF ScanStep, ScanStoreGeneration, ScanDiscover, ScanParse, ScanParseFails,
         ScanReserve, ScanCommit, ScanLoad, ScanCheckRemoved, ScanMarkMissing, ScanInsertMissing,
         ScanPublish, ScanReload, ScanBatchesDone, ScanFinish, ScanApplyLoaded, ScanDone,
         ScanItemUnchanged, ScanPCs
    <3> QED BY <1>t, <1>u, <3>1, <3>2 DEF TypeOK
  <2> QED BY <2>1, <2>2
<1>5. CASE RebuildAnyStep
  <2>1. UNCHANGED <<scan_stamp, scan_pc>>
    BY <1>5 DEF RebuildAnyStep, RebuildBegin, RebuildCancel, RebuildDone, RebuildParse, RebuildCommit, RebuildLoad,
       RebuildPublish, RebuildUnchanged
  <2>2. CASE RebuildBegin
    BY <1>t, <2>1, <2>2 DEF RebuildBegin, Stamps
  <2>3. CASE ~RebuildBegin
    BY <1>5, <1>u, <2>1, <2>3 DEF RebuildAnyStep, RebuildCancel, RebuildDone, RebuildParse, RebuildCommit, RebuildLoad,
       RebuildPublish
  <2> QED BY <2>2, <2>3
<1> QED BY <1>1, <1>2, <1>3, <1>4, <1>5 DEF Next

-----------------------------------------------------------------------------
(* A superseded scan.                                                      *)

\* How a scan ends: only one that reloads has rows to publish, one that has not
\* begun has no durable generation, and one that was let through its last check
\* stands below every scan of newer settings that has begun.
Endings ==
    \A g \in Generations :
        /\ affected[g] /= {} \/ reload[g] /= NoReload => scan_pc[g] = "reload"
        /\ scan_pc[g] \in {"none", "spawned"} => scan_stamp[g] = 0
        /\ scan_pc[g] = "finish" =>
              \A h \in Generations : h > g /\ scan_stamp[h] /= 0 => scan_stamp[g] < scan_stamp[h]

\* Who moves a scan that set_config has superseded: its own thread.
LEMMA OwnSteps ==
    ASSUME IInv, Next, NEW g \in Generations, g < scan_generation, ScanMoves(g)
    PROVE  ScanStep(g)
<1> USE DEF fileVars, stateVars, settingsVars, watcherVars, scanVars, rebuildVars, ScanMoves
<1>t. TypeOK /\ scan_generation \in Generations /\ g /= scan_generation
  BY DEF IInv, TypeOK, Generations
<1>1. ~FileStep
  BY DEF FileStep, AppendFile, CreateFile, DeleteFile, FileChange
<1>2. ~WatcherStep
  BY DEF WatcherStep, WatcherParse, WatcherLoadGeneration, WatcherObserve, WatcherLoad,
     WatcherPublish, WatcherTombstone, WatcherMarkMissing, WatcherPublishMissing, EvictParser,
     WatcherUnchanged
<1>3. ~SettingsStep
  BY <1>t DEF SettingsStep, SetConfigAdvance, SetConfigClear, SettingsUnchanged, TypeOK
<1>4. ~RebuildAnyStep
  BY DEF RebuildAnyStep, RebuildBegin, RebuildCancel, RebuildDone, RebuildParse, RebuildCommit,
     RebuildLoad, RebuildPublish, RebuildUnchanged
<1>5. PICK h \in Generations : ScanStep(h)
  BY <1>1, <1>2, <1>3, <1>4 DEF Next
<1>6. SUFFICES ASSUME h /= g PROVE FALSE
  BY <1>5
<1>7. UNCHANGED <<scan_pc, item, affected, reload>> \/
      /\ \/ UNCHANGED scan_pc \/ \E v : scan_pc' = [scan_pc EXCEPT ![h] = v]
      /\ \/ UNCHANGED item
         \/ \E v : item' = [item EXCEPT ![h] = v]
         \/ \E p \in Paths : \E v : item' = [item EXCEPT ![h][p] = v]
      /\ \/ UNCHANGED affected \/ \E v : affected' = [affected EXCEPT ![h] = v]
      /\ \/ UNCHANGED reload \/ \E v : reload' = [reload EXCEPT ![h] = v]
  BY <1>5 DEF ScanStep, ScanBegin, ScanStoreGeneration, ScanDiscover, ScanParse, ScanParseFails,
     ScanReserve, ScanCommit, ScanLoad, ScanCheckRemoved, ScanMarkMissing, ScanInsertMissing,
     ScanPublish, ScanReload, ScanBatchesDone, ScanFinish, ScanApplyLoaded, ScanDone,
     ScanItemUnchanged, ScanEndUnchanged, ItemStep
<1>8. scan_pc'[g] = scan_pc[g] /\ item'[g] = item[g]
  BY <1>t, <1>6, <1>7 DEF TypeOK
<1>9. affected'[g] = affected[g] /\ reload'[g] = reload[g]
  BY <1>t, <1>6, <1>7 DEF TypeOK
<1> QED BY <1>8, <1>9

LEMMA EndingsInit == ASSUME Init PROVE Endings
<1>1. \A g \in Generations : /\ affected[g] = {} /\ reload[g] = NoReload /\ scan_stamp[g] = 0
                             /\ scan_pc[g] /= "finish"
  BY DEF Init
<1> QED BY <1>1 DEF Endings

LEMMA EndingsKept == ASSUME IInv, Control, Stamps, Endings, [Next]_vars PROVE Endings'
<1> USE DEF fileVars, stateVars, settingsVars, watcherVars, scanVars, rebuildVars
<1>t. /\ TypeOK /\ durable_generation \in Nat /\ scan_generation \in Generations
      /\ \A g \in Generations : g \in Nat /\ scan_stamp[g] \in Nat
  BY DEF IInv, TypeOK, DurableGenerations, Generations
<1>u. CASE UNCHANGED <<scan_pc, scan_stamp, affected, reload>>
  BY <1>u DEF Endings
<1>1. CASE FileStep \/ UNCHANGED vars
  BY <1>u, <1>1 DEF FileStep, AppendFile, CreateFile, DeleteFile, FileChange, vars
<1>2. CASE WatcherStep
  BY <1>u, <1>2 DEF WatcherStep, WatcherParse, WatcherLoadGeneration, WatcherObserve, WatcherLoad,
     WatcherPublish, WatcherTombstone, WatcherMarkMissing, WatcherPublishMissing, EvictParser,
     WatcherUnchanged
<1>3. CASE SetConfigAdvance
  BY <1>u, <1>3 DEF SetConfigAdvance, SettingsUnchanged
<1>4. CASE SetConfigClear
  <2>1. /\ UNCHANGED <<scan_stamp, affected, reload>> /\ scan_pc[scan_generation] = "none"
        /\ \A g \in Generations : scan_pc'[g] = IF g = scan_generation THEN "spawned" ELSE scan_pc[g]
    BY <1>4, <1>t DEF SetConfigClear, SettingsUnchanged, TypeOK, Control
  <2> QED BY <1>t, <2>1 DEF Endings
<1>5. CASE RebuildAnyStep
  BY <1>u, <1>5 DEF RebuildAnyStep, RebuildBegin, RebuildCancel, RebuildDone, RebuildParse,
     RebuildCommit, RebuildLoad, RebuildPublish, RebuildUnchanged
<1>6. ASSUME NEW g \in Generations, ScanStep(g)
      PROVE  Endings'
  <2>1. CASE ScanBegin(g)
    <3>1. /\ UNCHANGED <<affected, reload>> /\ scan_pc[g] = "spawned"
          /\ \A h \in Generations :
                /\ scan_pc'[h] = IF h = g THEN "storing" ELSE scan_pc[h]
                /\ scan_stamp'[h] = IF h = g THEN durable_generation + 1 ELSE scan_stamp[h]
      BY <1>t, <2>1 DEF ScanBegin, TypeOK
    <3>2. \A h \in Generations : scan_stamp[h] < durable_generation + 1
      BY <1>t DEF Stamps
    <3> QED BY <1>t, <3>1, <3>2 DEF Endings
  <2>2. CASE ScanStoreGeneration(g) \/ ScanDiscover(g) \/ ScanDone(g)
    <3>1. /\ UNCHANGED <<affected, reload, scan_stamp>>
          /\ \/ scan_pc[g] \in {"storing", "discover"}
             \/ affected[g] = {} /\ reload[g] = NoReload
          /\ \A h \in Generations : h /= g => scan_pc'[h] = scan_pc[h]
          /\ scan_pc'[g] \in {"discover", "batches", "done"}
      BY <1>t, <2>2 DEF ScanStoreGeneration, ScanDiscover, ScanDone, ScanEndUnchanged, TypeOK
    <3> QED BY <1>t, <3>1 DEF Endings, TypeOK
  <2>3. CASE ScanBatchesDone(g)
    <3>1. /\ UNCHANGED <<affected, reload, scan_stamp>> /\ scan_pc[g] = "batches"
          /\ \A h \in Generations : h /= g => scan_pc'[h] = scan_pc[h]
          /\ scan_pc'[g] \in {"finish", "done"}
          /\ scan_pc'[g] = "finish" => scan_generation = g
      BY <1>t, <2>3 DEF ScanBatchesDone, ScanEndUnchanged, TypeOK
    <3>2. \A h \in Generations : h > scan_generation => scan_stamp[h] = 0
      BY <1>t DEF Control, Endings
    <3> QED BY <1>t, <3>1, <3>2 DEF Endings
  <2>4. CASE ScanFinish(g)
    <3>1. /\ UNCHANGED <<reload, scan_stamp>>
          /\ \A h \in Generations : h /= g => scan_pc'[h] = scan_pc[h] /\ affected'[h] = affected[h]
          /\ scan_pc'[g] = "reload"
      BY <1>t, <2>4 DEF ScanFinish, ScanEndUnchanged, TypeOK
    <3> QED BY <1>t, <3>1 DEF Endings
  <2>5. CASE ScanApplyLoaded(g) \/ \E p \in Paths : ScanReload(g, p)
    <3>1. /\ UNCHANGED <<scan_pc, scan_stamp>> /\ scan_pc[g] = "reload"
          /\ \A h \in Generations : h /= g => affected'[h] = affected[h] /\ reload'[h] = reload[h]
      BY <1>t, <2>5 DEF ScanApplyLoaded, ScanReload, ScanEndUnchanged, TypeOK, Endings
    <3> QED BY <1>t, <3>1 DEF Endings
  <2>6. CASE \E p \in Paths : \/ ScanParse(g, p) \/ ScanParseFails(g, p) \/ ScanReserve(g, p)
                              \/ ScanCommit(g, p) \/ ScanLoad(g, p) \/ ScanCheckRemoved(g, p)
                              \/ ScanMarkMissing(g, p) \/ ScanInsertMissing(g, p) \/ ScanPublish(g, p)
    BY <1>u, <2>6 DEF ScanParse, ScanParseFails, ScanReserve, ScanCommit, ScanLoad, ScanCheckRemoved,
       ScanMarkMissing, ScanInsertMissing, ScanPublish, ScanItemUnchanged
  <2> QED BY <1>6, <2>1, <2>2, <2>3, <2>4, <2>5, <2>6 DEF ScanStep
<1> QED BY <1>1, <1>2, <1>3, <1>4, <1>5, <1>6 DEF Next, SettingsStep

\* config_transition keeps a batch current from its reservation to its end and
\* publish_scanned_session checks the generation again, so a superseded scan
\* commits no batch, claims no path and publishes no parsed session.  One past
\* its last check stands below every newer scan that has begun, so it marks rows
\* missing only before that, and publishes only what it reads back of those.
THEOREM SupersededScanAddsNothingHolds == Spec => SupersededScanAddsNothing
<1> DEFINE Adds == \A g \in Generations :
        g < scan_generation /\ ScanMoves(g) =>
            /\ UNCHANGED session_paths
            /\ \A p \in Paths :
                  /\ location'[p] /= location[p] =>
                        /\ scan_pc[g] = "finish" /\ location'[p] = Missing(location[p])
                        /\ scan_stamp[scan_generation] = 0
                  /\ sessions'[p] /= sessions[p] =>
                        /\ scan_pc[g] = "reload"
                        /\ reload[g] = [path |-> p, session |-> sessions'[p]]
<1>1. ASSUME IInv, Stamps, Endings, Next PROVE Adds
  <2> SUFFICES ASSUME NEW g \in Generations, g < scan_generation, ScanMoves(g)
               PROVE  /\ UNCHANGED session_paths
                      /\ \A p \in Paths :
                            /\ location'[p] /= location[p] =>
                                  /\ scan_pc[g] = "finish" /\ location'[p] = Missing(location[p])
                                  /\ scan_stamp[scan_generation] = 0
                            /\ sessions'[p] /= sessions[p] =>
                                  /\ scan_pc[g] = "reload"
                                  /\ reload[g] = [path |-> p, session |-> sessions'[p]]
    OBVIOUS
  <2> USE DEF stateVars
  <2>t. /\ TypeOK /\ scan_generation \in Generations /\ g /= scan_generation
        /\ durable_generation \in Nat /\ \A h \in Generations : h \in Nat /\ scan_stamp[h] \in Nat
    BY <1>1 DEF IInv, TypeOK, DurableGenerations, Generations
  <2>1. ScanStep(g)
    BY <1>1, OwnSteps
  <2>2. \A p \in Paths : ~InBatch(g, p)
    BY <1>1, <2>t DEF IInv, BatchIsCurrent
  <2>3. CASE ScanFinish(g)
    <3>1. /\ UNCHANGED <<session_paths, sessions>> /\ scan_pc[g] = "finish"
          /\ \A p \in Paths : location'[p] = IF p \in Unseen(g) THEN Missing(location[p]) ELSE location[p]
      BY <2>3 DEF ScanFinish, ScanEndUnchanged
    <3>2. ASSUME NEW p \in Unseen(g)
          PROVE  scan_stamp[scan_generation] = 0
      BY <1>1, <2>t, <3>1, <3>2 DEF Unseen, Endings, Stamps
    <3> QED BY <3>1, <3>2
  <2>4. CASE ScanApplyLoaded(g)
    <3>1. /\ UNCHANGED <<session_paths, location>> /\ reload[g] /= NoReload
          /\ sessions' = [sessions EXCEPT ![reload[g].path] = reload[g].session]
          /\ reload[g] \in Reloads /\ sessions \in [Paths -> Loaded]
      BY <2>4, <2>t DEF ScanApplyLoaded, ScanEndUnchanged, TypeOK
    <3>2. scan_pc[g] = "reload"
      BY <1>1, <3>1 DEF Endings
    <3>3. ASSUME NEW p \in Paths, sessions'[p] /= sessions[p]
          PROVE  reload[g] = [path |-> p, session |-> sessions'[p]]
      <4>1. reload[g].path = p /\ sessions'[p] = reload[g].session
        BY <3>1, <3>3
      <4> QED BY <3>1, <4>1 DEF Reloads
    <3> QED BY <3>1, <3>2, <3>3
  <2>5. CASE \E p \in Paths : ScanReserve(g, p) \/ ScanPublish(g, p)
    BY <2>t, <2>5 DEF ScanReserve, ScanPublish
  <2>6. CASE \E p \in Paths : \/ ScanCommit(g, p) \/ ScanMarkMissing(g, p) \/ ScanInsertMissing(g, p)
    BY <2>2, <2>6 DEF ScanCommit, ScanMarkMissing, ScanInsertMissing, InBatch
  <2>7. CASE \/ ScanBegin(g) \/ ScanStoreGeneration(g) \/ ScanDiscover(g) \/ ScanBatchesDone(g)
             \/ ScanDone(g)
             \/ \E p \in Paths : \/ ScanParse(g, p) \/ ScanParseFails(g, p) \/ ScanLoad(g, p)
                                 \/ ScanCheckRemoved(g, p) \/ ScanReload(g, p)
    BY <2>7 DEF ScanBegin, ScanStoreGeneration, ScanDiscover, ScanBatchesDone, ScanDone, ScanParse,
       ScanParseFails, ScanLoad, ScanCheckRemoved, ScanReload, ScanEndUnchanged
  <2> QED BY <2>1, <2>3, <2>4, <2>5, <2>6, <2>7 DEF ScanStep
<1>2. Init => Control /\ Stamps /\ Endings
  BY ControlInit, EndingsInit
<1>3. IInv /\ Control /\ Stamps /\ Endings /\ [Next]_vars => (Control /\ Stamps /\ Endings)'
  BY ControlKept, StampsKept, EndingsKept
<1>4. IInv /\ Stamps /\ Endings /\ [Next]_vars => [Adds]_vars
  BY <1>1
<1> QED BY <1>2, <1>3, <1>4, InductiveInvariant, PTL DEF Spec, SupersededScanAddsNothing

-----------------------------------------------------------------------------
(* A path that a step does concern, one lemma for each kind of thread.     *)

LEMMA FilePaths ==
    ASSUME IInv, RInv, FileStep, NEW p \in Paths
    PROVE  PathInv(p)'
<1> USE DEF fileVars, stateVars, settingsVars, watcherVars, scanVars, rebuildVars
<1>t. TypeOK /\ PathInv(p)
  BY DEF IInv, RInv
<1>1. PICK q \in Paths, n \in Nat, kind \in EventKinds :
         FileChange(q, n, kind) /\ (n = 0 => kind = "remove")
  <2>1. PICK q \in Paths : AppendFile(q) \/ (\E n \in 1..MaxLength : CreateFile(q, n)) \/ DeleteFile(q)
    BY DEF FileStep
  <2>2. disk[q] \in Nat
    BY <1>t, LengthAssumption DEF TypeOK, Lengths
  <2>3. CASE AppendFile(q)
    BY <2>2, <2>3 DEF AppendFile, EventKinds
  <2>4. CASE \E n \in 1..MaxLength : CreateFile(q, n)
    BY <2>4, LengthAssumption DEF CreateFile, EventKinds
  <2>5. CASE DeleteFile(q)
    BY <2>5 DEF DeleteFile, EventKinds
  <2> QED BY <2>1, <2>3, <2>4, <2>5
<1>2. /\ UNCHANGED <<location, session_paths, scan_generation, watcher, item, rebuild_item,
                     scan_pc, scan_stamp, scan_failed>>
      /\ disk' = [disk EXCEPT ![q] = n]
      /\ events' = Append(events, [path |-> q, kind |-> kind])
  BY <1>1 DEF FileChange
<1>3. /\ RemovePending(p) => RemovePending(p)'
      /\ kind = "remove" => RemovePending(q)'
  BY <1>t, <1>2, ChangeIsPending
<1>4. NotYetMissed(p) => NotYetMissed(p)'
  BY <1>2, MissedKept
<1>5. CASE q /= p
  <2>1. disk'[p] = disk[p]
    BY <1>2, <1>5
  <2> QED BY <1>t, <1>2, <1>3, <1>4, <2>1, ApartKept DEF Apart, Tombstoned, Rebuilt
<1>6. CASE q = p
  <2>1. disk'[p] = n
    BY <1>2, <1>6, <1>t DEF TypeOK
  <2>2. TombstoneStands(p)'
    BY <1>t, <1>2 DEF PathInv, TombstoneStands, Tombstoned, Handling, Unchecked, Rebuilt
  <2>3. ReadIsHeard(p)' /\ GoneIsTakenOut(p)'
    BY <1>1, <1>3, <1>6, <2>1 DEF ReadIsHeard, GoneIsTakenOut
  <2> QED BY <2>2, <2>3 DEF PathInv
<1> QED BY <1>5, <1>6

LEMMA WatcherPaths ==
    ASSUME IInv, RInv, WatcherStep, NEW p \in Paths
    PROVE  PathInv(p)'
<1> USE DEF fileVars, stateVars, settingsVars, watcherVars, scanVars, rebuildVars
<1>t. TypeOK /\ PathInv(p) /\ TombstoneStands(p) /\ ReadIsHeard(p) /\ GoneIsTakenOut(p)
  BY DEF IInv, RInv, PathInv
<1>w. /\ watcher.pc \in WatcherPCs /\ watcher.path \in Paths \union {NoPath}
      /\ watcher = [pc |-> watcher.pc, path |-> watcher.path, session |-> watcher.session,
                    stamp |-> watcher.stamp]
      /\ IdleWatcher.pc = "idle"
  BY <1>t DEF TypeOK, Watchers, IdleWatcher
<1>u. UNCHANGED <<disk, scan_generation, scan_pc, scan_stamp, scan_failed, item, rebuild_item>>
  BY DEF WatcherStep, WatcherParse, WatcherLoadGeneration, WatcherObserve, WatcherLoad,
     WatcherPublish, WatcherTombstone, WatcherMarkMissing, WatcherPublishMissing, EvictParser,
     WatcherUnchanged
<1>v. /\ Unchecked(p)' <=> Unchecked(p)
      /\ Rebuilt(p)' <=> Rebuilt(p)
      /\ location'[p].seen = location[p].seen => (NotYetMissed(p) => NotYetMissed(p)')
  BY <1>u, MissedKept DEF Unchecked, Rebuilt
\* The watcher works on another path.
<1>a. ASSUME location'[p] = location[p], session_paths'[p] = session_paths[p],
             RemovePending(p) => RemovePending(p)',
             \/ watcher' = watcher
             \/ ~(watcher'.path = p /\ watcher'.pc /= "idle") /\ ~(watcher.path = p /\ watcher.pc /= "idle")
      PROVE  PathInv(p)'
  BY <1>a, <1>t, <1>u, <1>v, ApartKept DEF Apart, Tombstoned
<1>e. ASSUME events /= <<>>
      PROVE  Head(events).path \in Paths
  <2> DEFINE E == [path : Paths, kind : EventKinds]
  <2>1. events \in Seq(E)
    BY <1>t DEF TypeOK
  <2> HIDE DEF E
  <2>2. Head(events) \in E
    BY <1>e, <2>1
  <2> QED BY <2>2 DEF E
<1>n. events' = events => (RemovePending(p)' <=> RemovePending(p))
  BY DEF RemovePending
<1>1. CASE WatcherParse
  <2> DEFINE q == Head(events).path
  <2>1. /\ UNCHANGED <<location, session_paths>> /\ watcher.pc = "idle"
        /\ RemovePending(p) => RemovePending(p)'
    BY <1>1, <1>t, RestIsPending DEF WatcherParse
  <2>2. \/ watcher' = watcher
        \/ watcher'.pc = "parsed" /\ watcher'.path = q /\ disk[q] /= 0
    BY <1>1, <1>w DEF WatcherParse
  <2>3. CASE q /= p \/ watcher' = watcher
    BY <1>a, <2>1, <2>2, <2>3
  <2>4. CASE q = p /\ watcher'.pc = "parsed" /\ disk[q] /= 0
    <3>1. ~Handling(p)' /\ ~Handling(p) /\ (Tombstoned(p)' <=> Tombstoned(p))
      BY <1>u, <2>1, <2>4 DEF Handling, Tombstoned
    <3> QED BY <1>t, <1>u, <1>v, <2>1, <2>4, <3>1
            DEF PathInv, TombstoneStands, ReadIsHeard, GoneIsTakenOut
  <2> QED BY <2>2, <2>3, <2>4
<1>2. CASE WatcherLoadGeneration
  <2>1. /\ UNCHANGED <<location, session_paths>> /\ watcher.pc = "parsed"
        /\ watcher'.pc = "observing" /\ watcher'.path = watcher.path /\ events' = events
    BY <1>2, <1>w DEF WatcherLoadGeneration
  <2>2. CASE watcher.path /= p
    BY <1>a, <1>n, <2>1, <2>2
  <2>3. CASE watcher.path = p
    BY <1>n, <1>t, <1>u, <1>v, <2>1, <2>3
       DEF PathInv, TombstoneStands, ReadIsHeard, GoneIsTakenOut, Handling, Tombstoned
  <2> QED BY <2>2, <2>3
<1>3. CASE WatcherObserve
  <2>1. /\ UNCHANGED session_paths /\ watcher.pc = "observing" /\ watcher.path \in Paths
        /\ watcher'.pc = "committed" /\ watcher'.path = watcher.path /\ events' = events
    BY <1>3, <1>w DEF WatcherObserve, IInv, WatcherHasPath
  <2>2. CASE watcher.path /= p
    <3>1. location'[p] = location[p]
      BY <1>3, <1>t, <2>1, <2>2, ObserveMoves DEF WatcherObserve
    <3> QED BY <1>a, <1>n, <2>1, <2>2, <3>1
  <2>3. CASE watcher.path = p
    BY <1>n, <1>t, <1>u, <1>v, <2>1, <2>3
       DEF PathInv, TombstoneStands, ReadIsHeard, GoneIsTakenOut, Handling, Tombstoned
  <2> QED BY <2>2, <2>3
<1>4. CASE WatcherLoad
  <2>1. /\ UNCHANGED <<location, session_paths>> /\ watcher.pc = "committed"
        /\ watcher'.pc = "publish" /\ watcher'.path = watcher.path /\ events' = events
    BY <1>4, <1>w DEF WatcherLoad
  <2>2. CASE watcher.path /= p
    BY <1>a, <1>n, <2>1, <2>2
  <2>3. CASE watcher.path = p
    BY <1>n, <1>t, <1>u, <1>v, <2>1, <2>3
       DEF PathInv, TombstoneStands, ReadIsHeard, GoneIsTakenOut, Handling, Tombstoned
  <2> QED BY <2>2, <2>3
<1>5. CASE WatcherPublish
  <2> DEFINE claimed == [generation |-> scan_generation, watcher_touched |-> TRUE, removed |-> FALSE]
  <2>1. /\ UNCHANGED location /\ watcher.pc = "publish" /\ watcher.path \in Paths
        /\ watcher'.pc = "idle" /\ events' = events
        /\ session_paths' = [session_paths EXCEPT ![watcher.path] = claimed]
    BY <1>5, <1>w DEF WatcherPublish, IInv, WatcherHasPath
  <2>2. claimed.removed = FALSE /\ session_paths \in [Paths -> PathStates]
    BY <1>t DEF TypeOK
  <2> HIDE DEF claimed
  <2>3. CASE watcher.path /= p
    <3>1. session_paths'[p] = session_paths[p]
      BY <2>1, <2>2, <2>3
    <3> QED BY <1>a, <1>n, <2>1, <2>3, <3>1
  <2>4. CASE watcher.path = p
    <3>1. ~Tombstoned(p)'
      BY <2>1, <2>2, <2>4 DEF Tombstoned
    <3> QED BY <1>n, <1>t, <1>u, <1>v, <2>1, <2>4, <3>1
            DEF PathInv, TombstoneStands, ReadIsHeard, GoneIsTakenOut
  <2> QED BY <2>3, <2>4
<1>6. CASE WatcherTombstone
  <2> DEFINE q == Head(events).path
  <2>1. /\ UNCHANGED location /\ watcher.pc = "idle" /\ events /= <<>> /\ q \in Paths
        /\ watcher'.pc = "tombstoned" /\ watcher'.path = q /\ events' = Tail(events)
        /\ session_paths' = [session_paths EXCEPT ![q] = Tombstone]
    BY <1>6, <1>w, <1>e DEF WatcherTombstone
  <2>2. /\ Tombstone.removed /\ Tombstone.generation = scan_generation
        /\ session_paths \in [Paths -> PathStates]
    BY <1>t DEF TypeOK, Tombstone
  <2> HIDE DEF q
  <2>3. CASE q /= p
    <3>1. session_paths'[p] = session_paths[p]
      BY <2>1, <2>2, <2>3
    <3>2. RemovePending(p) => RemovePending(p)'
      BY <1>t, <2>1, <2>3, RestIsPending DEF q
    <3> QED BY <1>a, <2>1, <2>3, <3>1, <3>2
  <2>4. CASE q = p
    <3>1. Tombstoned(p)'
      BY <1>u, <2>1, <2>2, <2>4 DEF Tombstoned
    <3> QED BY <2>1, <2>4, <3>1 DEF PathInv, TombstoneStands, ReadIsHeard, GoneIsTakenOut, Handling
  <2> QED BY <2>3, <2>4
<1>7. CASE WatcherMarkMissing
  <2>1. /\ UNCHANGED session_paths /\ watcher.pc = "tombstoned" /\ watcher.path \in Paths
        /\ watcher'.pc = "missing" /\ watcher'.path = watcher.path /\ events' = events
    BY <1>7, <1>w DEF WatcherMarkMissing, IInv, WatcherHasPath
  <2>2. /\ ~location'[watcher.path].present
        /\ \A r \in Paths \ {watcher.path} : location'[r] = location[r]
    BY <1>7, <1>t, <2>1, MissingMoves DEF WatcherMarkMissing
  <2>3. CASE watcher.path /= p
    BY <1>a, <1>n, <2>1, <2>2, <2>3
  <2>4. CASE watcher.path = p
    BY <1>n, <1>t, <1>u, <2>1, <2>2, <2>4
       DEF PathInv, TombstoneStands, ReadIsHeard, GoneIsTakenOut, Tombstoned
  <2> QED BY <2>3, <2>4
<1>8. CASE WatcherPublishMissing
  <2>1. /\ UNCHANGED <<location, session_paths>> /\ watcher.pc = "missing"
        /\ watcher'.pc = "idle" /\ events' = events
    BY <1>8, <1>w DEF WatcherPublishMissing
  <2>2. (Tombstoned(p)' <=> Tombstoned(p)) /\ ~Handling(p) /\ ~Handling(p)'
    BY <1>u, <2>1 DEF Tombstoned, Handling
  <2> QED BY <1>n, <1>t, <1>u, <1>v, <2>1, <2>2
          DEF PathInv, TombstoneStands, ReadIsHeard, GoneIsTakenOut
<1>9. CASE \E q \in Paths : EvictParser(q)
  BY <1>9, <1>a, <1>n DEF EvictParser
<1> QED BY <1>1, <1>2, <1>3, <1>4, <1>5, <1>6, <1>7, <1>8, <1>9 DEF WatcherStep

\* New settings begin without claims, but not before every batch is checked.
LEMMA SettingsPaths ==
    ASSUME IInv, RInv, SettingsStep, NEW p \in Paths
    PROVE  PathInv(p)'
<1> USE DEF fileVars, stateVars, settingsVars, watcherVars, scanVars, rebuildVars
<1>t. /\ TypeOK /\ Control /\ TombstoneStands(p) /\ ReadIsHeard(p) /\ GoneIsTakenOut(p)
      /\ scan_generation \in Generations /\ \A g \in Generations : g \in Nat
      /\ session_paths[p].generation \in Nat
  BY DEF IInv, RInv, PathInv, TypeOK, Generations, PathStates
<1>u. UNCHANGED <<disk, events, location, watcher, item, rebuild_item, scan_stamp, scan_failed>>
  BY DEF SettingsStep, SetConfigAdvance, SetConfigClear, SettingsUnchanged
<1>v. RemovePending(p)' <=> RemovePending(p)
  BY <1>u DEF RemovePending
\* No path is claimed under the new settings and no item is at work for them.
<1>c. ASSUME scan_generation' \in Generations, ~Tombstoned(p)', ~Unchecked(p),
             item[scan_generation'][p].pc \in {"none", "done"},
             scan_pc'[scan_generation'] \in {"none", "spawned"}
      PROVE  PathInv(p)'
  <2>1. TombstoneStands(p)' /\ ReadIsHeard(p)'
    BY <1>t, <1>u, <1>v, <1>c DEF TombstoneStands, ReadIsHeard
  <2>2. location[p].seen = 0 => NotYetMissed(p)'
    BY <1>u, <1>c DEF NotYetMissed
  <2>3. GoneIsTakenOut(p)'
    BY <1>t, <1>u, <1>v, <1>c, <2>2 DEF GoneIsTakenOut, NotYetMissed, Rebuilt
  <2> QED BY <2>1, <2>3 DEF PathInv
<1>1. CASE SetConfigAdvance
  <2>1. /\ scan_generation' = scan_generation + 1 /\ scan_generation' \in Generations
        /\ UNCHANGED <<session_paths, scan_pc>>
        /\ \A g \in Generations : ~InBatch(g, p)
    BY <1>1, <1>t, GenerationAssumption DEF SetConfigAdvance, TransitionFree, Generations
  <2>2. ~Tombstoned(p)'
    BY <1>t, <2>1 DEF Control, Tombstoned
  <2>3. ~Unchecked(p)
    BY <2>1 DEF Unchecked, InBatch
  <2>4. scan_pc'[scan_generation'] = "none" /\ item[scan_generation'][p].pc \in {"none", "done"}
    BY <1>t, <2>1 DEF Control
  <2> QED BY <1>c, <2>1, <2>2, <2>3, <2>4
<1>2. CASE SetConfigClear
  <2>1. /\ scan_generation' = scan_generation /\ config_pc = "swapping"
        /\ scan_pc' = [scan_pc EXCEPT ![scan_generation] = "spawned"]
        /\ session_paths'[p].removed = FALSE
    BY <1>2 DEF SetConfigClear, Unclaimed
  <2>2. ~Unchecked(p)
    BY <2>1 DEF Unchecked, IInv, BatchIsCurrent, InBatch
  <2>3. scan_pc'[scan_generation'] = "spawned" /\ item[scan_generation'][p].pc \in {"none", "done"}
    BY <1>t, <2>1 DEF Control, TypeOK
  <2> QED BY <1>c, <1>t, <2>1, <2>2, <2>3 DEF Tombstoned
<1> QED BY <1>1, <1>2 DEF SettingsStep


\* One item of a batch.  The current generation is the only one that commits, so
\* a removal heard of meanwhile is found by the check that follows.
LEMMA ItemPaths ==
    ASSUME IInv, RInv, NEW g \in Generations, NEW q \in Paths, NEW p \in Paths,
           \/ ScanParse(g, q) \/ ScanParseFails(g, q) \/ ScanReserve(g, q)
           \/ ScanCommit(g, q) \/ ScanLoad(g, q) \/ ScanCheckRemoved(g, q)
           \/ ScanMarkMissing(g, q) \/ ScanInsertMissing(g, q) \/ ScanPublish(g, q)
    PROVE  PathInv(p)'
<1> USE DEF fileVars, stateVars, settingsVars, watcherVars, rebuildVars, ScanItemUnchanged,
            ScanUnchanged
<1>t. /\ TypeOK /\ BatchIsCurrent /\ scan_generation \in Generations /\ PathInv(p)
      /\ TombstoneStands(p) /\ ReadIsHeard(p) /\ GoneIsTakenOut(p)
  BY DEF IInv, RInv, PathInv, TypeOK
<1>u. /\ UNCHANGED <<disk, events, scan_generation, scan_pc, scan_stamp, watcher, rebuild_item>>
      /\ scan_failed[scan_generation] => scan_failed'[scan_generation]
  <2>1. UNCHANGED scan_failed \/ scan_failed' = [scan_failed EXCEPT ![g] = TRUE]
    BY DEF ScanParse, ScanParseFails, ScanReserve, ScanCommit, ScanLoad, ScanCheckRemoved,
       ScanMarkMissing, ScanInsertMissing, ScanPublish
  <2>2. UNCHANGED <<disk, events, scan_generation, scan_pc, scan_stamp, watcher, rebuild_item>>
    BY DEF ScanParse, ScanParseFails, ScanReserve, ScanCommit, ScanLoad, ScanCheckRemoved,
       ScanMarkMissing, ScanInsertMissing, ScanPublish
  <2> QED BY <1>t, <2>1, <2>2 DEF TypeOK
<1>v. /\ RemovePending(p)' <=> RemovePending(p)
      /\ Rebuilt(p)' <=> Rebuilt(p)
      /\ Handling(p)' <=> Handling(p)
      /\ location'[p].seen = location[p].seen => (NotYetMissed(p) => NotYetMissed(p)')
  BY <1>u, MissedKept DEF RemovePending, Rebuilt, Handling
\* How the item moves.
<1>i. ASSUME NEW pc, NEW s, ItemStep(g, q, pc, s)
      PROVE  \A h \in Generations, r \in Paths :
                item'[h][r].pc = IF h = g /\ r = q THEN pc ELSE item[h][r].pc
  BY <1>t, <1>i, ItemMoves
<1>m. PICK pc : \A h \in Generations, r \in Paths :
                   item'[h][r].pc = IF h = g /\ r = q THEN pc ELSE item[h][r].pc
  <2>1. \/ \E pc, s : ItemStep(g, q, pc, s)
        \/ ScanReserve(g, q)
    BY DEF ScanParse, ScanParseFails, ScanCommit, ScanLoad, ScanCheckRemoved, ScanMarkMissing,
       ScanInsertMissing, ScanPublish
  <2>2. ScanReserve(g, q) => \E pc, s : ItemStep(g, q, pc, s)
    <3>1. ScanReserve(g, q) => \/ ItemStep(g, q, "reserved", item[g][q].session)
                              \/ ItemStep(g, q, "done", Nothing)
      BY DEF ScanReserve
    <3> QED BY <3>1
  <2>3. PICK pc, s : ItemStep(g, q, pc, s)
    BY <2>1, <2>2
  <2> QED BY <1>i, <2>3
\* A move that takes no part in this leaves p alone.
<1>a. ASSUME location'[p] = location[p], Tombstoned(p)' <=> Tombstoned(p),
             q = p => pc \notin Working /\ item[g][p].pc \notin Working
      PROVE  PathInv(p)'
  BY <1>a, <1>m, <1>t, <1>u, <1>v, ApartKept DEF Apart
<1>s. session_paths' = session_paths => (Tombstoned(p)' <=> Tombstoned(p))
  BY <1>u DEF Tombstoned
<1>1. CASE q /= p
  <2>1. location'[p] = location[p]
    BY <1>1, <1>t, ObserveMoves, MissingMoves
       DEF ScanParse, ScanParseFails, ScanReserve, ScanCommit, ScanLoad, ScanCheckRemoved,
           ScanMarkMissing, ScanInsertMissing, ScanPublish
  <2>2. session_paths'[p] = session_paths[p]
    BY <1>1, <1>t DEF TypeOK, ScanParse, ScanParseFails, ScanReserve, ScanCommit, ScanLoad,
       ScanCheckRemoved, ScanMarkMissing, ScanInsertMissing, ScanPublish
  <2> QED BY <1>a, <1>u, <1>1, <2>1, <2>2 DEF Tombstoned
<1>2. CASE q = p
  <2> USE <1>2
  \* With the item elsewhere than between its commit and its check.
  <2>k. ASSUME pc \notin {"committed", "loaded", "raced"},
               item[g][p].pc \notin {"committed", "loaded", "raced"}
        PROVE  Unchecked(p)' <=> Unchecked(p)
    BY <1>m, <2>k DEF Unchecked
  <2>c. pc \in {"committed", "loaded", "raced"} => Unchecked(p)'
    BY <1>m DEF Unchecked
  <2>1. CASE ScanParse(g, p)
    <3>1. /\ item[g][p].pc = "todo" /\ disk'[p] /= 0 /\ UNCHANGED <<location, session_paths>>
          /\ pc = "parsed"
      BY <1>i, <1>m, <1>t, <1>u, <2>1, LengthAssumption DEF ScanParse, TypeOK, Lengths
    <3>2. TombstoneStands(p)'
      BY <1>s, <1>t, <1>v, <2>k, <3>1 DEF TombstoneStands
    <3> QED BY <3>1, <3>2 DEF PathInv, ReadIsHeard, GoneIsTakenOut
  <2>2. CASE ScanParseFails(g, p)
    <3>1. /\ item[g][p].pc = "todo" /\ UNCHANGED <<location, session_paths>> /\ pc = "done"
      BY <1>i, <1>m, <2>2 DEF ScanParseFails
    <3> QED BY <1>a, <1>s, <3>1 DEF Working
  <2>3. CASE ScanReserve(g, p)
    <3>1. /\ item[g][p].pc = "parsed" /\ UNCHANGED location
          /\ pc = "done" \/ (pc = "reserved" /\ scan_generation = g)
      BY <1>i, <1>m, <2>3 DEF ScanReserve
    <3>2. Tombstoned(p)' <=> Tombstoned(p)
      <4>1. \/ UNCHANGED session_paths
            \/ session_paths' = [session_paths EXCEPT ![p].generation = g] /\ ~session_paths[p].removed
        BY <2>3 DEF ScanReserve, Unclaimed
      <4>2. ASSUME session_paths' = [session_paths EXCEPT ![p].generation = g]
            PROVE  session_paths'[p].removed = session_paths[p].removed
        BY <1>t, <4>2 DEF TypeOK, PathStates
      <4> QED BY <1>u, <4>1, <4>2 DEF Tombstoned
    <3>3. TombstoneStands(p)' /\ GoneIsTakenOut(p)'
      BY <1>t, <1>u, <1>v, <2>k, <3>1, <3>2 DEF TombstoneStands, GoneIsTakenOut
    <3>4. ReadIsHeard(p)'
      BY <1>m, <1>t, <1>u, <1>v, <3>1, <3>2 DEF ReadIsHeard
    <3> QED BY <3>3, <3>4 DEF PathInv
  <2>4. CASE ScanCommit(g, p)
    <3>1. /\ item[g][p].pc = "reserved" /\ UNCHANGED session_paths /\ pc = "committed"
      BY <1>i, <1>m, <2>4 DEF ScanCommit
    <3>2. scan_generation = g
      BY <1>t, <3>1 DEF BatchIsCurrent, InBatch
    <3>3. TombstoneStands(p)'
      BY <2>c, <3>1 DEF TombstoneStands
    <3>4. ReadIsHeard(p)'
      BY <1>m, <1>t, <1>u, <1>v, <3>1, <3>2 DEF ReadIsHeard
    <3>5. GoneIsTakenOut(p)'
      BY <1>s, <1>t, <1>u, <1>v, <2>c, <3>1, <3>2 DEF ReadIsHeard, GoneIsTakenOut
    <3> QED BY <3>3, <3>4, <3>5 DEF PathInv
  <2>5. CASE ScanLoad(g, p)
    <3>1. /\ item[g][p].pc = "committed" /\ UNCHANGED <<location, session_paths>> /\ pc = "loaded"
      BY <1>i, <1>m, <2>5 DEF ScanLoad
    <3>2. Unchecked(p)
      BY <3>1 DEF Unchecked
    <3>3. TombstoneStands(p)' /\ GoneIsTakenOut(p)'
      BY <1>s, <1>t, <1>u, <1>v, <2>c, <3>1, <3>2 DEF TombstoneStands, GoneIsTakenOut
    <3>4. ReadIsHeard(p)'
      BY <1>m, <1>s, <1>t, <1>u, <1>v, <3>1 DEF ReadIsHeard
    <3> QED BY <3>3, <3>4 DEF PathInv
  <2>6. CASE ScanCheckRemoved(g, p)
    <3>1. /\ item[g][p].pc = "loaded" /\ UNCHANGED <<location, session_paths>>
          /\ pc = IF session_paths[p].generation = g /\ session_paths[p].removed
                  THEN "raced" ELSE "returned"
      BY <1>i, <1>m, <2>6 DEF ScanCheckRemoved
    <3>2. scan_generation = g
      BY <1>t, <3>1 DEF BatchIsCurrent, InBatch
    <3>3. Tombstoned(p)' <=> Tombstoned(p)
      BY <1>s, <3>1
    <3>4. Tombstoned(p) <=> pc = "raced"
      BY <3>1, <3>2 DEF Tombstoned
    <3>5. TombstoneStands(p)' /\ GoneIsTakenOut(p)'
      BY <1>t, <1>u, <1>v, <2>c, <3>1, <3>3, <3>4 DEF TombstoneStands, GoneIsTakenOut
    <3>6. ReadIsHeard(p)'
      BY <1>m, <1>t, <1>u, <1>v, <3>1, <3>3, <3>4 DEF ReadIsHeard
    <3> QED BY <3>5, <3>6 DEF PathInv
  <2>7. CASE ScanMarkMissing(g, p)
    <3>1. /\ item[g][p].pc = "raced" /\ UNCHANGED session_paths /\ pc = "corrected"
          /\ ~location'[p].present
      BY <1>i, <1>m, <1>t, <2>7, MissingMoves DEF ScanMarkMissing
    <3>2. ReadIsHeard(p)'
      BY <1>m, <1>s, <1>t, <1>u, <1>v, <3>1 DEF ReadIsHeard
    <3> QED BY <3>1, <3>2 DEF PathInv, TombstoneStands, GoneIsTakenOut
  <2>8. CASE ScanInsertMissing(g, p)
    <3>1. /\ item[g][p].pc = "corrected" /\ UNCHANGED <<location, session_paths>> /\ pc = "returned"
      BY <1>i, <1>m, <2>8 DEF ScanInsertMissing
    <3> QED BY <1>a, <1>s, <3>1 DEF Working
  <2>9. CASE ScanPublish(g, p)
    <3>1. /\ item[g][p].pc = "returned" /\ UNCHANGED location /\ pc = "done"
      BY <1>i, <1>m, <2>9 DEF ScanPublish
    <3>2. \/ UNCHANGED session_paths
          \/ ~session_paths'[p].removed /\ ~Tombstoned(p)
      <4> DEFINE claimed == [generation |-> g, watcher_touched |-> FALSE, removed |-> FALSE]
      <4>1. claimed.removed = FALSE
        OBVIOUS
      <4>2. \/ UNCHANGED session_paths
            \/ session_paths' = [session_paths EXCEPT ![p] = claimed] /\ ~Tombstoned(p)
        BY <2>9 DEF ScanPublish, Ineligible, Tombstoned
      <4> HIDE DEF claimed
      <4> QED BY <1>t, <4>1, <4>2 DEF TypeOK
    <3>3. Tombstoned(p)' <=> Tombstoned(p)
      BY <1>s, <3>2 DEF Tombstoned
    <3> QED BY <1>a, <3>1, <3>3 DEF Working
  <2> QED BY <2>1, <2>2, <2>3, <2>4, <2>5, <2>6, <2>7, <2>8, <2>9
<1> QED BY <1>1, <1>2


\* The scan around its batches.  At its end it marks missing what no generation
\* has seen, unless a newer one has begun.
LEMMA ScanPaths ==
    ASSUME IInv, RInv, NEW g \in Generations, ScanStep(g), NEW p \in Paths
    PROVE  PathInv(p)'
<1> USE DEF fileVars, stateVars, settingsVars, watcherVars, rebuildVars, ScanItemUnchanged,
            ScanEndUnchanged, ScanUnchanged
<1>t. /\ TypeOK /\ Control /\ Stamps /\ scan_generation \in Generations /\ PathInv(p)
      /\ TombstoneStands(p) /\ ReadIsHeard(p) /\ GoneIsTakenOut(p)
      /\ durable_generation \in Nat /\ \A h \in Generations : scan_stamp[h] \in Nat
  BY DEF IInv, RInv, PathInv, TypeOK, DurableGenerations
<1>1. ASSUME NEW q \in Paths,
             \/ ScanParse(g, q) \/ ScanParseFails(g, q) \/ ScanReserve(g, q)
             \/ ScanCommit(g, q) \/ ScanLoad(g, q) \/ ScanCheckRemoved(g, q)
             \/ ScanMarkMissing(g, q) \/ ScanInsertMissing(g, q) \/ ScanPublish(g, q)
      PROVE  PathInv(p)'
  BY <1>1, ItemPaths
<1>2. ASSUME UNCHANGED <<disk, events, scan_generation, watcher, rebuild_item, session_paths>>,
             location'[p] = location[p],
             \A h \in Generations : \/ item'[h] = item[h]
                                    \/ item'[h][p].pc \notin Working /\ item[h][p].pc \notin Working,
             NotYetMissed(p) => NotYetMissed(p)'
      PROVE  PathInv(p)'
  <2>1. /\ RemovePending(p)' <=> RemovePending(p)
        /\ Tombstoned(p)' <=> Tombstoned(p)
        /\ Rebuilt(p)' <=> Rebuilt(p)
    BY <1>2 DEF RemovePending, Tombstoned, Rebuilt
  <2> QED BY <1>2, <1>t, <2>1, ApartKept DEF Apart
<1>3. CASE ScanBegin(g)
  <2>1. /\ UNCHANGED <<disk, events, scan_generation, watcher, rebuild_item, session_paths,
                       location, item, scan_failed>>
        /\ \A h \in Generations : scan_pc'[h] = IF h = g THEN "storing" ELSE scan_pc[h]
        /\ \A h \in Generations :
              scan_stamp'[h] = IF h = g THEN durable_generation + 1 ELSE scan_stamp[h]
    BY <1>3, <1>t DEF ScanBegin, TypeOK
  <2>2. g /= scan_generation => Overtaken(scan_generation)'
    BY <1>t, <2>1 DEF Stamps, Overtaken
  <2>3. NotYetMissed(p) => NotYetMissed(p)'
    BY <1>t, <2>1, <2>2 DEF NotYetMissed
  <2> QED BY <1>2, <2>1, <2>3
<1>4. CASE ScanStoreGeneration(g)
  <2>1. /\ UNCHANGED <<disk, events, scan_generation, watcher, rebuild_item, session_paths,
                       location, item, scan_failed, scan_stamp>>
        /\ \A h \in Generations : scan_pc'[h] = IF h = g THEN "discover" ELSE scan_pc[h]
    BY <1>4, <1>t DEF ScanStoreGeneration, TypeOK
  <2>2. NotYetMissed(p) => NotYetMissed(p)'
    BY <1>t, <2>1 DEF NotYetMissed, Overtaken
  <2> QED BY <1>2, <2>1, <2>2
<1>5. CASE ScanDiscover(g)
  <2>1. /\ UNCHANGED <<disk, events, scan_generation, watcher, rebuild_item, session_paths,
                       location, scan_failed, scan_stamp>>
        /\ scan_pc[g] = "discover"
        /\ \A h \in Generations : scan_pc'[h] = IF h = g THEN "batches" ELSE scan_pc[h]
    BY <1>5, <1>t DEF ScanDiscover, TypeOK
  <2>2. \A h \in Generations : h /= g => item'[h] = item[h]
    BY <1>5, <1>t DEF ScanDiscover, TypeOK
  <2>3. item'[g][p].pc \in {"todo", "none"}
    <3> DEFINE found == [r \in Paths |->
                  IF disk[r] > 0 THEN [pc |-> "todo", session |-> Nothing] ELSE NoItem]
    <3>1. item' = [item EXCEPT ![g] = found]
      BY <1>5 DEF ScanDiscover
    <3>2. found[p].pc \in {"todo", "none"}
      BY DEF NoItem
    <3> HIDE DEF found
    <3>3. item'[g] = found
      BY <1>t, <3>1 DEF TypeOK
    <3> QED BY <3>2, <3>3
  <2>4. item[g][p].pc \in {"none", "done"}
    BY <1>t, <2>1 DEF Control
  <2>5. NotYetMissed(p) => NotYetMissed(p)'
    BY <1>t, <2>1 DEF NotYetMissed, Overtaken
  <2> QED BY <1>2, <2>1, <2>2, <2>3, <2>4, <2>5 DEF Working
<1>6. CASE ScanBatchesDone(g)
  <2>1. /\ UNCHANGED <<disk, events, scan_generation, watcher, rebuild_item, session_paths,
                       location, item, scan_failed, scan_stamp>>
        /\ \A h \in Generations : h /= g => scan_pc'[h] = scan_pc[h]
        /\ scan_pc'[g] = IF scan_generation = g /\ ~scan_failed[g] THEN "finish" ELSE "done"
    BY <1>6, <1>t DEF ScanBatchesDone, TypeOK
  <2>2. NotYetMissed(p) => NotYetMissed(p)'
    BY <1>t, <2>1 DEF NotYetMissed, Overtaken
  <2> QED BY <1>2, <2>1, <2>2
<1>7. CASE ScanFinish(g)
  <2>1. /\ UNCHANGED <<disk, events, scan_generation, watcher, rebuild_item, session_paths,
                       item, scan_failed, scan_stamp>>
        /\ scan_pc[g] = "finish"
        /\ \A h \in Generations : h /= g => scan_pc'[h] = scan_pc[h]
        /\ location'[p] = IF p \in Unseen(g) THEN Missing(location[p]) ELSE location[p]
    BY <1>7, <1>t DEF ScanFinish, TypeOK
  <2>2. CASE p \in Unseen(g)
    <3>1. ~location'[p].present
      BY <2>1, <2>2 DEF Missing
    <3>2. /\ RemovePending(p)' <=> RemovePending(p)
          /\ Tombstoned(p)' <=> Tombstoned(p)
      BY <2>1 DEF RemovePending, Tombstoned
    <3> QED BY <1>t, <2>1, <3>1, <3>2 DEF PathInv, TombstoneStands, ReadIsHeard, GoneIsTakenOut
  <2>3. CASE p \notin Unseen(g) /\ ~location[p].present
    <3>1. ~location'[p].present
      BY <2>1, <2>3
    <3>2. /\ RemovePending(p)' <=> RemovePending(p)
          /\ Tombstoned(p)' <=> Tombstoned(p)
      BY <2>1 DEF RemovePending, Tombstoned
    <3> QED BY <1>t, <2>1, <3>1, <3>2 DEF PathInv, TombstoneStands, ReadIsHeard, GoneIsTakenOut
  <2>4. CASE p \notin Unseen(g) /\ location[p].present
    <3>1. location'[p] = location[p]
      BY <2>1, <2>4
    <3>2. location[p].seen = 0 => Overtaken(g)
      BY <1>t, <2>1, <2>4 DEF Stamps, Unseen
    <3>3. Overtaken(scan_generation)' <=> Overtaken(scan_generation)
      BY <2>1 DEF Overtaken
    <3>4. NotYetMissed(p) => NotYetMissed(p)'
      BY <1>t, <2>1, <3>1, <3>2, <3>3 DEF NotYetMissed
    <3> QED BY <1>2, <2>1, <3>1, <3>4
  <2> QED BY <2>2, <2>3, <2>4
<1>8. CASE ScanApplyLoaded(g) \/ ScanDone(g) \/ \E q \in Paths : ScanReload(g, q)
  <2>1. /\ UNCHANGED <<disk, events, scan_generation, watcher, rebuild_item, session_paths,
                       location, item, scan_failed, scan_stamp>>
        /\ \/ UNCHANGED scan_pc
           \/ scan_pc[g] = "reload" /\ scan_pc' = [scan_pc EXCEPT ![g] = "done"]
    BY <1>8 DEF ScanApplyLoaded, ScanDone, ScanReload
  <2>2. \A h \in Generations : scan_pc'[h] = scan_pc[h] \/ scan_pc[h] = "reload"
    BY <1>t, <2>1 DEF TypeOK
  <2>3. NotYetMissed(p) => NotYetMissed(p)'
    BY <1>t, <2>1, <2>2 DEF NotYetMissed, Overtaken
  <2> QED BY <1>2, <2>1, <2>3
<1> QED BY <1>1, <1>3, <1>4, <1>5, <1>6, <1>7, <1>8 DEF ScanStep


\* A rebuild makes present what it rewrites, and only that.
LEMMA RebuildPaths ==
    ASSUME IInv, RInv, RebuildAnyStep, NEW p \in Paths
    PROVE  PathInv(p)'
<1> USE DEF fileVars, stateVars, settingsVars, watcherVars, scanVars, rebuildVars, RebuildUnchanged
<1>t. /\ TypeOK /\ Control /\ PathInv(p)
      /\ TombstoneStands(p) /\ ReadIsHeard(p) /\ GoneIsTakenOut(p)
  BY DEF IInv, RInv, PathInv
<1>u. UNCHANGED <<disk, events, scan_generation, scan_pc, scan_stamp, scan_failed, watcher, item,
                  session_paths>>
  BY DEF RebuildAnyStep, RebuildBegin, RebuildCancel, RebuildDone, RebuildParse, RebuildCommit, RebuildLoad,
     RebuildPublish
<1>v. /\ RemovePending(p)' <=> RemovePending(p)
      /\ Tombstoned(p)' <=> Tombstoned(p)
  BY <1>u DEF RemovePending, Tombstoned
<1>a. ASSUME location'[p] = location[p], Rebuilt(p)' <=> Rebuilt(p)
      PROVE  PathInv(p)'
  BY <1>a, <1>t, <1>u, <1>v, ApartKept, MissedKept DEF Apart
<1>1. CASE RebuildBegin
  <2>1. rebuild_item[p].pc = "none" /\ UNCHANGED location
    BY <1>1, <1>t DEF RebuildBegin, Control
  <2>2. rebuild_item'[p].pc \in {"todo", "none"}
    BY <1>1 DEF RebuildBegin, NoItem
  <2> QED BY <1>a, <2>1, <2>2 DEF Rebuilt
<1>2. CASE RebuildDone
  BY <1>2, <1>a DEF RebuildDone, Rebuilt
<1>3. ASSUME NEW q \in Paths, RebuildParse(q)
      PROVE  PathInv(p)'
  <2>1. /\ UNCHANGED location /\ rebuild_item[q].pc = "todo"
        /\ \E s : \E pc \in {"parsed", "none"} : RebuildStep(q, pc, s)
    <3>1. \/ RebuildStep(q, "parsed", [length |-> disk[q], present |-> TRUE])
          \/ RebuildStep(q, "none", Nothing)
      BY <1>3 DEF RebuildParse
    <3> QED BY <1>3, <3>1 DEF RebuildParse
  <2>2. rebuild_item'[p].pc = rebuild_item[p].pc \/ (q = p /\ rebuild_item'[p].pc \in {"parsed", "none"})
    BY <1>t, <2>1, RebuildMoves
  <2> QED BY <1>a, <2>1, <2>2 DEF Rebuilt
<1>4. ASSUME NEW q \in Paths, RebuildCommit(q)
      PROVE  PathInv(p)'
  <2>1. \A r \in Paths :
           rebuild_item'[r].pc = IF r = q THEN "committed" ELSE rebuild_item[r].pc
    BY <1>4, <1>t, RebuildMoves DEF RebuildCommit
  <2>2. CASE q /= p
    <3>1. location'[p] = location[p]
      BY <1>4, <1>t, <2>2, ObserveMoves DEF RebuildCommit
    <3> QED BY <1>a, <2>1, <2>2, <3>1 DEF Rebuilt
  <2>3. CASE q = p
    <3>1. Rebuilt(p)'
      BY <2>1, <2>3 DEF Rebuilt
    <3>2. ReadIsHeard(p)'
      BY <1>t, <1>u, <1>v DEF ReadIsHeard
    <3> QED BY <3>1, <3>2 DEF PathInv, TombstoneStands, GoneIsTakenOut
  <2> QED BY <2>2, <2>3
<1>5. ASSUME NEW q \in Paths, RebuildLoad(q) \/ RebuildPublish(q)
      PROVE  PathInv(p)'
  <2>1. /\ UNCHANGED location /\ rebuild_item[q].pc \in {"committed", "loaded"}
        /\ \E s : \E pc \in {"loaded", "done"} : RebuildStep(q, pc, s)
    BY <1>5 DEF RebuildLoad, RebuildPublish
  <2>2. rebuild_item'[p].pc = rebuild_item[p].pc \/ (q = p /\ rebuild_item'[p].pc \in {"loaded", "done"})
    BY <1>t, <2>1, RebuildMoves
  <2> QED BY <1>a, <2>1, <2>2 DEF Rebuilt
<1>6. CASE RebuildCancel
  <2>1. /\ UNCHANGED location
        /\ rebuild_item'[p] = IF rebuild_item[p].pc = "todo" THEN NoItem ELSE rebuild_item[p]
    BY <1>6 DEF RebuildCancel
  <2> QED BY <1>a, <2>1 DEF Rebuilt, NoItem
<1> QED BY <1>1, <1>2, <1>3, <1>4, <1>5, <1>6 DEF RebuildAnyStep

\* The archive as it was left: the first scan has yet to look at everything.
LEMMA PathInit == ASSUME Init, NEW p \in Paths PROVE PathInv(p)
<1>1. /\ session_paths[p].removed = FALSE /\ watcher.pc = "idle" /\ scan_generation = 1
      /\ 1 \in Generations
    BY GenerationAssumption DEF Init, Unclaimed, IdleWatcher, Generations
<1>2. item[1][p].pc = "none" /\ scan_pc[1] = "spawned"
    BY <1>1 DEF Init, NoItem
<1>3. location[p].seen = 0
  <2>1. location[p] \in {[length |-> l.length, present |-> l.present, seen |-> 0] :
                            l \in {s \in Loaded : s.length = 0 => ~s.present}}
    BY DEF Init
  <2> QED BY <2>1
<1>4. TombstoneStands(p) /\ ReadIsHeard(p)
  BY <1>1, <1>2 DEF TombstoneStands, Tombstoned, ReadIsHeard
<1>5. GoneIsTakenOut(p)
  BY <1>1, <1>2, <1>3 DEF GoneIsTakenOut, NotYetMissed
<1> QED BY <1>4, <1>5 DEF PathInv

\* All of it, in every state.
LEMMA RInvHolds == Spec => [](IInv /\ RInv)
<1>1. Init => RInv
  BY ControlInit, PathInit DEF RInv
<1>2. ASSUME IInv, RInv, [Next]_vars
      PROVE  RInv'
  <2>1. Control' /\ Stamps'
    BY <1>2, ControlKept, StampsKept DEF RInv
  <2>2. ASSUME NEW p \in Paths
        PROVE  PathInv(p)'
    <3>1. CASE UNCHANGED vars
      <4>1. Apart(p)
        BY <3>1 DEF vars, fileVars, stateVars, settingsVars, watcherVars, scanVars, rebuildVars,
           Apart, Tombstoned, Rebuilt, RemovePending, NotYetMissed, Overtaken
      <4> QED BY <1>2, <4>1, ApartKept DEF IInv, RInv
    <3>2. CASE Next
      BY <1>2, <3>2, FilePaths, WatcherPaths, SettingsPaths, ScanPaths, RebuildPaths DEF Next
    <3> QED BY <1>2, <3>1, <3>2
  <2> QED BY <2>1, <2>2 DEF RInv
<1>3. Spec => []IInv
  BY InductiveInvariant
<1> QED BY <1>1, <1>2, <1>3, PTL DEF Spec

\* What the watcher saw removed stays removed while scans of the same settings
\* run, and at rest nothing that is gone is present: for any number of paths,
\* scans, changes of the settings and of the files.
THEOREM NothingReturnsHolds == Spec => []NothingReturns
<1>1. ASSUME IInv, RInv PROVE TombstoneHolds
  <2> SUFFICES ASSUME NEW p \in Paths, Tombstoned(p), ~Handling(p),
                      \A g \in Generations : ~InBatch(g, p), ~Rebuilt(p)
               PROVE  ~location[p].present
    BY DEF TombstoneHolds, Tombstoned, Handling
  <2>1. ~Unchecked(p)
    BY DEF Unchecked, InBatch
  <2> QED BY <1>1, <2>1 DEF RInv, PathInv, TombstoneStands
<1>2. ASSUME IInv, RInv PROVE NoResurrection
  <2> SUFFICES ASSUME Quiescent, ~scan_failed[scan_generation],
                      \A g \in Generations : scan_stamp[g] <= scan_stamp[scan_generation],
                      NEW p \in Paths, disk[p] = 0, ~Rebuilt(p)
               PROVE  ~location[p].present
    BY DEF NoResurrection
  <2>t. /\ Control /\ GoneIsTakenOut(p) /\ scan_generation \in Generations
        /\ \A g \in Generations : scan_stamp[g] \in Nat
    BY <1>2 DEF RInv, PathInv, IInv, TypeOK, DurableGenerations
  <2>1. ~RemovePending(p) /\ watcher.pc /= "tombstoned"
    BY DEF Quiescent, RemovePending
  <2>2. ~Unchecked(p)
    BY <2>t DEF Quiescent, Unchecked, Control
  <2>3. ~NotYetMissed(p)
    <3>1. scan_pc[scan_generation] = "done"
      BY <2>t DEF Quiescent, Control
    <3>2. ~Overtaken(scan_generation)
      BY <2>t DEF Overtaken
    <3> QED BY <3>1, <3>2 DEF NotYetMissed
  <2> QED BY <2>t, <2>1, <2>2, <2>3 DEF GoneIsTakenOut
<1> QED BY <1>1, <1>2, RInvHolds, PTL DEF NothingReturns

=============================================================================
