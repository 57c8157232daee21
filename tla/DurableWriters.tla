--------------------------- MODULE DurableWriters ---------------------------
(***************************************************************************)
(* The coordination of everything that rewrites the durable history        *)
(* archive: the thread that opens the archive, the bulk scans, the history *)
(* rebuild, the retention purge, the reopening of an unavailable archive   *)
(* and the settings change that supersedes a scan (store.rs, commands.rs). *)
(*                                                                         *)
(* Every element of Requests is one call the desktop may make: set_config, *)
(* rebuild_history, purge_retained_history or reopen_history.  A request   *)
(* runs at most once, so Requests bounds how many calls are made and so    *)
(* also how many generations and scans there are: the scan a call spawns   *)
(* is named after the call, and the scan of lib.rs's setup is Startup.     *)
(*                                                                         *)
(* What the writers write is left to the other modules.  Here a write is   *)
(* only noted in `disturbed' when it falls between the two measurements of *)
(* a rebuild.                                                              *)
(***************************************************************************)
EXTENDS Naturals, FiniteSets

CONSTANTS
    Requests,    \* calls made by the desktop, each at most once
    Startup,     \* the bulk scan lib.rs starts
    NoRequest    \* the config_transition mutex is free

ASSUME StartupAssumption == Startup \notin Requests
ASSUME NoRequestAssumption == NoRequest \notin Requests

VARIABLES
    history,                   \* AppState.history: HistoryReadiness
    opener,                    \* program counter of spawn_history_open
    scan_generation,           \* AppState.scan_generation
    durable_writers,           \* AppState.durable_writers: DurableWriters
    config_transition,         \* AppState.config_transition: its holder
    scan_pc,                   \* program counters of the spawn_scan threads
    scan_gen,                  \* the `generation' each of them captured
    req_pc,                    \* program counters of the calls
    req_kind,                  \* which call a request turned out to be
    scanned,                   \* AppState.scanned
    rebuild_status,            \* AppState.rebuild_status.phase
    rebuild_cancel_requested,  \* AppState.rebuild_cancel_requested
    overlapped,                \* history: two scans have held the path at once
    disturbed,                 \* history: rebuilds a scan wrote during
    cancelled_by               \* history: rebuilds during which cancel was called

archiveVars == <<history, opener>>
reqVars == <<req_pc, req_kind>>
scanVars == <<scan_pc, scan_gen, scanned>>
rebuildVars == <<rebuild_status, rebuild_cancel_requested, cancelled_by>>
auxVars == <<overlapped, disturbed>>
vars == <<archiveVars, scan_generation, durable_writers, config_transition,
          scanVars, reqVars, rebuildVars, auxVars>>

Scans == Requests \union {Startup}
Kinds == {"none", "set_config", "rebuild", "purge", "reopen"}
ReadinessKinds == {"Pending", "Ready", "Unavailable"}
RebuildPhases ==
    {"Idle", "Running", "Vacuuming", "Complete", "Cancelled", "Failed"}
ScanPCs == {"none", "await_history", "await_writers", "scanning", "finalize",
            "missing", "overlay", "refresh", "complete", "leaving", "done"}
ReqPCs == {"idle", "locked", "invalidated", "reserved", "starting", "running",
           "vacuuming", "checking", "opening", "attached", "leaving",
           "done"}

\* The requests that own the guard returned by try_begin_rebuild.
Exclusive(r) ==
    /\ req_kind[r] \in {"rebuild", "purge", "reopen"}
    /\ req_pc[r] \notin {"idle", "done"}

\* The scans that own the guard returned by begin_scan_after_any_rebuild.
Scanning(s) == scan_pc[s] \in
    {"scanning", "finalize", "missing", "overlay", "refresh", "complete",
     "leaving"}

\* A rebuild between its `before' and its `after' RebuildEvidence.
Measuring == {r \in Requests : req_kind[r] = "rebuild" /\ req_pc[r] = "running"}

IsCurrent(s) == scan_gen[s] = scan_generation

TypeOK ==
    /\ history \in ReadinessKinds
    /\ opener \in {"opening", "done"}
    /\ scan_generation \in Nat
    /\ durable_writers \in [scan : BOOLEAN, rebuild : BOOLEAN]
    /\ config_transition \in Requests \union {NoRequest}
    /\ scan_pc \in [Scans -> ScanPCs]
    /\ scan_gen \in [Scans -> Nat]
    /\ req_pc \in [Requests -> ReqPCs]
    /\ req_kind \in [Requests -> Kinds]
    /\ scanned \in BOOLEAN
    /\ rebuild_status \in RebuildPhases
    /\ rebuild_cancel_requested \in BOOLEAN
    /\ overlapped \in BOOLEAN
    /\ disturbed \in SUBSET Requests
    /\ cancelled_by \in SUBSET Requests

\* lib.rs's setup has dispatched spawn_history_open and, last, spawn_scan.
Init ==
    /\ history = "Pending"
    /\ opener = "opening"
    /\ scan_generation = 0
    /\ durable_writers = [scan |-> FALSE, rebuild |-> FALSE]
    /\ config_transition = NoRequest
    /\ scan_pc = [s \in Scans |-> IF s = Startup THEN "await_history" ELSE "none"]
    /\ scan_gen = [s \in Scans |-> 0]
    /\ req_pc = [r \in Requests |-> "idle"]
    /\ req_kind = [r \in Requests |-> "none"]
    /\ scanned = FALSE
    /\ rebuild_status = "Idle"
    /\ rebuild_cancel_requested = FALSE
    /\ overlapped = FALSE
    /\ disturbed = {}
    /\ cancelled_by = {}

-----------------------------------------------------------------------------
(* The thread of spawn_history_open.                                       *)

\* set_history_ready(Some(store)) or set_history_ready(None), exactly once;
\* it wakes every waiter.
HistoryOpened ==
    /\ opener = "opening"
    /\ opener' = "done"
    /\ history' \in {"Ready", "Unavailable"}
    /\ UNCHANGED <<scan_generation, durable_writers, config_transition,
                   scanVars, reqVars, rebuildVars, auxVars>>

-----------------------------------------------------------------------------
(* The bulk scan thread of spawn_scan.                                     *)

\* What no step of a scan thread changes.
scanFrame == <<archiveVars, scan_generation, config_transition, scan_gen,
               reqVars, rebuildVars>>

ScanGoto(s, pc) == scan_pc' = [scan_pc EXCEPT ![s] = pc]

\* A durable write of a scan, seen by every rebuild that is measuring.
ScanWrites == disturbed' = disturbed \union Measuring

\* wait_for_history_ready.
ScanHistoryResolved(s) ==
    /\ scan_pc[s] = "await_history"
    /\ history /= "Pending"
    /\ ScanGoto(s, "await_writers")
    /\ UNCHANGED <<scanFrame, durable_writers, scanned, auxVars>>

\* begin_scan_after_any_rebuild: waits only for the rebuild flag, then sets
\* the one flag that all scans share.
ScanReserve(s) ==
    /\ scan_pc[s] = "await_writers"
    /\ ~durable_writers.rebuild
    /\ durable_writers' = [durable_writers EXCEPT !.scan = TRUE]
    /\ overlapped' = (overlapped \/ \E t \in Scans : Scanning(t))
    /\ ScanGoto(s, "scanning")
    /\ UNCHANGED <<scanFrame, scanned, disturbed>>

\* One batch: dropped when superseded, otherwise committed by
\* reconcile_scanned_batch_if_current under the config_transition mutex.
ScanCommitBatch(s) ==
    /\ scan_pc[s] = "scanning"
    /\ IsCurrent(s)
    /\ config_transition = NoRequest
    /\ ScanWrites
    /\ UNCHANGED <<scanFrame, scan_pc, durable_writers, scanned, overlapped>>

\* The batches are over and the generation is still current.
ScanBatchesDone(s) ==
    /\ scan_pc[s] = "scanning"
    /\ IsCurrent(s)
    /\ ScanGoto(s, "finalize")
    /\ UNCHANGED <<scanFrame, durable_writers, scanned, auxVars>>

\* Mutant: the early return leaves the reservation behind.
ScanSupersededKeepsReservation(s) ==
    /\ scan_pc[s] \in {"scanning", "overlay", "refresh"}
    /\ ~IsCurrent(s)
    /\ ScanGoto(s, "done")
    /\ UNCHANGED <<scanFrame, durable_writers, scanned, auxVars>>

\* The early returns of a superseded scan: after the batches, before the
\* overlay and before the watcher refresh.
ScanSuperseded(s) ==
    /\ scan_pc[s] \in {"scanning", "overlay", "refresh"}
    /\ ~IsCurrent(s)
    /\ ScanGoto(s, "leaving")
    /\ UNCHANGED <<scanFrame, durable_writers, scanned, auxVars>>

\* finalize_bulk_scan_rollups.
ScanFinalizeRollups(s) ==
    /\ scan_pc[s] = "finalize"
    /\ ScanWrites
    /\ ScanGoto(s, "missing")
    /\ UNCHANGED <<scanFrame, durable_writers, scanned, overlapped>>

\* finish_history_scan; skipped when the sources are invalid, a parse failed
\* or the archive gave this scan no generation.
ScanFinishMissing(s) ==
    /\ scan_pc[s] = "missing"
    /\ ScanWrites \/ UNCHANGED disturbed
    /\ ScanGoto(s, "overlay")
    /\ UNCHANGED <<scanFrame, durable_writers, scanned, overlapped>>

\* The session-index overlay and persist_thread_name_overlay_batch.
ScanOverlay(s) ==
    /\ scan_pc[s] = "overlay"
    /\ IsCurrent(s)
    /\ ScanWrites
    /\ ScanGoto(s, "refresh")
    /\ UNCHANGED <<scanFrame, durable_writers, scanned, overlapped>>

\* The last check of the generation, then config_events::start.
ScanRefreshWatcher(s) ==
    /\ scan_pc[s] = "refresh"
    /\ IsCurrent(s)
    /\ ScanGoto(s, "complete")
    /\ UNCHANGED <<scanFrame, durable_writers, scanned, auxVars>>

\* scanned.store(true) and the final scan-progress event.
ScanComplete(s) ==
    /\ scan_pc[s] = "complete"
    /\ scanned' = TRUE
    /\ ScanGoto(s, "leaving")
    /\ UNCHANGED <<scanFrame, durable_writers, auxVars>>

\* The guard is dropped: release_durable_writer(DurableWriter::Scan).
ScanRelease(s) ==
    /\ scan_pc[s] = "leaving"
    /\ durable_writers' = [durable_writers EXCEPT !.scan = FALSE]
    /\ ScanGoto(s, "done")
    /\ UNCHANGED <<scanFrame, scanned, auxVars>>

ScanStep(s) ==
    \/ ScanHistoryResolved(s)
    \/ ScanReserve(s)
    \/ ScanCommitBatch(s)
    \/ ScanBatchesDone(s)
    \/ ScanSuperseded(s)
    \/ ScanFinalizeRollups(s)
    \/ ScanFinishMissing(s)
    \/ ScanOverlay(s)
    \/ ScanRefreshWatcher(s)
    \/ ScanComplete(s)
    \/ ScanRelease(s)

-----------------------------------------------------------------------------
(* Calls that reserve the path exclusively.                                *)

ReqGoto(r, pc) == req_pc' = [req_pc EXCEPT ![r] = pc]

\* Mutant: a second rebuild is not refused.
TryBeginRebuildTwice(r, kind) ==
    /\ req_pc[r] = "idle"
    /\ ~durable_writers.scan
    /\ durable_writers' = [durable_writers EXCEPT !.rebuild = TRUE]
    /\ req_kind' = [req_kind EXCEPT ![r] = kind]
    /\ ReqGoto(r, "reserved")
    /\ UNCHANGED <<archiveVars, scan_generation, config_transition, scanVars,
                   rebuildVars, auxVars>>

\* Mutant: a running scan does not refuse the call.
TryBeginRebuildDuringScan(r, kind) ==
    /\ req_pc[r] = "idle"
    /\ ~durable_writers.rebuild
    /\ durable_writers' = [durable_writers EXCEPT !.rebuild = TRUE]
    /\ req_kind' = [req_kind EXCEPT ![r] = kind]
    /\ ReqGoto(r, "reserved")
    /\ UNCHANGED <<archiveVars, scan_generation, config_transition, scanVars,
                   rebuildVars, auxVars>>

\* try_begin_rebuild, from rebuild_history, purge_retained_history or
\* reopen_history.  A refused call returns its error and changes nothing.
TryBeginRebuild(r, kind) ==
    /\ req_pc[r] = "idle"
    /\ ~durable_writers.rebuild
    /\ ~durable_writers.scan
    /\ durable_writers' = [durable_writers EXCEPT !.rebuild = TRUE]
    /\ req_kind' = [req_kind EXCEPT ![r] = kind]
    /\ ReqGoto(r, "reserved")
    /\ UNCHANGED <<archiveVars, scan_generation, config_transition, scanVars,
                   rebuildVars, auxVars>>

\* The guard is dropped: release_durable_writer(DurableWriter::Rebuild).
ReleaseRebuild(r) ==
    /\ req_pc[r] = "leaving"
    /\ durable_writers' = [durable_writers EXCEPT !.rebuild = FALSE]
    /\ ReqGoto(r, "done")
    /\ UNCHANGED <<archiveVars, scan_generation, config_transition, scanVars,
                   req_kind, rebuildVars, auxVars>>

-----------------------------------------------------------------------------
(* rebuild_history, cancel_history_rebuild and spawn_history_rebuild.      *)

rebuildFrame == <<archiveVars, scan_generation, durable_writers,
                  config_transition, scanVars, req_kind, auxVars>>

\* Mutant: a cancel request survives into the next rebuild.
RebuildKeepsCancel(r) ==
    /\ req_kind[r] = "rebuild"
    /\ req_pc[r] = "reserved"
    /\ ReqGoto(r, "starting")
    /\ UNCHANGED <<rebuildFrame, rebuildVars>>

\* rebuild_history clears the cancel flag and spawns the thread.
RebuildResetCancel(r) ==
    /\ req_kind[r] = "rebuild"
    /\ req_pc[r] = "reserved"
    /\ rebuild_cancel_requested' = FALSE
    /\ ReqGoto(r, "starting")
    /\ UNCHANGED <<rebuildFrame, rebuild_status, cancelled_by>>

\* cancel_history_rebuild, at any time.
CancelHistoryRebuild ==
    /\ rebuild_cancel_requested' = TRUE
    /\ cancelled_by' = cancelled_by \union
            {r \in Requests : req_kind[r] = "rebuild" /\ Exclusive(r)}
    /\ UNCHANGED <<rebuildFrame, req_pc, rebuild_status>>

\* The thread starts: Running, or Failed when the archive is not Ready.
RebuildStart(r) ==
    /\ req_pc[r] = "starting"
    /\ IF history = "Ready"
        THEN rebuild_status' = "Running" /\ ReqGoto(r, "running")
        ELSE rebuild_status' = "Failed" /\ ReqGoto(r, "leaving")
    /\ UNCHANGED <<rebuildFrame, rebuild_cancel_requested, cancelled_by>>

\* rebuild_from_transcripts returns a complete pass.
RebuildReparsed(r) ==
    /\ req_pc[r] = "running"
    /\ rebuild_status' = "Vacuuming"
    /\ ReqGoto(r, "vacuuming")
    /\ UNCHANGED <<rebuildFrame, rebuild_cancel_requested, cancelled_by>>

\* should_cancel saw the flag before the next session.
RebuildCancelled(r) ==
    /\ req_pc[r] = "running"
    /\ rebuild_cancel_requested
    /\ rebuild_status' = "Cancelled"
    /\ ReqGoto(r, "leaving")
    /\ UNCHANGED <<rebuildFrame, rebuild_cancel_requested, cancelled_by>>

\* Mutant: an error returns without publishing a final status.
RebuildFailedSilently(r) ==
    /\ req_pc[r] = "running"
    /\ ReqGoto(r, "leaving")
    /\ UNCHANGED <<rebuildFrame, rebuildVars>>

\* rebuild_from_transcripts returns an error.
RebuildFailed(r) ==
    /\ req_pc[r] = "running"
    /\ rebuild_status' = "Failed"
    /\ ReqGoto(r, "leaving")
    /\ UNCHANGED <<rebuildFrame, rebuild_cancel_requested, cancelled_by>>

\* vacuum succeeds or fails.
RebuildVacuumed(r) ==
    /\ req_pc[r] = "vacuuming"
    /\ rebuild_status' \in {"Complete", "Failed"}
    /\ ReqGoto(r, "leaving")
    /\ UNCHANGED <<rebuildFrame, rebuild_cancel_requested, cancelled_by>>

-----------------------------------------------------------------------------
(* AppState::purge_retained_history.                                       *)

\* The purge itself is module Retention's; it fails when the archive is not
\* Ready, and either way the guard is dropped.
PurgeRetained(r) ==
    /\ req_kind[r] = "purge"
    /\ req_pc[r] = "reserved"
    /\ ReqGoto(r, "leaving")
    /\ UNCHANGED <<rebuildFrame, rebuildVars>>

-----------------------------------------------------------------------------
(* reopen_history: recover_history and retry_history_open.                 *)

reopenFrame == <<opener, durable_writers, req_kind, rebuildVars, auxVars>>

ReopenLockConfig(r) ==
    /\ req_kind[r] = "reopen"
    /\ req_pc[r] = "reserved"
    /\ config_transition = NoRequest
    /\ config_transition' = r
    /\ ReqGoto(r, "checking")
    /\ UNCHANGED <<reopenFrame, history, scan_generation, scanVars>>

\* Mutant: a reopening that does not look at the archive's readiness.
ReopenPrepareUnchecked(r) ==
    /\ req_pc[r] = "checking"
    /\ history' = "Pending"
    /\ ReqGoto(r, "opening")
    /\ UNCHANGED <<reopenFrame, scan_generation, config_transition, scanVars>>

\* prepare_history_open, once the archive is known to be Unavailable and the
\* configuration could be loaded.
ReopenPrepare(r) ==
    /\ req_pc[r] = "checking"
    /\ history = "Unavailable"
    /\ history' = "Pending"
    /\ ReqGoto(r, "opening")
    /\ UNCHANGED <<reopenFrame, scan_generation, config_transition, scanVars>>

\* The early returns: the archive is not Unavailable, or the configuration
\* could not be loaded.
ReopenRefused(r) ==
    /\ req_pc[r] = "checking"
    /\ config_transition' = NoRequest
    /\ ReqGoto(r, "leaving")
    /\ UNCHANGED <<reopenFrame, history, scan_generation, scanVars>>

\* Mutant: a failed reopening leaves the archive Pending.
ReopenFailedPending(r) ==
    /\ req_pc[r] = "opening"
    /\ config_transition' = NoRequest
    /\ ReqGoto(r, "leaving")
    /\ UNCHANGED <<reopenFrame, history, scan_generation, scanVars>>

\* The archive could not be opened: set_history_ready(None).
ReopenFailed(r) ==
    /\ req_pc[r] = "opening"
    /\ history' = "Unavailable"
    /\ config_transition' = NoRequest
    /\ ReqGoto(r, "leaving")
    /\ UNCHANGED <<reopenFrame, scan_generation, scanVars>>

\* attach_reopened_history.
ReopenAttach(r) ==
    /\ req_pc[r] = "opening"
    /\ history' = "Ready"
    /\ ReqGoto(r, "attached")
    /\ UNCHANGED <<reopenFrame, scan_generation, config_transition, scanVars>>

-----------------------------------------------------------------------------
(* set_config, and the tail it shares with reopen_history.                 *)

SetConfigLock(r) ==
    /\ req_pc[r] = "idle"
    /\ config_transition = NoRequest
    /\ config_transition' = r
    /\ req_kind' = [req_kind EXCEPT ![r] = "set_config"]
    /\ ReqGoto(r, "locked")
    /\ UNCHANGED <<archiveVars, scan_generation, durable_writers, scanVars,
                   rebuildVars, auxVars>>

\* Every return before the sources are replaced: a rejected or unsaved
\* configuration, or one whose session sources did not change.
SetConfigKeepSources(r) ==
    /\ req_pc[r] = "locked"
    /\ config_transition' = NoRequest
    /\ ReqGoto(r, "done")
    /\ UNCHANGED <<reopenFrame, history, scan_generation, scanVars>>

\* Mutant: the generation counts down.
RewindScanGeneration(r) ==
    /\ req_pc[r] \in {"locked", "attached"}
    /\ scan_generation' = scan_generation - 1
    /\ ReqGoto(r, "invalidated")
    /\ UNCHANGED <<reopenFrame, history, config_transition, scanVars>>

\* advance_scan_generation, in set_config or at the end of reopen_history.
AdvanceScanGeneration(r) ==
    /\ req_pc[r] \in {"locked", "attached"}
    /\ scan_generation' = scan_generation + 1
    /\ ReqGoto(r, "invalidated")
    /\ UNCHANGED <<reopenFrame, history, config_transition, scanVars>>

\* Mutant: the scan captures the generation from before the change.
SpawnScanOldGeneration(r) ==
    /\ req_pc[r] = "invalidated"
    /\ scanned' = FALSE
    /\ ScanGoto(r, "await_history")
    /\ config_transition' = NoRequest
    /\ ReqGoto(r, IF req_kind[r] = "reopen" THEN "leaving" ELSE "done")
    /\ UNCHANGED <<reopenFrame, history, scan_generation, scan_gen>>

\* spawn_scan, and the config_transition guard dropped after it.
SpawnScan(r) ==
    /\ req_pc[r] = "invalidated"
    /\ scanned' = FALSE
    /\ scan_gen' = [scan_gen EXCEPT ![r] = scan_generation]
    /\ ScanGoto(r, "await_history")
    /\ config_transition' = NoRequest
    /\ ReqGoto(r, IF req_kind[r] = "reopen" THEN "leaving" ELSE "done")
    /\ UNCHANGED <<reopenFrame, history, scan_generation>>

-----------------------------------------------------------------------------
RequestStep(r) ==
    \/ ReleaseRebuild(r)
    \/ RebuildResetCancel(r) \/ RebuildStart(r) \/ RebuildReparsed(r)
    \/ RebuildCancelled(r) \/ RebuildFailed(r) \/ RebuildVacuumed(r)
    \/ PurgeRetained(r)
    \/ ReopenLockConfig(r) \/ ReopenPrepare(r) \/ ReopenRefused(r)
    \/ ReopenFailed(r) \/ ReopenAttach(r)
    \/ SetConfigKeepSources(r) \/ AdvanceScanGeneration(r) \/ SpawnScan(r)

\* A call the desktop makes.
RequestBegin(r) ==
    \/ \E kind \in {"rebuild", "purge", "reopen"} : TryBeginRebuild(r, kind)
    \/ SetConfigLock(r)

\* Nothing is under way any more; only cancel_history_rebuild can be called.
Quiet ==
    /\ opener = "done"
    /\ \A s \in Scans : scan_pc[s] \in {"none", "done"}
    /\ \A r \in Requests : req_pc[r] \in {"idle", "done"}

Next ==
    \/ HistoryOpened
    \/ \E s \in Scans : ScanStep(s)
    \/ \E r \in Requests : RequestBegin(r) \/ RequestStep(r)
    \/ CancelHistoryRebuild

\* Every thread the program has started runs on.  Requests are the user's:
\* none is promised.
Fairness ==
    /\ WF_vars(HistoryOpened)
    /\ \A s \in Scans : WF_vars(ScanStep(s))
    /\ \A r \in Requests : WF_vars(RequestStep(r))

Spec == Init /\ [][Next]_vars
FairSpec == Spec /\ Fairness

-----------------------------------------------------------------------------
(* Properties.                                                             *)

\* The rebuild flag of DurableWriters is set exactly while one rebuild, purge
\* or reopen holds the guard of try_begin_rebuild: no two of them ever run
\* together and no exit path leaves the flag behind.
ExclusiveOwner ==
    /\ durable_writers.rebuild <=> \E r \in Requests : Exclusive(r)
    /\ \A q, r \in Requests : Exclusive(q) /\ Exclusive(r) => q = r

\* The scan flag is never left set by a scan that has gone, whichever early
\* return it took: try_begin_rebuild is not refused for ever (store.rs 171).
ScanFlagHasOwner ==
    durable_writers.scan => \E s \in Scans : Scanning(s)

\* As long as no scan reserved the path while another one held it, a scan and
\* an exclusive writer never hold the path together, and no scan writes
\* between the two measurements of a rebuild.
SingleScanExcludesRebuild ==
    ~overlapped =>
        /\ \A s \in Scans, r \in Requests : ~(Scanning(s) /\ Exclusive(r))
        /\ disturbed = {}

\* What the comment on DurableWriters claims without that condition: the
\* writers that rewrite durable snapshots do not run at the same time, so a
\* rebuild's before/after evidence is not measured across a scan's writes.
RebuildEvidenceUndisturbed == disturbed = {}

\* A rebuild status the UI shows as busy belongs to a rebuild that still
\* holds the reservation; a finished one has always published its outcome.
BusyStatusHasOwner ==
    rebuild_status \in {"Running", "Vacuuming"} =>
        \E r \in Requests : /\ req_kind[r] = "rebuild"
                             /\ req_pc[r] \in {"running", "vacuuming"}

\* Whatever calls, threads and early returns race: the path has one exclusive
\* owner, every flag and every busy status of it has a living owner, and a lone
\* scan never writes under a rebuild's two measurements.
WritersExclude ==
    ExclusiveOwner /\ ScanFlagHasOwner /\ SingleScanExcludesRebuild /\ BusyStatusHasOwner

\* should_cancel can stop a running rebuild only for a cancel_history_rebuild
\* called since that rebuild reserved the path: an earlier call, made when no
\* rebuild or another one was running, is a no-op.
CancelWasForThisRebuild ==
    \A r \in Requests :
        req_pc[r] = "running" /\ rebuild_cancel_requested => r \in cancelled_by

\* Once the archive is Ready no call takes it away: reopen_history only ever
\* replaces an Unavailable one, although its check and its effect are
\* separated from other reopenings only by the two reservations it holds.
ReadyIsStable == [][history = "Ready" => history' = "Ready"]_vars

\* `scanned' tells the UI and the accounting commands that the scan of the
\* current configuration has completed.
ScannedMeansCurrentScan ==
    scanned /\ config_transition = NoRequest =>
        \E s \in Scans : IsCurrent(s) /\ scan_pc[s] \in {"leaving", "done"}

\* No thread waits for ever: every scan and every call ends, whatever the
\* order in which the archive opens, calls reserve and scans are superseded.
EventuallyQuiet == <>[]Quiet

\* The scan of the last configuration completes, and `scanned' stays set.
EventuallyScanned == <>[]scanned
=============================================================================
