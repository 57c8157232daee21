--------------------------- MODULE RollupDeferral ---------------------------
(***************************************************************************)
(* The hour-bucket rollups of the history archive and their deferred       *)
(* maintenance (history_store.rs, store.rs).                               *)
(*                                                                         *)
(* A session's token events are append-only, so an event is abstracted to  *)
(* its index and a session's facts to how many events are stored.  Each    *)
(* event contributes 1 to the rollup, so the rollup of a session is exact  *)
(* when it equals its facts, behind when it is smaller and double counted  *)
(* when it is larger.                                                      *)
(*                                                                         *)
(* A pass is a bulk scan or a history rebuild.  Both write facts without   *)
(* their rollups, mark the archive durably and the process in memory, and  *)
(* rebuild the rollups at the end.  The live watcher writes facts and adds *)
(* the new events to the rollup at once.  Each pass runs at most once.     *)
(***************************************************************************)
EXTENDS Naturals, FiniteSets, TLC

CONSTANTS
    Sessions,    \* durable session keys
    Passes,      \* bulk scans and history rebuilds, each at most once
    MaxEvents,   \* bound on the events of one transcript
    NoSession,   \* the watcher is between two observations
    NoPass       \* no bulk scan has started

ASSUME MaxEventsAssumption == MaxEvents \in Nat
ASSUME NoSessionAssumption == NoSession \notin Sessions
ASSUME NoPassAssumption == NoPass \notin Passes

VARIABLES
    transcript,             \* events in each source file
    facts,                  \* events in durable_token_events
    rolled,                 \* events counted by rollup_token_totals
    rollups_stale,          \* history_meta: rollups_stale
    rollups_pending,        \* history_meta: rollups_pending:<key>
    running,                \* the archive is open in a running process
    rollup_deferred_stale,  \* AppState: facts written, rollups deferred
    ledger_stale,           \* AppState: the latest persist failed
    current_scan,           \* the scan of the current generation
    pass_kind, pass_pc,
    pass_seen,              \* sessions whose one source path the pass has read
    pass_outcomes,          \* outcomes committed and not yet applied
    watch_item              \* session the watcher committed and not yet applied

sourceVars == <<transcript>>
ledgerVars == <<facts, rolled, rollups_stale, rollups_pending>>
memoryVars == <<rollup_deferred_stale, ledger_stale>>
passVars == <<current_scan, pass_kind, pass_pc, pass_seen, pass_outcomes>>
vars == <<sourceVars, ledgerVars, running, memoryVars, passVars, watch_item>>

Outcomes == [key : Sessions, rollups_deferred : BOOLEAN]
PassPCs == {"idle", "writing", "counting", "entire", "scoped", "clearing", "done"}

Active(p) == pass_pc[p] \notin {"idle", "done"}
ActiveScan(p) == Active(p) /\ pass_kind[p] = "scan"

TypeOK ==
    /\ transcript \in [Sessions -> 0..MaxEvents]
    /\ facts \in [Sessions -> 0..MaxEvents]
    /\ rolled \in [Sessions -> 0..MaxEvents]
    /\ rollups_stale \in BOOLEAN
    /\ rollups_pending \in SUBSET Sessions
    /\ running \in BOOLEAN
    /\ rollup_deferred_stale \in SUBSET Sessions
    /\ ledger_stale \in SUBSET Sessions
    /\ current_scan \in Passes \union {NoPass}
    /\ pass_kind \in [Passes -> {"none", "scan", "rebuild"}]
    /\ pass_pc \in [Passes -> PassPCs]
    /\ pass_seen \in [Passes -> SUBSET Sessions]
    /\ pass_outcomes \in [Passes -> SUBSET Outcomes]
    /\ watch_item \in Sessions \union {NoSession}

\* The archive on disk before the first open.  It may come from a build that
\* recorded a deferral only in the rollups_stale marker, and from a run that
\* was killed before its rebuild.
Init ==
    /\ transcript \in [Sessions -> 0..MaxEvents]
    /\ facts \in [Sessions -> 0..MaxEvents]
    /\ rolled \in [Sessions -> 0..MaxEvents]
    /\ \A k \in Sessions : rolled[k] <= facts[k] /\ facts[k] <= transcript[k]
    /\ rollups_stale \in BOOLEAN
    /\ ~rollups_stale => rolled = facts
    /\ rollups_pending = {}
    /\ running = FALSE
    /\ rollup_deferred_stale = {}
    /\ ledger_stale = {}
    /\ current_scan = NoPass
    /\ pass_kind = [p \in Passes |-> "none"]
    /\ pass_pc = [p \in Passes |-> "idle"]
    /\ pass_seen = [p \in Passes |-> {}]
    /\ pass_outcomes = [p \in Passes |-> {}]
    /\ watch_item = NoSession

-----------------------------------------------------------------------------
(* The archive.                                                            *)

\* rebuild_rollups_in_transaction over the sessions of `scope', with
\* clear_rollups_stale in the same transaction.
RebuildRollups(scope) ==
    /\ rolled' = [k \in Sessions |-> IF k \in scope THEN facts[k] ELSE rolled[k]]
    /\ rollups_stale' = FALSE
    /\ rollups_pending' = {}
    /\ UNCHANGED facts

\* Mutant: opening trusts the recorded deferred set.
OpenHistoryScoped ==
    /\ ~running
    /\ running' = TRUE
    /\ IF rollups_stale THEN RebuildRollups(rollups_pending)
                        ELSE UNCHANGED ledgerVars
    /\ UNCHANGED <<sourceVars, memoryVars, passVars, watch_item>>

\* open_with_progress: a marker left by an interrupted scan rebuilds the whole
\* ledger before the store is handed out.
OpenHistory ==
    /\ ~running
    /\ running' = TRUE
    /\ IF rollups_stale THEN RebuildRollups(Sessions) ELSE UNCHANGED ledgerVars
    /\ UNCHANGED <<sourceVars, memoryVars, passVars, watch_item>>

\* The process is killed.  What is committed stays; what is in memory, and
\* every thread, is gone.
Crash ==
    /\ running
    /\ running' = FALSE
    /\ rollup_deferred_stale' = {}
    /\ ledger_stale' = {}
    /\ current_scan' = NoPass
    /\ pass_pc' = [p \in Passes |-> IF Active(p) THEN "done" ELSE pass_pc[p]]
    /\ pass_outcomes' = [p \in Passes |-> {}]
    /\ watch_item' = NoSession
    /\ UNCHANGED <<sourceVars, ledgerVars, pass_kind, pass_seen>>

\* An agent appends an event to a transcript.
AppendTranscript(k) ==
    /\ transcript[k] < MaxEvents
    /\ transcript' = [transcript EXCEPT ![k] = @ + 1]
    /\ UNCHANGED <<ledgerVars, running, memoryVars, passVars, watch_item>>

-----------------------------------------------------------------------------
(* Bulk scan and history rebuild.                                          *)

\* A batch of a scan is committed and applied under config_transition.
ScanHoldsTransition(p) == pass_kind[p] = "scan" /\ pass_outcomes[p] /= {}

\* spawn_scan's thread, which may find a superseded scan still draining but
\* never a rebuild.
BeginScan(p) ==
    /\ running
    /\ pass_pc[p] = "idle"
    /\ \A q \in Passes : Active(q) => ActiveScan(q) /\ ~ScanHoldsTransition(q)
    /\ current_scan' = p
    /\ pass_kind' = [pass_kind EXCEPT ![p] = "scan"]
    /\ pass_pc' = [pass_pc EXCEPT ![p] = "writing"]
    /\ UNCHANGED <<sourceVars, ledgerVars, running, memoryVars, pass_seen,
                   pass_outcomes, watch_item>>

\* spawn_history_rebuild's thread, alone on the durable-write path.
BeginRebuild(p) ==
    /\ running
    /\ pass_pc[p] = "idle"
    /\ \A q \in Passes : ~Active(q)
    /\ pass_kind' = [pass_kind EXCEPT ![p] = "rebuild"]
    /\ pass_pc' = [pass_pc EXCEPT ![p] = "writing"]
    /\ UNCHANGED <<sourceVars, ledgerVars, running, memoryVars, current_scan,
                   pass_seen, pass_outcomes, watch_item>>

\* Sessions a pass has not read yet are parsed and committed in batches.
MayCommit(p) ==
    /\ pass_pc[p] = "writing"
    /\ pass_outcomes[p] = {}
    /\ pass_kind[p] = "scan" => /\ current_scan = p
                                /\ \A q \in Passes : ~ScanHoldsTransition(q)

\* observe_one_in_transaction for the sessions of one batch.  The events of
\* `parsed' may be older than the file.  A longer history is always a new
\* snapshot; an equally long one may be (turns, tools and metadata are not
\* modelled); a shorter one is not monotonic and is dropped.
FactsChanged(k, parsed, rewritten) ==
    parsed > facts[k] \/ (parsed = facts[k] /\ rewritten)

\* Mutant: only the whole-store marker is set, not the pending row.
BulkCommitWithoutPending(p, batch, parsed, rewritten) ==
    LET changed == {k \in batch : FactsChanged(k, parsed[k], k \in rewritten)}
    IN  /\ MayCommit(p)
        /\ facts' = [k \in Sessions |->
                        IF k \in changed THEN parsed[k] ELSE facts[k]]
        /\ rollups_stale' = (rollups_stale \/ changed /= {})
        /\ pass_seen' = [pass_seen EXCEPT ![p] = @ \union batch]
        /\ pass_outcomes' = [pass_outcomes EXCEPT ![p] =
                {[key |-> k, rollups_deferred |-> k \in changed] : k \in batch}]
        /\ UNCHANGED <<sourceVars, rolled, rollups_pending, running, memoryVars,
                       current_scan, pass_kind, pass_pc, watch_item>>

\* observe_bulk_batch, or observe_bulk after a failed batch: one transaction
\* writes the facts, the rollups_stale marker and the pending rows.
BulkCommit(p, batch, parsed, rewritten) ==
    LET changed == {k \in batch : FactsChanged(k, parsed[k], k \in rewritten)}
    IN  /\ MayCommit(p)
        /\ facts' = [k \in Sessions |->
                        IF k \in changed THEN parsed[k] ELSE facts[k]]
        /\ rollups_pending' = rollups_pending \union changed
        /\ rollups_stale' = (rollups_stale \/ changed /= {})
        /\ pass_seen' = [pass_seen EXCEPT ![p] = @ \union batch]
        /\ pass_outcomes' = [pass_outcomes EXCEPT ![p] =
                {[key |-> k, rollups_deferred |-> k \in changed] : k \in batch}]
        /\ UNCHANGED <<sourceVars, rolled, running, memoryVars, current_scan,
                       pass_kind, pass_pc, watch_item>>

\* A session that could not be persisted, retried on its own.
BulkFails(p, k) ==
    /\ MayCommit(p)
    /\ pass_kind[p] = "scan"
    /\ ledger_stale' = ledger_stale \union {k}
    /\ UNCHANGED <<sourceVars, ledgerVars, running, rollup_deferred_stale,
                   passVars, watch_item>>

\* apply_bulk_outcome of a scan, publish_rebuilt_session of a rebuild: the
\* marker is set when this write deferred and removed when it did not.
ApplyOutcome(p, o) ==
    /\ running
    /\ o \in pass_outcomes[p]
    /\ pass_outcomes' = [pass_outcomes EXCEPT ![p] = @ \ {o}]
    /\ ledger_stale' = ledger_stale \ {o.key}
    /\ rollup_deferred_stale' = IF o.rollups_deferred
                                THEN rollup_deferred_stale \union {o.key}
                                ELSE rollup_deferred_stale \ {o.key}
    /\ UNCHANGED <<sourceVars, ledgerVars, running, current_scan, pass_kind,
                   pass_pc, pass_seen, watch_item>>

\* A superseded scan returns without rebuilding; a rebuild that failed does
\* too.
PassAbandoned(p) ==
    /\ pass_pc[p] = "writing"
    /\ pass_outcomes[p] = {}
    /\ pass_kind[p] = "scan" => current_scan /= p
    /\ pass_pc' = [pass_pc EXCEPT ![p] = "done"]
    /\ UNCHANGED <<sourceVars, ledgerVars, running, memoryVars, current_scan,
                   pass_kind, pass_seen, pass_outcomes, watch_item>>

\* rebuild_rollups_if_stale_reporting_scope, in three steps because each takes
\* the connection mutex anew: the marker, the count of pending rows and the
\* rebuild.
FinalizeCheckStale(p) ==
    /\ pass_pc[p] = "writing"
    /\ pass_outcomes[p] = {}
    /\ pass_kind[p] = "scan" => current_scan = p
    /\ pass_pc' = [pass_pc EXCEPT ![p] = IF rollups_stale THEN "counting" ELSE "done"]
    /\ UNCHANGED <<sourceVars, ledgerVars, running, memoryVars, current_scan,
                   pass_kind, pass_seen, pass_outcomes, watch_item>>

FinalizeCountPending(p) ==
    /\ pass_pc[p] = "counting"
    /\ pass_pc' = [pass_pc EXCEPT ![p] =
                        IF rollups_pending = {} THEN "entire" ELSE "scoped"]
    /\ UNCHANGED <<sourceVars, ledgerVars, running, memoryVars, current_scan,
                   pass_kind, pass_seen, pass_outcomes, watch_item>>

\* Mutant: the marker is cleared before, and outside, the rebuild.
FinalizeClearsFirst(p) ==
    /\ pass_pc[p] \in {"entire", "scoped"}
    /\ rollups_stale' = FALSE
    /\ rollups_pending' = {}
    /\ pass_pc' = [pass_pc EXCEPT ![p] =
                        IF pass_kind[p] = "scan" THEN "clearing" ELSE "done"]
    /\ UNCHANGED <<sourceVars, facts, rolled, running, memoryVars, current_scan,
                   pass_kind, pass_seen, pass_outcomes, watch_item>>

FinalizeRebuild(p) ==
    /\ pass_pc[p] \in {"entire", "scoped"}
    /\ RebuildRollups(IF pass_pc[p] = "entire" THEN Sessions ELSE rollups_pending)
    /\ pass_pc' = [pass_pc EXCEPT ![p] =
                        IF pass_kind[p] = "scan" THEN "clearing" ELSE "done"]
    /\ UNCHANGED <<sourceVars, running, memoryVars, current_scan, pass_kind,
                   pass_seen, pass_outcomes, watch_item>>

\* One of the three fails and rolls back; a scan only logs a warning.
FinalizeFails(p) ==
    /\ pass_pc[p] \in {"writing", "counting", "entire", "scoped"}
    /\ pass_outcomes[p] = {}
    /\ pass_pc' = [pass_pc EXCEPT ![p] = "done"]
    /\ UNCHANGED <<sourceVars, ledgerVars, running, memoryVars, current_scan,
                   pass_kind, pass_seen, pass_outcomes, watch_item>>

\* finalize_bulk_scan_rollups: rollup_deferred_stale.clear().
FinalizeClearMarkers(p) ==
    /\ pass_pc[p] = "clearing"
    /\ rollup_deferred_stale' = {}
    /\ pass_pc' = [pass_pc EXCEPT ![p] = "done"]
    /\ UNCHANGED <<sourceVars, ledgerVars, running, ledger_stale, current_scan,
                   pass_kind, pass_seen, pass_outcomes, watch_item>>

-----------------------------------------------------------------------------
(* The live watcher.                                                       *)

\* Mutant: the whole history is added to the rollup, not its new suffix.
WatcherCommitRecounts(k, parsed) ==
    /\ running
    /\ watch_item = NoSession
    /\ watch_item' = k
    /\ facts' = [facts EXCEPT ![k] = IF parsed > @ THEN parsed ELSE @]
    /\ rolled' = [rolled EXCEPT ![k] = IF parsed > facts[k] THEN @ + parsed ELSE @]
    /\ UNCHANGED <<sourceVars, rollups_stale, rollups_pending, running,
                   memoryVars, passVars>>

\* reconcile_observed_session, observe_with_displaced: store_token_events
\* inserts the new suffix and adds exactly it to the rollup.
WatcherCommit(k, parsed) ==
    /\ running
    /\ watch_item = NoSession
    /\ watch_item' = k
    /\ facts' = [facts EXCEPT ![k] = IF parsed > @ THEN parsed ELSE @]
    /\ rolled' = [rolled EXCEPT ![k] =
                    IF parsed > facts[k] THEN @ + (parsed - facts[k]) ELSE @]
    /\ UNCHANGED <<sourceVars, rollups_stale, rollups_pending, running,
                   memoryVars, passVars>>

\* The tail of reconcile_session_at_generation: both markers are removed.
WatcherApply ==
    /\ watch_item /= NoSession
    /\ watch_item' = NoSession
    /\ ledger_stale' = ledger_stale \ {watch_item}
    /\ rollup_deferred_stale' = rollup_deferred_stale \ {watch_item}
    /\ UNCHANGED <<sourceVars, ledgerVars, running, passVars>>

WatcherFails(k) ==
    /\ running
    /\ watch_item = NoSession
    /\ ledger_stale' = ledger_stale \union {k}
    /\ UNCHANGED <<sourceVars, ledgerVars, running, rollup_deferred_stale,
                   passVars, watch_item>>

-----------------------------------------------------------------------------
PassStep(p) ==
    \/ BeginScan(p)
    \/ BeginRebuild(p)
    \/ \E batch \in SUBSET (Sessions \ pass_seen[p]) \ {{}},
          rewritten \in SUBSET Sessions :
           \E parsed \in [batch -> 0..MaxEvents] :
               /\ \A k \in batch : parsed[k] <= transcript[k]
               /\ BulkCommit(p, batch, parsed, rewritten)
    \/ \E k \in Sessions : BulkFails(p, k)
    \/ \E o \in Outcomes : ApplyOutcome(p, o)
    \/ PassAbandoned(p)
    \/ FinalizeCheckStale(p)
    \/ FinalizeCountPending(p)
    \/ FinalizeRebuild(p)
    \/ FinalizeFails(p)
    \/ FinalizeClearMarkers(p)

WatcherStep ==
    \/ \E k \in Sessions, parsed \in 0..MaxEvents :
           parsed <= transcript[k] /\ WatcherCommit(k, parsed)
    \/ WatcherApply
    \/ \E k \in Sessions : WatcherFails(k)

Next ==
    \/ OpenHistory
    \/ Crash
    \/ \E k \in Sessions : AppendTranscript(k)
    \/ \E p \in Passes : PassStep(p)
    \/ WatcherStep

Spec == Init /\ [][Next]_vars

-----------------------------------------------------------------------------
(* Properties.                                                             *)

\* No event is counted twice by a rollup and none is stored that the
\* transcript does not have, however additive updates by the watcher,
\* deferred batches, scoped and whole-ledger rebuilds and crashes interleave.
NeverOvercounted ==
    \A k \in Sessions : rolled[k] <= facts[k] /\ facts[k] <= transcript[k]

\* A rollup that is behind its facts is always marked on disk, so the
\* read-only query (validate_query_ledger), which is refused while the marker
\* is set, never serves a rollup that under-reports - also after a crash.
ReadOnlyQueryIsExact == ~rollups_stale => rolled = facts

\* In a running process every rollup that is behind has its own pending row,
\* so the scoped rebuild, which trusts the rows and then clears the marker,
\* leaves nothing behind.
LagIsPending ==
    running => \A k \in Sessions : rolled[k] /= facts[k] => k \in rollups_pending

\* No step takes facts away from the archive or opens it with rollups behind.
OpenServesExactRollups ==
    [][/\ \A k \in Sessions : facts[k] <= facts'[k]
       /\ ~running /\ running' => rolled' = facts']_vars

\* A non-bulk observe leaves the session's rollups correct regardless of an
\* earlier deferral: the watcher removes only the marker of an exact rollup.
WatcherLeavesExactRollups ==
    [][\A k \in rollup_deferred_stale :
            watch_item = k /\ watch_item' = NoSession /\ running'
            => rolled'[k] = facts'[k]]_vars

\* A session that deferred is untrusted until a rebuild has run: an outcome
\* that deferred nothing removes the marker only of an exact rollup.
UnchangedOutcomeKeepsDistrust ==
    [][\A p \in Passes, o \in Outcomes :
            /\ o \in pass_outcomes[p] /\ o \notin pass_outcomes'[p] /\ running'
            /\ o.key \in rollup_deferred_stale /\ ~o.rollups_deferred
            => rolled'[o.key] = facts'[o.key]]_vars

\* Clearing every marker after the rebuild clears only markers the rebuild has
\* resolved, or that an outcome still to be applied sets again.
ClearingCoversEveryMarker ==
    [][\A p \in Passes :
            pass_pc[p] = "clearing" /\ pass_pc'[p] = "done" /\ running'
            => \A k \in rollup_deferred_stale :
                  \/ rolled[k] = facts[k]
                  \/ \E q \in Passes : \E o \in pass_outcomes[q] : o.key = k]_vars

\* Once the rollups have been rebuilt and no pass is under way, no session is
\* left marked: its accounting is served again.
RebuildClearsMarkers ==
    ~rollups_stale /\ (\A p \in Passes : ~Active(p)) => rollup_deferred_stale = {}

\* Sessions are interchangeable, and so are passes.
RollupSymmetry == Permutations(Sessions) \union Permutations(Passes)
=============================================================================
