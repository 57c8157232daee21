------------------------ MODULE RollupDeferral_proofs ------------------------
(***************************************************************************)
(* Proofs, for all sets of sessions and passes and every bound on the      *)
(* events, that the durable markers of module RollupDeferral never lose a  *)
(* rollup that is behind its facts.                                        *)
(***************************************************************************)
EXTENDS RollupDeferral, TLAPS

\* No pass survives its process.
DownIsIdle == ~running => \A p \in Passes : pass_pc[p] \in {"idle", "done"}

\* The inductive invariant.  LagIsPending is what makes the scoped rebuild
\* safe to clear the marker, NeverOvercounted is what bounds the additive
\* update of the watcher.
IInv ==
    /\ TypeOK
    /\ NeverOvercounted
    /\ ReadOnlyQueryIsExact
    /\ LagIsPending
    /\ DownIsIdle

\* What rebuild_rollups_in_transaction leaves, for a scope that holds every
\* session whose rollup is behind.
LEMMA RebuildIsExact ==
    ASSUME TypeOK, NEW scope \in SUBSET Sessions,
           \A k \in Sessions : rolled[k] /= facts[k] => k \in scope,
           RebuildRollups(scope)
    PROVE  rolled' = facts /\ facts' = facts /\ rolled' \in [Sessions -> 0..MaxEvents]
<1>1. \A k \in Sessions : rolled'[k] = facts[k]
  BY DEF RebuildRollups
<1>2. rolled' = [k \in Sessions |-> rolled'[k]] /\ facts = [k \in Sessions |-> facts[k]]
  BY DEF RebuildRollups, TypeOK
<1> QED BY <1>1, <1>2 DEF RebuildRollups, TypeOK

\* What load_batch_outcomes returns for a batch are outcomes.
LEMMA BatchOutcomes ==
    \A batch \in SUBSET Sessions : \A changed :
       {[key |-> k, rollups_deferred |-> k \in changed] : k \in batch} \in SUBSET Outcomes
<1> SUFFICES ASSUME NEW batch \in SUBSET Sessions, NEW changed,
                    NEW o \in {[key |-> k, rollups_deferred |-> k \in changed] : k \in batch}
             PROVE  o \in Outcomes
  OBVIOUS
<1>1. PICK k \in batch : o = [key |-> k, rollups_deferred |-> k \in changed]
  OBVIOUS
<1>2. k \in Sessions /\ (k \in changed) \in BOOLEAN
  OBVIOUS
<1> QED BY <1>1, <1>2 DEF Outcomes

\* Every archive the program may find on disk satisfies the invariant.
LEMMA InitIInv == Init => IInv
  BY DEF Init, IInv, TypeOK, NeverOvercounted, ReadOnlyQueryIsExact,
         LagIsPending, DownIsIdle, PassPCs

-----------------------------------------------------------------------------
\* Every step of every thread preserves the invariant.
LEMMA IInvPreserved == ASSUME IInv, [Next]_vars PROVE IInv'
<1> USE MaxEventsAssumption
<1> USE DEF IInv, TypeOK, NeverOvercounted, ReadOnlyQueryIsExact, LagIsPending,
            DownIsIdle, PassPCs, Outcomes, sourceVars, ledgerVars, memoryVars, passVars
<1>1. CASE OpenHistory
  <2>1. CASE rollups_stale
    <3>1. RebuildRollups(Sessions)
      BY <1>1, <2>1 DEF OpenHistory
    <3>2. rolled' = facts /\ facts' = facts /\ rolled' \in [Sessions -> 0..MaxEvents]
      BY <3>1, RebuildIsExact
    <3>3. /\ rollups_stale' = FALSE /\ rollups_pending' = {} /\ running' = TRUE
          /\ UNCHANGED <<transcript, memoryVars, passVars, watch_item>>
      BY <1>1, <3>1 DEF OpenHistory, RebuildRollups
    <3>4. TypeOK' /\ DownIsIdle'
      BY <3>2, <3>3
    <3>5. NeverOvercounted' /\ ReadOnlyQueryIsExact' /\ LagIsPending'
      BY <3>2, <3>3
    <3> QED BY <3>4, <3>5
  <2>2. CASE ~rollups_stale
    BY <1>1, <2>2 DEF OpenHistory
  <2> QED BY <2>1, <2>2
<1>2. CASE Crash
  BY <1>2 DEF Crash, Active
<1>3. ASSUME NEW k \in Sessions, AppendTranscript(k) PROVE IInv'
  BY <1>3 DEF AppendTranscript
<1>4. ASSUME NEW p \in Passes, PassStep(p) PROVE IInv'
  <2>1. CASE BeginScan(p)
    BY <2>1 DEF BeginScan
  <2>2. CASE BeginRebuild(p)
    BY <2>2 DEF BeginRebuild
  <2>3. ASSUME NEW batch \in SUBSET Sessions, NEW rewritten \in SUBSET Sessions,
               NEW parsed \in [batch -> 0..MaxEvents],
               \A k \in batch : parsed[k] <= transcript[k],
               BulkCommit(p, batch, parsed, rewritten)
        PROVE  IInv'
    <3> DEFINE changed ==
                 {k \in batch : FactsChanged(k, parsed[k], k \in rewritten)}
    <3>1. /\ facts' = [k \in Sessions |->
                          IF k \in changed THEN parsed[k] ELSE facts[k]]
          /\ rollups_pending' = rollups_pending \union changed
          /\ rollups_stale' = (rollups_stale \/ changed /= {})
      BY <2>3 DEF BulkCommit
    <3>2. UNCHANGED <<transcript, rolled, running, rollup_deferred_stale,
                      ledger_stale, current_scan, pass_kind, pass_pc, watch_item>>
      BY <2>3 DEF BulkCommit
    <3>3. changed \subseteq Sessions
          /\ \A k \in changed : k \in batch /\ parsed[k] >= facts[k]
      BY <2>3 DEF FactsChanged
    <3>4. facts' \in [Sessions -> 0..MaxEvents]
      BY <3>1, <3>3
    <3>5. pass_outcomes' \in [Passes -> SUBSET Outcomes]
          /\ pass_seen' \in [Passes -> SUBSET Sessions]
      <4> DEFINE outcomes ==
                   {[key |-> k, rollups_deferred |-> k \in changed] : k \in batch}
      <4>1. outcomes \in SUBSET Outcomes
        BY ONLY BatchOutcomes
      <4>2. /\ pass_outcomes' = [pass_outcomes EXCEPT ![p] = outcomes]
            /\ pass_seen' = [pass_seen EXCEPT ![p] = @ \union batch]
        BY <2>3 DEF BulkCommit
      <4> HIDE DEF outcomes
      <4> QED BY <4>1, <4>2
    <3>6. TypeOK'
      BY <3>1, <3>2, <3>3, <3>4, <3>5
    <3>7. NeverOvercounted'
      BY <2>3, <3>1, <3>2, <3>3
    <3>8. ReadOnlyQueryIsExact'
      <4> SUFFICES ASSUME ~rollups_stale' PROVE rolled' = facts'
        OBVIOUS
      <4>1. changed = {} /\ rolled = facts
        BY <3>1
      <4> QED BY <3>1, <3>2, <4>1
    <3>9. LagIsPending'
      BY <3>1, <3>2, <3>3
    <3>10. DownIsIdle'
      BY <3>2
    <3> QED BY <3>6, <3>7, <3>8, <3>9, <3>10
  <2>4. ASSUME NEW k \in Sessions, BulkFails(p, k) PROVE IInv'
    BY <2>4 DEF BulkFails
  <2>5. ASSUME NEW o \in Outcomes, ApplyOutcome(p, o) PROVE IInv'
    BY <2>5 DEF ApplyOutcome
  <2>6. CASE PassAbandoned(p)
    BY <2>6 DEF PassAbandoned
  <2>7. CASE FinalizeCheckStale(p)
    BY <2>7 DEF FinalizeCheckStale
  <2>8. CASE FinalizeCountPending(p)
    BY <2>8 DEF FinalizeCountPending
  <2>9. CASE FinalizeRebuild(p)
    <3> DEFINE scope == IF pass_pc[p] = "entire" THEN Sessions ELSE rollups_pending
    <3>1. RebuildRollups(scope) /\ scope \in SUBSET Sessions
      BY <2>9 DEF FinalizeRebuild
    <3>2. running
      BY <2>9 DEF FinalizeRebuild
    <3>3. \A k \in Sessions : rolled[k] /= facts[k] => k \in scope
      BY <3>2
    <3>4. rolled' = facts /\ facts' = facts /\ rolled' \in [Sessions -> 0..MaxEvents]
      BY ONLY <3>1, <3>3, RebuildIsExact, TypeOK
    <3>5. /\ rollups_stale' = FALSE /\ rollups_pending' = {}
          /\ UNCHANGED <<transcript, running, memoryVars, current_scan, pass_kind,
                         pass_seen, pass_outcomes, watch_item>>
      BY <2>9, <3>1 DEF FinalizeRebuild, RebuildRollups
    <3>6. pass_pc' \in [Passes -> PassPCs]
      BY <2>9 DEF FinalizeRebuild
    <3>7. TypeOK' /\ DownIsIdle'
      BY <3>2, <3>4, <3>5, <3>6
    <3>8. NeverOvercounted' /\ ReadOnlyQueryIsExact' /\ LagIsPending'
      BY <3>4, <3>5
    <3> QED BY <3>7, <3>8
  <2>10. CASE FinalizeFails(p)
    BY <2>10 DEF FinalizeFails
  <2>11. CASE FinalizeClearMarkers(p)
    BY <2>11 DEF FinalizeClearMarkers
  <2> QED
    BY ONLY <1>4, <2>1, <2>2, <2>3, <2>4, <2>5, <2>6, <2>7, <2>8, <2>9, <2>10,
            <2>11 DEF PassStep
<1>5. CASE WatcherStep
  <2>1. ASSUME NEW k \in Sessions, NEW parsed \in 0..MaxEvents,
               parsed <= transcript[k], WatcherCommit(k, parsed)
        PROVE  IInv'
    <3>1. /\ facts' = [facts EXCEPT ![k] = IF parsed > @ THEN parsed ELSE @]
          /\ rolled' = [rolled EXCEPT ![k] =
                          IF parsed > facts[k] THEN @ + (parsed - facts[k]) ELSE @]
          /\ UNCHANGED <<transcript, rollups_stale, rollups_pending, running,
                         rollup_deferred_stale, ledger_stale, passVars>>
          /\ watch_item' = k
      BY <2>1 DEF WatcherCommit
    <3>2. /\ \A j \in Sessions \ {k} : rolled'[j] = rolled[j] /\ facts'[j] = facts[j]
          /\ parsed > facts[k] => rolled'[k] = rolled[k] + (parsed - facts[k])
                                  /\ facts'[k] = parsed
          /\ ~(parsed > facts[k]) => rolled'[k] = rolled[k] /\ facts'[k] = facts[k]
      BY <3>1
    <3>3. NeverOvercounted'
      BY <2>1, <3>1, <3>2
    <3>4. facts' \in [Sessions -> 0..MaxEvents] /\ rolled' \in [Sessions -> 0..MaxEvents]
      <4>1. \A j \in Sessions : facts'[j] \in 0..MaxEvents /\ rolled'[j] \in 0..MaxEvents
        BY <2>1, <3>2
      <4>2. /\ facts' = [j \in Sessions |-> facts'[j]]
            /\ rolled' = [j \in Sessions |-> rolled'[j]]
        BY <3>1
      <4> QED BY <4>1, <4>2
    <3>5. TypeOK'
      BY <3>1, <3>4
    <3>6. \A j \in Sessions : (rolled'[j] = facts'[j]) <=> (rolled[j] = facts[j])
      BY <3>2
    <3>7. ReadOnlyQueryIsExact'
      <4> SUFFICES ASSUME ~rollups_stale' PROVE rolled' = facts'
        OBVIOUS
      <4>1. \A j \in Sessions : rolled'[j] = facts'[j]
        BY <3>1, <3>6
      <4> QED BY <3>4, <4>1
    <3>8. LagIsPending' /\ DownIsIdle'
      BY <3>1, <3>6
    <3> QED BY <3>3, <3>5, <3>7, <3>8
  <2>2. CASE WatcherApply
    BY <2>2 DEF WatcherApply
  <2>3. ASSUME NEW k \in Sessions, WatcherFails(k) PROVE IInv'
    BY <2>3 DEF WatcherFails
  <2> QED BY ONLY <1>5, <2>1, <2>2, <2>3 DEF WatcherStep
<1>6. CASE UNCHANGED vars
  BY <1>6 DEF vars
<1> QED BY ONLY [Next]_vars, <1>1, <1>2, <1>3, <1>4, <1>5, <1>6 DEF Next

\* IInv holds in every reachable state.
LEMMA InductiveInvariant == Spec => []IInv
  BY InitIInv, IInvPreserved, PTL DEF Spec

-----------------------------------------------------------------------------
\* Every variable keeps its type; in particular no additive rollup update
\* leaves the range of the events.
THEOREM TypeCorrect == Spec => []TypeOK
  BY InductiveInvariant, PTL DEF IInv

\* No interleaving of watcher, scans, rebuilds and crashes makes a rollup of
\* rollup_token_totals count an event twice.
THEOREM NeverOvercountedHolds == Spec => []NeverOvercounted
  BY InductiveInvariant, PTL DEF IInv

\* validate_query_ledger lets a read-only query through only when every rollup
\* is exact.
THEOREM ReadOnlyQueryIsExactHolds == Spec => []ReadOnlyQueryIsExact
  BY InductiveInvariant, PTL DEF IInv

\* The scoped rebuild of the scan-completion path misses no rollup.
THEOREM LagIsPendingHolds == Spec => []LagIsPending
  BY InductiveInvariant, PTL DEF IInv

\* Facts only grow, and open_with_progress hands out an archive whose rollups
\* are exact.
LEMMA OpenServesExactStep ==
    ASSUME IInv, [Next]_vars
    PROVE  /\ \A k \in Sessions : facts[k] <= facts'[k]
           /\ ~running /\ running' => rolled' = facts'
<1> USE MaxEventsAssumption
<1> USE DEF IInv, TypeOK, DownIsIdle, sourceVars, ledgerVars, memoryVars, passVars
<1>1. CASE OpenHistory
  <2>1. CASE rollups_stale
    <3>1. RebuildRollups(Sessions)
      BY <1>1, <2>1 DEF OpenHistory
    <3>2. rolled' = facts /\ facts' = facts
      BY <3>1, RebuildIsExact
    <3> QED BY <3>2
  <2>2. CASE ~rollups_stale
    BY <1>1, <2>2 DEF OpenHistory, ReadOnlyQueryIsExact
  <2> QED BY <2>1, <2>2
<1>2. CASE Crash
  BY <1>2 DEF Crash
<1>3. ASSUME NEW k \in Sessions, AppendTranscript(k)
      PROVE  facts' = facts /\ running' = running
  BY <1>3 DEF AppendTranscript
<1>4. ASSUME NEW p \in Passes, PassStep(p)
      PROVE  running' = running /\ \A k \in Sessions : facts[k] <= facts'[k]
  <2>1. ASSUME NEW batch \in SUBSET Sessions, NEW rewritten \in SUBSET Sessions,
               NEW parsed \in [batch -> 0..MaxEvents],
               BulkCommit(p, batch, parsed, rewritten)
        PROVE  running' = running /\ \A k \in Sessions : facts[k] <= facts'[k]
    BY <2>1 DEF BulkCommit, FactsChanged
  <2>2. CASE UNCHANGED <<facts, running>>
    BY <2>2
  <2>3. FinalizeRebuild(p) => UNCHANGED <<facts, running>>
    BY DEF FinalizeRebuild, RebuildRollups
  <2> QED
    BY <1>4, <2>1, <2>2, <2>3
       DEF PassStep, BeginScan, BeginRebuild, BulkFails, ApplyOutcome, PassAbandoned,
           FinalizeCheckStale, FinalizeCountPending, FinalizeFails, FinalizeClearMarkers
<1>5. CASE WatcherStep
  BY <1>5 DEF WatcherStep, WatcherCommit, WatcherApply, WatcherFails
<1>6. CASE UNCHANGED vars
  BY <1>6 DEF vars
<1> QED BY <1>1, <1>2, <1>3, <1>4, <1>5, <1>6 DEF Next

\* A step of any thread, a crash included, takes no facts away, and a store
\* that has been opened serves exact rollups.
THEOREM OpenServesExactRollupsHolds == Spec => OpenServesExactRollups
<1>1. IInv /\ [Next]_vars
      => [/\ \A k \in Sessions : facts[k] <= facts'[k]
          /\ ~running /\ running' => rolled' = facts']_vars
  BY OpenServesExactStep
<1> QED BY InductiveInvariant, <1>1, PTL DEF Spec, OpenServesExactRollups
=============================================================================
