---------------------------- MODULE History_proofs ----------------------------
(***************************************************************************)
(* Proofs, for every value of the constants, of the safety properties of   *)
(* the durable history: who may write it (module DurableWriters), and what *)
(* it keeps about its sessions (the modules that MCCatalog composes).      *)
(***************************************************************************)
EXTENDS DurableWriters, MCCatalog, FiniteSetTheorems, SequenceTheorems, TLAPS

-----------------------------------------------------------------------------
(* The exclusive writers of the durable history.                           *)

\* Which call is at which program counter.
KindOK ==
    \A r \in Requests :
        /\ req_pc[r] = "idle" <=> req_kind[r] = "none"
        /\ req_pc[r] = "locked" => req_kind[r] = "set_config"
        /\ req_pc[r] \in {"starting", "running", "vacuuming"} =>
               req_kind[r] = "rebuild"
        /\ req_pc[r] \in {"checking", "opening", "attached"} =>
               req_kind[r] = "reopen"
        /\ req_pc[r] = "invalidated" => req_kind[r] \in {"set_config", "reopen"}
        /\ req_pc[r] \in {"reserved", "leaving"} =>
               req_kind[r] \in {"rebuild", "purge", "reopen"}

\* A call that has not spawned its scan yet has none.
SpawnOnce ==
    \A r \in Requests :
        req_pc[r] \notin {"leaving", "done"} => scan_pc[r] = "none"

\* Unless two scans have overlapped, the scan flag tells the truth: there is
\* at most one scan on the path, and while there is one the flag is set.
ScanFlagIsExact ==
    ~overlapped =>
        /\ \A s, t \in Scans : Scanning(s) /\ Scanning(t) => s = t
        /\ \A s \in Scans : Scanning(s) => durable_writers.scan

\* The cancel flag seen by a rebuild thread was set for that rebuild, from the
\* moment rebuild_history has cleared it.
CancelIsFresh ==
    \A r \in Requests :
        /\ req_pc[r] \in {"starting", "running"}
        /\ rebuild_cancel_requested
        => r \in cancelled_by

\* While a thread is opening the archive the archive is Pending, and the
\* opening of setup and a reopening never coincide.
OpeningIsPending ==
    /\ opener = "opening" => history = "Pending"
    /\ \A r \in Requests :
           req_pc[r] = "opening" => history = "Pending" /\ opener = "done"

\* The inductive invariant.
IInv ==
    /\ TypeOK
    /\ KindOK
    /\ SpawnOnce
    /\ ExclusiveOwner
    /\ ScanFlagHasOwner
    /\ ScanFlagIsExact
    /\ SingleScanExcludesRebuild
    /\ BusyStatusHasOwner
    /\ CancelIsFresh
    /\ OpeningIsPending


(* The inductive step, one step per action.                                *)
LEMMA IInvPreserved == ASSUME IInv, [Next]_vars PROVE IInv'
<1> USE DEF IInv, TypeOK, KindOK, SpawnOnce, ExclusiveOwner, ScanFlagHasOwner,
            ScanFlagIsExact, SingleScanExcludesRebuild, BusyStatusHasOwner,
            CancelIsFresh, OpeningIsPending, Scans, Kinds, ReadinessKinds,
            RebuildPhases, ScanPCs, ReqPCs, Exclusive, Scanning, Measuring,
            ScanGoto, ReqGoto, ScanWrites, scanFrame, rebuildFrame, reopenFrame,
            archiveVars, reqVars, scanVars, rebuildVars, auxVars
<1>1. CASE HistoryOpened
  BY <1>1 DEF HistoryOpened
<1>2. ASSUME NEW s \in Scans, ScanStep(s) PROVE IInv'
  <2>1. CASE ScanHistoryResolved(s)
    BY <2>1 DEF ScanHistoryResolved
  <2>2. CASE ScanReserve(s)
    <3>1. TypeOK'
      BY <2>2 DEF ScanReserve
    <3>2. KindOK' /\ SpawnOnce'
      BY <2>2 DEF ScanReserve
    <3>3. ExclusiveOwner'
      BY <2>2 DEF ScanReserve
    <3>4. ScanFlagHasOwner' /\ ScanFlagIsExact'
      BY <2>2 DEF ScanReserve
    <3>5. SingleScanExcludesRebuild'
      BY <2>2 DEF ScanReserve
    <3>6. BusyStatusHasOwner' /\ CancelIsFresh' /\ OpeningIsPending'
      BY <2>2 DEF ScanReserve
    <3> QED BY ONLY <3>1, <3>2, <3>3, <3>4, <3>5, <3>6 DEF IInv
  <2>3. CASE ScanCommitBatch(s)
    BY <2>3 DEF ScanCommitBatch
  <2>4. CASE ScanBatchesDone(s)
    BY <2>4 DEF ScanBatchesDone
  <2>5. CASE ScanSuperseded(s)
    BY <2>5 DEF ScanSuperseded
  <2>6. CASE ScanFinalizeRollups(s)
    BY <2>6 DEF ScanFinalizeRollups
  <2>7. CASE ScanFinishMissing(s)
    BY <2>7 DEF ScanFinishMissing
  <2>8. CASE ScanOverlay(s)
    BY <2>8 DEF ScanOverlay
  <2>9. CASE ScanRefreshWatcher(s)
    BY <2>9 DEF ScanRefreshWatcher
  <2>10. CASE ScanComplete(s)
    BY <2>10 DEF ScanComplete
  <2>11. CASE ScanRelease(s)
    <3>1. TypeOK'
      BY <2>11 DEF ScanRelease
    <3>2. KindOK' /\ SpawnOnce'
      BY <2>11 DEF ScanRelease
    <3>3. ExclusiveOwner'
      BY <2>11 DEF ScanRelease
    <3>4. ScanFlagHasOwner' /\ ScanFlagIsExact'
      BY <2>11 DEF ScanRelease
    <3>5. SingleScanExcludesRebuild'
      BY <2>11 DEF ScanRelease
    <3>6. BusyStatusHasOwner' /\ CancelIsFresh' /\ OpeningIsPending'
      BY <2>11 DEF ScanRelease
    <3> QED BY ONLY <3>1, <3>2, <3>3, <3>4, <3>5, <3>6 DEF IInv
  <2> QED BY ONLY <1>2, <2>1, <2>2, <2>3, <2>4, <2>5, <2>6, <2>7, <2>8, <2>9, <2>10, <2>11 DEF ScanStep
<1>3. ASSUME NEW r \in Requests, NEW kind \in {"rebuild", "purge", "reopen"},
             TryBeginRebuild(r, kind)
      PROVE  IInv'
  <2>1. TypeOK'
    BY <1>3 DEF TryBeginRebuild
  <2>2. KindOK' /\ SpawnOnce'
    BY <1>3 DEF TryBeginRebuild
  <2>3. ExclusiveOwner'
    BY <1>3 DEF TryBeginRebuild
  <2>4. ScanFlagHasOwner' /\ ScanFlagIsExact'
    BY <1>3 DEF TryBeginRebuild
  <2>5. SingleScanExcludesRebuild'
    BY <1>3 DEF TryBeginRebuild
  <2>6. BusyStatusHasOwner' /\ CancelIsFresh' /\ OpeningIsPending'
    BY <1>3 DEF TryBeginRebuild
  <2> QED BY ONLY <2>1, <2>2, <2>3, <2>4, <2>5, <2>6 DEF IInv
<1>4. ASSUME NEW r \in Requests, SetConfigLock(r) PROVE IInv'
  <2>1. TypeOK'
    BY <1>4 DEF SetConfigLock
  <2>2. KindOK' /\ SpawnOnce'
    BY <1>4 DEF SetConfigLock
  <2>3. ExclusiveOwner'
    BY <1>4 DEF SetConfigLock
  <2>4. ScanFlagHasOwner' /\ ScanFlagIsExact'
    BY <1>4 DEF SetConfigLock
  <2>5. SingleScanExcludesRebuild'
    BY <1>4 DEF SetConfigLock
  <2>6. BusyStatusHasOwner' /\ CancelIsFresh' /\ OpeningIsPending'
    BY <1>4 DEF SetConfigLock
  <2> QED BY ONLY <2>1, <2>2, <2>3, <2>4, <2>5, <2>6 DEF IInv
<1>5. ASSUME NEW r \in Requests, RequestStep(r) PROVE IInv'
  <2>1. CASE ReleaseRebuild(r)
    <3>1. TypeOK'
      BY <2>1 DEF ReleaseRebuild
    <3>2. KindOK' /\ SpawnOnce'
      BY <2>1 DEF ReleaseRebuild
    <3>3. ExclusiveOwner'
      BY <2>1 DEF ReleaseRebuild
    <3>4. ScanFlagHasOwner' /\ ScanFlagIsExact'
      BY <2>1 DEF ReleaseRebuild
    <3>5. SingleScanExcludesRebuild'
      BY <2>1 DEF ReleaseRebuild
    <3>6. BusyStatusHasOwner' /\ CancelIsFresh' /\ OpeningIsPending'
      BY <2>1 DEF ReleaseRebuild
    <3> QED BY ONLY <3>1, <3>2, <3>3, <3>4, <3>5, <3>6 DEF IInv
  <2>2. CASE RebuildResetCancel(r)
    <3>1. TypeOK'
      BY <2>2 DEF RebuildResetCancel
    <3>2. KindOK' /\ SpawnOnce'
      BY <2>2 DEF RebuildResetCancel
    <3>3. ExclusiveOwner'
      BY <2>2 DEF RebuildResetCancel
    <3>4. ScanFlagHasOwner' /\ ScanFlagIsExact'
      BY <2>2 DEF RebuildResetCancel
    <3>5. SingleScanExcludesRebuild'
      BY <2>2 DEF RebuildResetCancel
    <3>6. BusyStatusHasOwner' /\ CancelIsFresh' /\ OpeningIsPending'
      BY <2>2 DEF RebuildResetCancel
    <3> QED BY ONLY <3>1, <3>2, <3>3, <3>4, <3>5, <3>6 DEF IInv
  <2>3. CASE RebuildStart(r)
    BY <2>3 DEF RebuildStart
  <2>4. CASE RebuildReparsed(r)
    BY <2>4 DEF RebuildReparsed
  <2>5. CASE RebuildCancelled(r)
    BY <2>5 DEF RebuildCancelled
  <2>6. CASE RebuildFailed(r)
    BY <2>6 DEF RebuildFailed
  <2>7. CASE RebuildVacuumed(r)
    BY <2>7 DEF RebuildVacuumed
  <2>8. CASE PurgeRetained(r)
    BY <2>8 DEF PurgeRetained
  <2>9. CASE ReopenLockConfig(r)
    BY <2>9 DEF ReopenLockConfig
  <2>10. CASE ReopenPrepare(r)
    BY <2>10 DEF ReopenPrepare
  <2>11. CASE ReopenRefused(r)
    BY <2>11 DEF ReopenRefused
  <2>12. CASE ReopenFailed(r)
    BY <2>12 DEF ReopenFailed
  <2>13. CASE ReopenAttach(r)
    BY <2>13 DEF ReopenAttach
  <2>14. CASE SetConfigKeepSources(r)
    BY <2>14 DEF SetConfigKeepSources
  <2>15. CASE AdvanceScanGeneration(r)
    BY <2>15 DEF AdvanceScanGeneration
  <2>16. CASE SpawnScan(r)
    <3>1. TypeOK'
      BY <2>16 DEF SpawnScan
    <3>2. KindOK' /\ SpawnOnce'
      BY <2>16 DEF SpawnScan
    <3>3. ExclusiveOwner'
      BY <2>16 DEF SpawnScan
    <3>4. ScanFlagHasOwner' /\ ScanFlagIsExact'
      BY <2>16 DEF SpawnScan
    <3>5. SingleScanExcludesRebuild'
      BY <2>16 DEF SpawnScan
    <3>6. BusyStatusHasOwner' /\ CancelIsFresh' /\ OpeningIsPending'
      BY <2>16 DEF SpawnScan
    <3> QED BY ONLY <3>1, <3>2, <3>3, <3>4, <3>5, <3>6 DEF IInv
  <2> QED BY ONLY <1>5, <2>1, <2>2, <2>3, <2>4, <2>5, <2>6, <2>7, <2>8, <2>9,
  <2>10, <2>11, <2>12, <2>13, <2>14, <2>15, <2>16 DEF RequestStep
<1>6. CASE CancelHistoryRebuild
  BY <1>6 DEF CancelHistoryRebuild
<1>7. CASE UNCHANGED vars
  BY <1>7 DEF vars
<1> QED BY ONLY [Next]_vars, <1>1, <1>2, <1>3, <1>4, <1>5, <1>6, <1>7 DEF Next, RequestBegin

\* The state lib.rs's setup leaves satisfies the invariant.
LEMMA InitIInv == ASSUME Init PROVE IInv
<1> USE DEF Init, Scans, Exclusive, Scanning
<1>1. TypeOK
  BY DEF TypeOK, Kinds, ReadinessKinds, RebuildPhases, ScanPCs, ReqPCs
<1>2. KindOK
  BY DEF KindOK
<1>3. SpawnOnce
  BY StartupAssumption DEF SpawnOnce
<1>4. ExclusiveOwner
  BY DEF ExclusiveOwner
<1>5. ScanFlagHasOwner /\ ScanFlagIsExact /\ SingleScanExcludesRebuild
  BY DEF ScanFlagHasOwner, ScanFlagIsExact, SingleScanExcludesRebuild
<1>6. BusyStatusHasOwner /\ CancelIsFresh /\ OpeningIsPending
  BY DEF BusyStatusHasOwner, CancelIsFresh, OpeningIsPending
<1> QED BY ONLY <1>1, <1>2, <1>3, <1>4, <1>5, <1>6 DEF IInv

\* IInv holds in every reachable state, for every set of requests.
LEMMA InductiveInvariant == Spec => []IInv
  BY InitIInv, IInvPreserved, PTL DEF Spec

-----------------------------------------------------------------------------
\* Every variable keeps its type (AppState's coordination fields).
THEOREM TypeCorrect == Spec => []TypeOK
  BY InductiveInvariant, PTL DEF IInv

\* However many calls race and whichever early return a thread takes: one owner
\* of the rebuild flag, no scan flag or busy status without the thread behind it,
\* and no scan beside a rebuild, purge or reopening but through overlapping scans.
THEOREM WritersExcludeHolds == Spec => []WritersExclude
<1>1. IInv => WritersExclude
  BY DEF IInv, WritersExclude
<1> QED BY <1>1, InductiveInvariant, PTL

\* cancel_history_rebuild never stops a rebuild that began after it.
THEOREM CancelWasForThisRebuildHolds == Spec => []CancelWasForThisRebuild
<1>1. IInv => CancelWasForThisRebuild
  BY DEF IInv, CancelIsFresh, CancelWasForThisRebuild
<1> QED BY <1>1, InductiveInvariant, PTL

\* No call and no thread takes a Ready archive away.
THEOREM ReadyIsStableHolds == Spec => ReadyIsStable
<1>1. ASSUME IInv, [Next]_vars PROVE history = "Ready" => history' = "Ready"
  <2> USE DEF scanFrame, rebuildFrame, reopenFrame, archiveVars
  <2>1. CASE HistoryOpened
    BY <1>1, <2>1 DEF HistoryOpened, IInv, OpeningIsPending
  <2>2. ASSUME NEW s \in Scans, ScanStep(s) PROVE UNCHANGED history
    BY <2>2 DEF ScanStep, ScanHistoryResolved, ScanReserve, ScanCommitBatch,
    ScanBatchesDone, ScanSuperseded, ScanFinalizeRollups, ScanFinishMissing,
    ScanOverlay, ScanRefreshWatcher, ScanComplete, ScanRelease
  <2>3. ASSUME NEW r \in Requests, RequestBegin(r) PROVE UNCHANGED history
    BY <2>3 DEF RequestBegin, TryBeginRebuild, SetConfigLock
  <2>4. ASSUME NEW r \in Requests, RequestStep(r)
        PROVE  history = "Ready" => history' = "Ready"
    BY <1>1, <2>4 DEF IInv, OpeningIsPending, RequestStep, ReleaseRebuild,
    RebuildResetCancel, RebuildStart, RebuildReparsed, RebuildCancelled,
    RebuildFailed, RebuildVacuumed, PurgeRetained, ReopenLockConfig,
    ReopenPrepare, ReopenRefused, ReopenFailed, ReopenAttach,
    SetConfigKeepSources, AdvanceScanGeneration, SpawnScan
  <2>5. CASE CancelHistoryRebuild
    BY <2>5 DEF CancelHistoryRebuild
  <2>6. CASE UNCHANGED vars
    BY <2>6 DEF vars
  <2> QED BY <1>1, <2>1, <2>2, <2>3, <2>4, <2>5, <2>6 DEF Next
<1> QED BY <1>1, InductiveInvariant, PTL DEF Spec, ReadyIsStable

-----------------------------------------------------------------------------
(* Lineage: which session a transcript belongs to.                         *)

\* Any paths and transcripts, observed and lost in any order.
LineageSpec == LineageInit /\ [][LineageNext]_lineageVars

TokenEvents == UNION {Range(h) : h \in Histories}
Fingerprints == {FirstEventFingerprint(t) : t \in Transcripts}
Lifecycles == {"present", "superseded", "retained"}
Rows == [fingerprint : Fingerprints, final : BOOLEAN, collision : BOOLEAN, lifecycle : Lifecycles,
         snapshot : Transcripts \cup {None}, facts : Histories \cup {<< >>}]

\* A stored row holds the history of its snapshot; one that is provisional, none.
Whole(held) ==
    /\ held \in Rows /\ held.snapshot # None /\ held.facts = held.snapshot.events
    /\ ~held.final => held.facts = << >> /\ held.fingerprint[2] = None

Finals(rows) == {k \in DOMAIN rows : rows[k].final}

SessionsAreWhole ==
    /\ IsFiniteSet(SessionKeys) /\ SessionKeys \subseteq Keys
    /\ sessions = [k \in SessionKeys |-> sessions[k]]
    /\ \A k \in SessionKeys : Whole(sessions[k]) /\ (sessions[k].collision <=> Cardinality(Finals(sessions)) > 1)

PlacesAgree ==
    /\ DOMAIN locations \subseteq Paths /\ locations = [p \in DOMAIN locations |-> locations[p]]
    /\ \A p \in DOMAIN locations :
          /\ DOMAIN locations[p] = {"key", "artifact", "present"} /\ locations[p].key \in SessionKeys
          /\ locations[p].artifact \in DOMAIN artifacts /\ artifacts[locations[p].artifact] = locations[p].key
    /\ \A a \in DOMAIN artifacts : a.owner # None => artifacts[a] = a.owner

\* What is seen at a place is part of its session, or could not be stored.
PlacesAreParts ==
    /\ observed \in [Paths -> Transcripts \cup {None}]
    /\ \A p \in DOMAIN locations : observed[p] # None =>
          \/ IsPrefix(observed[p].events, sessions[locations[p].key].facts)
          \/ CollisionKey(observed[p]) \in SessionKeys

LineageInv == SessionsAreWhole /\ PlacesAgree /\ PlacesAreParts

-----------------------------------------------------------------------------
\* Histories as sequences.
LEMMA HistoriesAreSeqs == \A h \in Histories \cup {<< >>} : h \in Seq(TokenEvents)
<1>1. ASSUME NEW h \in Histories PROVE h \in Seq(TokenEvents)
  <2>1. h \in Seq(Range(h)) /\ Range(h) \subseteq TokenEvents
    BY HistoriesAssumption DEF TokenEvents
  <2> QED BY <2>1
<1>2. << >> \in Seq(TokenEvents)
  BY EmptySeq
<1> QED BY <1>1, <1>2

LEMMA PrefixPointwise ==
    ASSUME NEW s \in Seq(TokenEvents), NEW t \in Seq(TokenEvents)
    PROVE  IsPrefix(s, t) <=> Len(s) <= Len(t) /\ \A i \in 1..Len(s) : s[i] = t[i]
<1>1. SubSeq(s, 1, Len(s)) = [i \in 1..Len(s) |-> s[i]]
  OBVIOUS
<1>2. Len(s) <= Len(t) => SubSeq(t, 1, Len(s)) = [i \in 1..Len(s) |-> t[i]]
  OBVIOUS
<1>3. ASSUME Len(s) <= Len(t), SubSeq(s, 1, Len(s)) = SubSeq(t, 1, Len(s)), NEW i \in 1..Len(s) PROVE s[i] = t[i]
  <2>1. [j \in 1..Len(s) |-> s[j]][i] = [j \in 1..Len(s) |-> t[j]][i]
    BY <1>1, <1>2, <1>3
  <2> QED BY <2>1
<1>4. ASSUME Len(s) <= Len(t), \A i \in 1..Len(s) : s[i] = t[i] PROVE SubSeq(s, 1, Len(s)) = SubSeq(t, 1, Len(s))
  BY <1>1, <1>2, <1>4
<1> QED BY <1>3, <1>4 DEF IsPrefix

LEMMA PrefixTransitive ==
    ASSUME NEW s \in Seq(TokenEvents), NEW t \in Seq(TokenEvents), NEW u \in Seq(TokenEvents),
           IsPrefix(s, t), IsPrefix(t, u)
    PROVE  IsPrefix(s, u)
<1>1. Len(s) <= Len(t) /\ Len(t) <= Len(u) /\ Len(s) \in Nat /\ Len(t) \in Nat /\ Len(u) \in Nat
  BY PrefixPointwise
<1>2. ASSUME NEW i \in 1..Len(s) PROVE s[i] = u[i]
  BY <1>1, PrefixPointwise
<1> QED BY <1>1, <1>2, PrefixPointwise

LEMMA EmptyIsPart ==
    ASSUME NEW s \in Seq(TokenEvents), NEW t \in Seq(TokenEvents), Len(s) = 0
    PROVE  IsPrefix(s, t)
<1>1. Len(s) <= Len(t) /\ 1..Len(s) = {}
  OBVIOUS
<1> QED BY <1>1, PrefixPointwise

LEMMA PrefixReflexive == ASSUME NEW s \in Seq(TokenEvents) PROVE IsPrefix(s, s)
  BY PrefixPointwise

\* Of two histories that share a lineage the shorter one is a part of the other.
LEMMA ShorterIsPart ==
    ASSUME NEW s \in Seq(TokenEvents), NEW t \in Seq(TokenEvents), HistoriesShareLineage(s, t), Len(s) <= Len(t)
    PROVE  IsPrefix(s, t)
<1>1. CASE IsPrefix(t, s)
  <2>1. Len(s) = Len(t) /\ \A i \in 1..Len(t) : t[i] = s[i]
    BY <1>1, PrefixPointwise
  <2> QED BY <2>1, PrefixPointwise
<1> QED BY <1>1 DEF HistoriesShareLineage

\* Appending what is new makes the longer one.
LEMMA NewEventsOnly ==
    ASSUME NEW s \in Seq(TokenEvents), NEW t \in Seq(TokenEvents), IsPrefix(s, t)
    PROVE  s \o SubSeq(t, Len(s) + 1, Len(t)) = t
<1> DEFINE rest == SubSeq(t, Len(s) + 1, Len(t))
           n == Len(t) - Len(s)
<1>1. Len(s) \in Nat /\ Len(t) \in Nat /\ Len(s) <= Len(t) /\ n \in Nat /\ \A i \in 1..Len(s) : s[i] = t[i]
  BY PrefixPointwise
<1>2. rest = [i \in 1..n |-> t[Len(s) + i]]
  BY <1>1
<1>3. rest \in Seq(TokenEvents) /\ Len(rest) = n /\ \A i \in 1..n : rest[i] = t[Len(s) + i]
  <2>1. \A i \in 1..n : t[Len(s) + i] \in TokenEvents
    BY <1>1
  <2> QED BY <1>1, <1>2, <2>1
<1> HIDE DEF rest
<1> DEFINE whole == s \o rest
<1>4. /\ whole \in Seq(TokenEvents) /\ Len(whole) = Len(t)
      /\ \A i \in 1..Len(t) : whole[i] = IF i <= Len(s) THEN s[i] ELSE rest[i - Len(s)]
  BY <1>1, <1>3, ConcatProperties
<1> HIDE DEF whole
<1>5. ASSUME NEW i \in 1..Len(t) PROVE whole[i] = t[i]
  <2>1. CASE i <= Len(s)
    BY <1>1, <1>4, <2>1
  <2>2. CASE ~(i <= Len(s))
    <3>1. i - Len(s) \in 1..n /\ whole[i] = rest[i - Len(s)]
      BY <1>1, <1>4, <2>2
    <3> QED BY <1>1, <1>3, <3>1
  <2> QED BY <2>1, <2>2
<1>6. whole = t
  BY <1>4, <1>5, SeqEqual
<1> QED BY <1>6 DEF rest, whole


-----------------------------------------------------------------------------
\* A snapshot that shares the row's lineage leaves the row whole, and a part of
\* what was there and what was seen.
LEMMA WithSnapshotKeeps ==
    ASSUME NEW held \in Rows, NEW t \in Transcripts,
           \/ held.snapshot = None /\ held.facts = << >>
           \/ held.snapshot # None /\ held.facts = held.snapshot.events /\ HistoriesShareLineage(t.events, held.facts),
           held.final \/ (t.events = << >> /\ held.facts = << >> /\ held.fingerprint[2] = None)
    PROVE  LET w == WithSnapshot(held, t) IN
           /\ Whole(w) /\ w.final = held.final
           /\ IsPrefix(held.facts, w.facts) /\ IsPrefix(t.events, w.facts)
<1> DEFINE f == held.facts
           e == t.events
<1>1. e \in Histories /\ e \in Seq(TokenEvents) /\ f \in Seq(TokenEvents) /\ Len(e) \in Nat /\ Len(f) \in Nat /\ t # None
  <2>1. e \in Histories /\ f \in Histories \cup {<< >>} /\ t # None
    BY LineageAssumption DEF Transcripts, Rows
  <2>2. e \in Seq(TokenEvents) /\ f \in Seq(TokenEvents)
    BY <2>1, HistoriesAreSeqs
  <2> HIDE DEF e, f
  <2> QED BY <2>1, <2>2
<1>2. CASE held.snapshot = None \/ Monotonic(t, held.snapshot)
  <2>1. IsPrefix(f, e)
    <3>1. CASE held.snapshot = None
      <4>1. Len(f) = 0
        BY <3>1
      <4> QED BY <1>1, <4>1, PrefixPointwise
    <3>2. CASE held.snapshot # None /\ Monotonic(t, held.snapshot)
      <4>1. Len(f) <= Len(e)
        BY <1>1, <3>2 DEF Monotonic
      <4>2. HistoriesShareLineage(f, e)
        BY <3>2 DEF HistoriesShareLineage
      <4> QED BY <1>1, <4>1, <4>2, ShorterIsPart
    <3> QED BY <1>2, <3>1, <3>2
  <2> DEFINE a == [held EXCEPT !.snapshot = t]
             b == [a EXCEPT !.facts = e]
             c == [b EXCEPT !.lifecycle = "present"]
  <2>2. WithSnapshot(held, t) = c
    <3>1. f \o SubSeq(e, Len(f) + 1, Len(e)) = e
      BY <1>1, <2>1, NewEventsOnly
    <3>2. WithSnapshot(held, t) = [held EXCEPT !.snapshot = t, !.facts = @ \o SubSeq(t.events, Len(@) + 1, Len(t.events)),
                                             !.lifecycle = "present"]
      BY <1>2 DEF WithSnapshot
    <3>3. [held EXCEPT !.snapshot = t, !.facts = @ \o SubSeq(t.events, Len(@) + 1, Len(t.events)),
                      !.lifecycle = "present"]
          = [held EXCEPT !.snapshot = t, !.facts = e, !.lifecycle = "present"]
      BY <3>1 DEF Rows
    <3>4. [held EXCEPT !.snapshot = t, !.facts = e, !.lifecycle = "present"] = c
      OBVIOUS
    <3> QED BY <3>2, <3>3, <3>4
  <2>3. a \in Rows /\ a.snapshot = t /\ a.facts = f /\ a.final = held.final /\ a.fingerprint = held.fingerprint
    BY DEF Rows
  <2> HIDE DEF a
  <2>4. b \in Rows /\ b.snapshot = t /\ b.facts = e /\ b.final = held.final /\ b.fingerprint = held.fingerprint
    BY <1>1, <2>3 DEF Rows
  <2> HIDE DEF b
  <2>5. c \in Rows /\ c.snapshot = t /\ c.facts = e /\ c.final = held.final /\ c.fingerprint = held.fingerprint
    BY <2>4 DEF Rows, Lifecycles
  <2> HIDE DEF c
  <2>6. Whole(c)
    BY <1>1, <2>5 DEF Whole
  <2>7. IsPrefix(e, c.facts) /\ IsPrefix(f, c.facts)
    BY <1>1, <2>1, <2>5, PrefixReflexive
  <2> QED BY <2>2, <2>5, <2>6, <2>7
<1>3. CASE held.snapshot # None /\ ~Monotonic(t, held.snapshot)
  <2> DEFINE c == [held EXCEPT !.lifecycle = "present"]
  <2>1. WithSnapshot(held, t) = c
    BY <1>3 DEF WithSnapshot
  <2>2. c \in Rows /\ c.snapshot = held.snapshot /\ c.facts = f /\ c.final = held.final /\ c.fingerprint = held.fingerprint
    BY DEF Rows, Lifecycles
  <2> HIDE DEF c
  <2>3. Whole(c)
    BY <1>3, <2>2 DEF Whole
  <2>4. Len(e) <= Len(f)
    BY <1>1, <1>3 DEF Monotonic
  <2>5. IsPrefix(e, f) /\ IsPrefix(f, f)
    BY <1>1, <1>3, <2>4, ShorterIsPart, PrefixReflexive
  <2> QED BY <2>1, <2>2, <2>3, <2>5
<1> QED BY <1>2, <1>3

-----------------------------------------------------------------------------
\* What reconcile_session finds of a row that is stored shares the row's history;
\* it makes a new one under a key that may be taken.
Shares(r, t) ==
    /\ r.row \in Rows /\ r.key \in Keys
    /\ r.row.final \/ (t.events = << >> /\ r.row.facts = << >> /\ r.row.fingerprint[2] = None)
    /\ \/ /\ r.row.snapshot = None /\ r.row.facts = << >>
          /\ r.key \in SessionKeys => r.key = CollisionKey(t)
       \/ /\ r.row.snapshot # None /\ r.key \in SessionKeys /\ r.row.facts = sessions[r.key].facts
          /\ r.row.facts = r.row.snapshot.events /\ HistoriesShareLineage(t.events, r.row.facts)

LEMMA EventsOfTranscripts ==
    ASSUME NEW t \in Transcripts
    PROVE  /\ t.events \in Histories /\ t.events \in Seq(TokenEvents)
           /\ FirstEventFingerprint(t) \in Fingerprints
           /\ FirstEventFingerprint(t)[2] = None <=> t.events = << >>
<1>1. t.events \in Histories /\ t.events \in Seq(TokenEvents)
  BY HistoriesAreSeqs DEF Transcripts
<1>2. t.events # << >> => Head(t.events) # None
  <2> DEFINE e == t.events
  <2>1. e \in Seq(Range(e)) /\ None \notin Range(e)
    BY <1>1, HistoriesAssumption
  <2> HIDE DEF e
  <2>2. e # << >> => Head(e) \in Range(e)
    BY <2>1
  <2> QED BY <2>1, <2>2 DEF e
<1> QED BY <1>1, <1>2 DEF FirstEventFingerprint, Fingerprints

LEMMA RefingerprintedShares ==
    ASSUME SessionsAreWhole, NEW k \in SessionKeys, NEW t \in Transcripts,
           HistoriesShareLineage(t.events, sessions[k].facts)
    PROVE  Shares(Refingerprinted(k, t), t)
<1> DEFINE a == [sessions[k] EXCEPT !.fingerprint = FirstEventFingerprint(t)]
           b == [a EXCEPT !.final = TRUE]
<1>1. Refingerprinted(k, t) = [key |-> k, row |-> b]
  BY DEF Refingerprinted
<1>2. /\ a \in Rows /\ a.snapshot = sessions[k].snapshot /\ a.facts = sessions[k].facts
      /\ a.snapshot # None /\ a.facts = a.snapshot.events
  BY EventsOfTranscripts DEF SessionsAreWhole, Whole, Rows
<1> HIDE DEF a
<1>3. b \in Rows /\ b.final /\ b.snapshot = a.snapshot /\ b.facts = a.facts
  BY <1>2 DEF Rows
<1> HIDE DEF b
<1> QED BY <1>1, <1>2, <1>3 DEF Shares, SessionsAreWhole

LEMMA ExistingShares ==
    ASSUME SessionsAreWhole, NEW k \in SessionKeys, NEW t \in Transcripts,
           HistoriesShareLineage(t.events, sessions[k].facts),
           sessions[k].final \/ sessions[k].fingerprint = FirstEventFingerprint(t)
    PROVE  Shares(Existing(k), t)
<1>1. Existing(k) = [key |-> k, row |-> sessions[k]]
  BY DEF Existing
<1>2. Whole(sessions[k]) /\ k \in Keys
  BY DEF SessionsAreWhole
<1>3. sessions[k].final \/ (t.events = << >> /\ sessions[k].facts = << >> /\ sessions[k].fingerprint[2] = None)
  BY <1>2, EventsOfTranscripts DEF Whole
<1> QED BY <1>1, <1>2, <1>3 DEF Shares, Whole

LEMMA NewRowShares ==
    ASSUME NEW t \in Transcripts
    PROVE  Shares([key |-> IF BaseKey \in SessionKeys THEN CollisionKey(t) ELSE BaseKey, row |-> NewRow(t)], t)
<1> DEFINE n == NewRow(t)
           k == IF BaseKey \in SessionKeys THEN CollisionKey(t) ELSE BaseKey
<1>1. n \in Rows /\ n.snapshot = None /\ n.facts = << >> /\ n.final = IsFinal(t) /\ n.fingerprint = FirstEventFingerprint(t)
  BY EventsOfTranscripts DEF NewRow, Rows, Lifecycles, IsFinal
<1>2. k \in Keys /\ (k \in SessionKeys => k = CollisionKey(t))
  BY EventsOfTranscripts DEF BaseKey, CollisionKey, Keys
<1> HIDE DEF n, k
<1>3. n.final \/ (t.events = << >> /\ n.fingerprint[2] = None)
  BY <1>1, EventsOfTranscripts DEF IsFinal
<1>4. Shares([key |-> k, row |-> n], t)
  BY <1>1, <1>2, <1>3 DEF Shares
<1> QED BY <1>4 DEF n, k

LEMMA ReconciledShares ==
    ASSUME SessionsAreWhole, NEW p \in Paths, NEW t \in Transcripts, NEW r \in Reconciled(p, t)
    PROVE  Shares(r, t)
<1>w. \A k \in SessionKeys : sessions[k].snapshot.events = sessions[k].facts /\ sessions[k].facts \in Seq(TokenEvents)
  BY HistoriesAreSeqs DEF SessionsAreWhole, Whole, Rows
<1>1. CASE \E k \in GainsFirstTurn(p, t) : r = Refingerprinted(k, t)
  <2>1. PICK k \in GainsFirstTurn(p, t) : r = Refingerprinted(k, t)
    BY <1>1
  <2>2. k \in SessionKeys /\ HistoriesShareLineage(t.events, sessions[k].facts)
    BY <1>w DEF GainsFirstTurn, Settled, BoundTo
  <2> QED BY <2>1, <2>2, RefingerprintedShares
<1>2. CASE \E k \in IsStaleCopy(p, t) : r = Existing(k)
  <2>1. PICK k \in IsStaleCopy(p, t) : r = Existing(k)
    BY <1>2
  <2>2. k \in SessionKeys /\ sessions[k].final /\ HistoriesShareLineage(t.events, sessions[k].facts)
    BY <1>w DEF IsStaleCopy, Settled, BoundTo
  <2> QED BY <2>1, <2>2, ExistingShares
<1>3. CASE \E k \in SameLineage(t) : r = Existing(k)
  <2>1. PICK k \in SameLineage(t) : r = Existing(k)
    BY <1>3
  <2>2. /\ k \in SessionKeys /\ sessions[k].fingerprint = FirstEventFingerprint(t)
        /\ HistoriesShareLineage(t.events, sessions[k].facts)
    BY <1>w DEF SameLineage
  <2> QED BY <2>1, <2>2, ExistingShares
<1>4. CASE \E k \in Provisional(p, t) : r = Refingerprinted(k, t)
  <2>1. PICK k \in Provisional(p, t) : r = Refingerprinted(k, t)
    BY <1>4
  <2>2. k \in SessionKeys /\ ~sessions[k].final
    BY DEF Provisional
  <2>3. sessions[k].facts = << >>
    BY <2>2 DEF SessionsAreWhole, Whole
  <2>4. << >> \in Seq(TokenEvents) /\ Len(<< >>) = 0
    BY EmptySeq
  <2>5. HistoriesShareLineage(t.events, sessions[k].facts)
    <3>1. IsPrefix(<< >>, t.events)
      BY <2>4, EventsOfTranscripts, EmptyIsPart
    <3> QED BY <2>3, <3>1 DEF HistoriesShareLineage
  <2> QED BY <2>1, <2>2, <2>5, RefingerprintedShares
<1>5. CASE r = [key |-> IF BaseKey \in SessionKeys THEN CollisionKey(t) ELSE BaseKey, row |-> NewRow(t)]
  BY <1>5, NewRowShares
<1> QED BY <1>1, <1>2, <1>3, <1>4, <1>5 DEF Reconciled

-----------------------------------------------------------------------------
LEMMA LineageInitial == LineageInit => LineageInv
<1> SUFFICES ASSUME LineageInit PROVE LineageInv
  OBVIOUS
<1>1. SessionKeys = {} /\ DOMAIN locations = {} /\ DOMAIN artifacts = {}
  BY DEF LineageInit, SessionKeys
<1>2. SessionsAreWhole
  BY <1>1, FS_EmptySet DEF SessionsAreWhole, LineageInit, SessionKeys
<1>3. PlacesAgree /\ PlacesAreParts
  BY <1>1 DEF PlacesAgree, PlacesAreParts, LineageInit
<1> QED BY <1>2, <1>3 DEF LineageInv

LEMMA LifecycleKeeps ==
    ASSUME NEW held, Whole(held), NEW l \in Lifecycles
    PROVE  LET c == [held EXCEPT !.lifecycle = l] IN
           Whole(c) /\ c.facts = held.facts /\ c.final = held.final /\ c.collision = held.collision
<1> DEFINE c == [held EXCEPT !.lifecycle = l]
<1>1. /\ c \in Rows /\ c.facts = held.facts /\ c.final = held.final /\ c.collision = held.collision
      /\ c.snapshot = held.snapshot /\ c.fingerprint = held.fingerprint
  BY DEF Whole, Rows
<1> HIDE DEF c
<1>2. Whole(c)
  BY <1>1 DEF Whole
<1> QED BY <1>1, <1>2 DEF c

LEMMA FlagKeeps ==
    ASSUME NEW held, Whole(held), NEW several \in BOOLEAN
    PROVE  LET c == [held EXCEPT !.collision = several] IN
           Whole(c) /\ c.facts = held.facts /\ c.final = held.final /\ c.collision = several
<1> DEFINE c == [held EXCEPT !.collision = several]
<1>1. /\ c \in Rows /\ c.facts = held.facts /\ c.final = held.final /\ c.collision = several
      /\ c.snapshot = held.snapshot /\ c.fingerprint = held.fingerprint
  BY DEF Whole, Rows
<1> HIDE DEF c
<1>2. Whole(c)
  BY <1>1 DEF Whole
<1> QED BY <1>1, <1>2 DEF c

\* An artifact that is found belongs to the session that asks for it.
LEMMA ArtifactOfKey ==
    ASSUME PlacesAgree, NEW t \in Transcripts, NEW k \in Keys
    PROVE  LET a == SourceArtifactKey(t, k) IN
           /\ a \in DOMAIN artifacts => artifacts[a] = k
           /\ a.owner # None => a.owner = k
<1> DEFINE base == [lineage |-> t.events, owner |-> None]
           own == [lineage |-> t.events, owner |-> k]
<1>1. own.owner = k /\ k # None /\ base.owner = None
  BY LineageAssumption
<1>2. own \in DOMAIN artifacts => artifacts[own] = k
  BY <1>1 DEF PlacesAgree
<1>3. SourceArtifactKey(t, k) = IF base \in DOMAIN artifacts /\ artifacts[base] # k THEN own ELSE base
  BY DEF SourceArtifactKey
<1> HIDE DEF own, base
<1> QED BY <1>1, <1>2, <1>3

\* What is stored for a session only grows, and what was seen there is a part of it.
LEMMA PartsStay ==
    ASSUME LineageInv, observed' \in [Paths -> Transcripts \cup {None}], SessionsAreWhole', PlacesAgree',
           SessionKeys \subseteq SessionKeys',
           \A k \in SessionKeys : IsPrefix(sessions[k].facts, sessions'[k].facts),
           NEW q \in DOMAIN locations, locations'[q].key = locations[q].key, observed'[q] = observed[q],
           observed[q] # None
    PROVE  \/ IsPrefix(observed'[q].events, sessions'[locations'[q].key].facts)
           \/ CollisionKey(observed'[q]) \in SessionKeys'
<1> DEFINE k == locations[q].key
           o == observed[q]
<1>1. k \in SessionKeys /\ k \in SessionKeys' /\ q \in Paths /\ o \in Transcripts
  BY DEF LineageInv, PlacesAgree, PlacesAreParts
<1>2. CASE IsPrefix(o.events, sessions[k].facts)
  <2>1. o.events \in Seq(TokenEvents)
    BY <1>1, EventsOfTranscripts
  <2>2. sessions[k].facts \in Seq(TokenEvents)
    BY <1>1, HistoriesAreSeqs DEF LineageInv, SessionsAreWhole, Whole, Rows
  <2>3. sessions'[k].facts \in Seq(TokenEvents)
    BY <1>1, HistoriesAreSeqs DEF SessionsAreWhole, Whole, Rows, SessionKeys
  <2>4. IsPrefix(sessions[k].facts, sessions'[k].facts)
    BY <1>1
  <2>5. IsPrefix(o.events, sessions'[k].facts)
    BY <1>2, <2>1, <2>2, <2>3, <2>4, PrefixTransitive
  <2> QED BY <2>5
<1>3. CASE CollisionKey(o) \in SessionKeys
  BY <1>3
<1> QED BY <1>1, <1>2, <1>3 DEF LineageInv, PlacesAreParts

LEMMA ObserveKeeps ==
    ASSUME LineageInv, NEW p \in Paths, NEW t \in Transcripts, Observe(p, t)
    PROVE  LineageInv'
<1> DEFINE Artifact(r) == SourceArtifactKey(t, r.key)
           Places(r) == Upsert(locations, p, [key |-> r.key, artifact |-> Artifact(r), present |-> TRUE])
           Upserted(r) == Upsert(sessions, r.key, WithSnapshot(r.row, t))
<1>1. PICK r \in Reconciled(p, t) :
          IF r.row.snapshot = None /\ r.key \in SessionKeys
          THEN UNCHANGED <<sessions, artifacts, locations>>
          ELSE /\ artifacts' = IF Artifact(r) \in DOMAIN artifacts THEN artifacts
                               ELSE Upsert(artifacts, Artifact(r), r.key)
               /\ locations' = Places(r)
               /\ sessions' = Flagged(Displaced(Upserted(r), Places(r), p))
  BY DEF Observe
<1>2. Shares(r, t)
  BY <1>1, ReconciledShares DEF LineageInv
<1>3. observed' \in [Paths -> Transcripts \cup {None}] /\ observed'[p] = t /\ t # None
      /\ \A q \in Paths : q # p => observed'[q] = observed[q]
  BY LineageAssumption DEF Observe, LineageInv, PlacesAreParts
<1>4. CASE r.row.snapshot = None /\ r.key \in SessionKeys
  <2>1. UNCHANGED <<sessions, artifacts, locations>>
    BY <1>1, <1>4
  <2>2. CollisionKey(t) \in SessionKeys
    BY <1>2, <1>4 DEF Shares
  <2>3. SessionsAreWhole' /\ PlacesAgree'
    BY <2>1 DEF LineageInv, SessionsAreWhole, PlacesAgree, SessionKeys, Finals
  <2>4. PlacesAreParts'
    BY <1>3, <2>1, <2>2 DEF LineageInv, PlacesAreParts, PlacesAgree, SessionKeys
  <2> QED BY <2>3, <2>4 DEF LineageInv
<1>5. CASE ~(r.row.snapshot = None /\ r.key \in SessionKeys)
  <2> DEFINE key == r.key
             artifact == Artifact(r)
             places == Places(r)
             rows == Upserted(r)
             w == WithSnapshot(r.row, t)
             displaced == Displaced(rows, places, p)
             several == Cardinality(Finals(displaced)) > 1
  <2>1. /\ artifacts' = IF artifact \in DOMAIN artifacts THEN artifacts ELSE Upsert(artifacts, artifact, key)
        /\ locations' = places /\ sessions' = Flagged(displaced)
    BY <1>1, <1>5
  <2>2. key \in Keys /\ r.row \in Rows /\ (key \in SessionKeys => r.row.facts = sessions[key].facts)
    BY <1>2, <1>5 DEF Shares
  <2>3. Whole(w) /\ IsPrefix(r.row.facts, w.facts) /\ IsPrefix(t.events, w.facts)
    <3>1. /\ \/ r.row.snapshot = None /\ r.row.facts = << >>
             \/ /\ r.row.snapshot # None /\ r.row.facts = r.row.snapshot.events
                /\ HistoriesShareLineage(t.events, r.row.facts)
          /\ r.row.final \/ (t.events = << >> /\ r.row.facts = << >> /\ r.row.fingerprint[2] = None)
      BY <1>2 DEF Shares
    <3> QED BY <2>2, <3>1, WithSnapshotKeeps
  <2>4. /\ DOMAIN rows = SessionKeys \cup {key} /\ rows[key] = w
        /\ \A k \in SessionKeys : k # key => rows[k] = sessions[k]
    BY DEF SessionKeys, Upsert
  <2>5. /\ DOMAIN places = DOMAIN locations \cup {p} /\ places = [q \in DOMAIN places |-> places[q]]
        /\ places[p] = [key |-> key, artifact |-> artifact, present |-> TRUE]
        /\ \A q \in DOMAIN locations : q # p => places[q] = locations[q]
    BY DEF Upsert
  <2>6. \A k \in DOMAIN rows : Whole(rows[k])
    BY <2>3, <2>4 DEF LineageInv, SessionsAreWhole
  <2> HIDE DEF w, rows, places, artifact
  <2>7. /\ DOMAIN displaced = DOMAIN rows
        /\ \A k \in DOMAIN rows : Whole(displaced[k]) /\ displaced[k].facts = rows[k].facts
    <3>1. DOMAIN displaced = DOMAIN rows
      BY DEF Displaced
    <3>2. ASSUME NEW k \in DOMAIN rows PROVE Whole(displaced[k]) /\ displaced[k].facts = rows[k].facts
      <4>1. displaced[k] = rows[k] \/ displaced[k] = [rows[k] EXCEPT !.lifecycle = "superseded"]
        BY DEF Displaced
      <4>2. LET c == [rows[k] EXCEPT !.lifecycle = "superseded"] IN
            Whole(c) /\ c.facts = rows[k].facts /\ c.final = rows[k].final /\ c.collision = rows[k].collision
        BY <2>6, LifecycleKeeps DEF Lifecycles
      <4> QED BY <2>6, <4>1, <4>2
    <3> QED BY <3>1, <3>2
  <2> HIDE DEF displaced
  <2>8. /\ sessions' = [k \in DOMAIN displaced |-> [displaced[k] EXCEPT !.collision = several]]
        /\ several \in BOOLEAN
    BY <2>1 DEF Flagged, Finals
  <2> HIDE DEF several
  <2>9. /\ SessionKeys' = SessionKeys \cup {key}
        /\ \A k \in SessionKeys' : /\ Whole(sessions'[k]) /\ sessions'[k].facts = rows[k].facts
                                   /\ sessions'[k].final = displaced[k].final /\ sessions'[k].collision = several
    <3>1. SessionKeys' = DOMAIN rows /\ DOMAIN sessions' = DOMAIN rows
      BY <2>7, <2>8 DEF SessionKeys
    <3>2. ASSUME NEW k \in DOMAIN rows
          PROVE  /\ Whole(sessions'[k]) /\ sessions'[k].facts = rows[k].facts
                 /\ sessions'[k].final = displaced[k].final /\ sessions'[k].collision = several
      <4>1. Whole(displaced[k])
        BY <2>7
      <4>2. LET c == [displaced[k] EXCEPT !.collision = several] IN
            Whole(c) /\ c.facts = displaced[k].facts /\ c.final = displaced[k].final /\ c.collision = several
        BY <2>8, <4>1, FlagKeeps
      <4>3. sessions'[k] = [displaced[k] EXCEPT !.collision = several]
        BY <2>7, <2>8
      <4> QED BY <2>7, <4>2, <4>3
    <3> QED BY <2>4, <3>1, <3>2
  <2>10. several <=> Cardinality(Finals(sessions')) > 1
    <3>1. Finals(sessions') = Finals(displaced)
      BY <2>4, <2>7, <2>9 DEF Finals, SessionKeys
    <3> QED BY <3>1 DEF several
  <2>11. SessionsAreWhole'
    <3>1. IsFiniteSet(SessionKeys') /\ SessionKeys' \subseteq Keys
      BY <2>2, <2>9, FS_AddElement DEF LineageInv, SessionsAreWhole
    <3>2. sessions' = [k \in SessionKeys' |-> sessions'[k]]
      BY <2>8 DEF SessionKeys
    <3> QED BY <2>9, <2>10, <3>1, <3>2 DEF SessionsAreWhole
  <2>12. /\ artifact \in DOMAIN artifacts' /\ artifacts'[artifact] = key
         /\ \A a \in DOMAIN artifacts : a \in DOMAIN artifacts' /\ artifacts'[a] = artifacts[a]
         /\ \A a \in DOMAIN artifacts' : a.owner # None => artifacts'[a] = a.owner
    <3>1. /\ artifact \in DOMAIN artifacts => artifacts[artifact] = key
          /\ artifact.owner # None => artifact.owner = key
      BY <2>2, ArtifactOfKey DEF artifact, LineageInv
    <3>2. \A a \in DOMAIN artifacts : a.owner # None => artifacts[a] = a.owner
      BY DEF LineageInv, PlacesAgree
    <3>3. CASE artifact \in DOMAIN artifacts
      BY <2>1, <3>1, <3>2, <3>3
    <3>4. CASE artifact \notin DOMAIN artifacts
      <4>1. /\ DOMAIN artifacts' = DOMAIN artifacts \cup {artifact} /\ artifacts'[artifact] = key
            /\ \A a \in DOMAIN artifacts : artifacts'[a] = artifacts[a]
        BY <2>1, <3>4 DEF Upsert
      <4> QED BY <3>1, <3>2, <4>1
    <3> QED BY <3>3, <3>4
  <2>13. PlacesAgree'
    <3>1. DOMAIN locations' \subseteq Paths /\ locations' = [q \in DOMAIN locations' |-> locations'[q]]
      BY <2>1, <2>5 DEF LineageInv, PlacesAgree
    <3>2. ASSUME NEW q \in DOMAIN locations'
          PROVE  /\ DOMAIN locations'[q] = {"key", "artifact", "present"} /\ locations'[q].key \in SessionKeys'
                 /\ locations'[q].artifact \in DOMAIN artifacts' /\ artifacts'[locations'[q].artifact] = locations'[q].key
      <4>1. CASE q = p
        <5>1. locations'[q] = [key |-> key, artifact |-> artifact, present |-> TRUE]
          BY <2>1, <2>5, <4>1
        <5> QED BY <2>9, <2>12, <5>1
      <4>2. CASE q # p
        <5>1. q \in DOMAIN locations /\ locations'[q] = locations[q]
          BY <2>1, <2>5, <4>2
        <5> QED BY <2>9, <2>12, <5>1 DEF LineageInv, PlacesAgree
      <4> QED BY <4>1, <4>2
    <3> QED BY <2>12, <3>1, <3>2 DEF PlacesAgree
  <2>14. \A k \in SessionKeys : IsPrefix(sessions[k].facts, sessions'[k].facts)
    <3> SUFFICES ASSUME NEW k \in SessionKeys PROVE IsPrefix(sessions[k].facts, sessions'[k].facts)
      OBVIOUS
    <3>1. CASE k = key
      BY <2>2, <2>3, <2>4, <2>9, <3>1
    <3>2. CASE k # key
      <4>1. sessions'[k].facts = sessions[k].facts
        BY <2>4, <2>9, <3>2
      <4>2. sessions[k].facts \in Seq(TokenEvents)
        BY HistoriesAreSeqs DEF LineageInv, SessionsAreWhole, Whole, Rows
      <4> QED BY <4>1, <4>2, PrefixReflexive
    <3> QED BY <3>1, <3>2
  <2>15. ASSUME NEW q \in DOMAIN locations', observed'[q] # None
         PROVE  \/ IsPrefix(observed'[q].events, sessions'[locations'[q].key].facts)
                \/ CollisionKey(observed'[q]) \in SessionKeys'
    <3>1. CASE q = p
      <4>1. locations'[q].key = key /\ observed'[q] = t /\ sessions'[key].facts = w.facts
        BY <1>3, <2>1, <2>4, <2>5, <2>9, <3>1
      <4> QED BY <2>3, <4>1
    <3>2. CASE q # p
      <4>1. q \in DOMAIN locations /\ q \in Paths /\ locations'[q] = locations[q] /\ observed'[q] = observed[q]
        BY <1>3, <2>1, <2>5, <3>2 DEF LineageInv, PlacesAgree
      <4> QED BY <1>3, <2>9, <2>11, <2>13, <2>14, <2>15, <4>1, PartsStay
    <3> QED BY <3>1, <3>2
  <2>16. PlacesAreParts'
    BY <1>3, <2>15 DEF PlacesAreParts
  <2> QED BY <2>11, <2>13, <2>16 DEF LineageInv
<1> QED BY <1>4, <1>5

LEMMA MarkMissingKeeps ==
    ASSUME LineageInv, NEW p \in Paths, MarkMissing(p)
    PROVE  LineageInv'
<1> DEFINE key == locations[p].key
           places == [locations EXCEPT ![p].present = FALSE]
           held == sessions[key]
           retained == [held EXCEPT !.lifecycle = "retained"]
<1>1. /\ p \in DOMAIN locations /\ locations' = places /\ artifacts' = artifacts
      /\ sessions' = sessions \/ sessions' = [sessions EXCEPT ![key].lifecycle = "retained"]
      /\ observed' = [observed EXCEPT ![p] = None]
  BY DEF MarkMissing
<1>2. key \in SessionKeys
  BY <1>1 DEF LineageInv, PlacesAgree
<1>3. sessions' = sessions \/ sessions' = [sessions EXCEPT ![key] = retained]
  <2>1. [sessions EXCEPT ![key].lifecycle = "retained"] = [sessions EXCEPT ![key] = retained]
    OBVIOUS
  <2> QED BY <1>1, <2>1
<1>4. Whole(held) /\ held.facts = sessions[key].facts
  BY <1>2 DEF LineageInv, SessionsAreWhole
<1>5. LET c == [held EXCEPT !.lifecycle = "retained"] IN
      Whole(c) /\ c.facts = held.facts /\ c.final = held.final /\ c.collision = held.collision
  BY <1>4, LifecycleKeeps DEF Lifecycles
<1>6. Whole(retained) /\ retained.facts = held.facts /\ retained.final = held.final /\ retained.collision = held.collision
  BY <1>5
<1> HIDE DEF retained
<1>7. /\ SessionKeys' = SessionKeys /\ sessions' = [k \in SessionKeys |-> sessions'[k]]
      /\ \A k \in SessionKeys :
            /\ Whole(sessions'[k]) /\ sessions'[k].facts = sessions[k].facts
            /\ sessions'[k].final = sessions[k].final /\ sessions'[k].collision = sessions[k].collision
  <2>1. CASE sessions' = sessions
    BY <2>1 DEF LineageInv, SessionsAreWhole, SessionKeys
  <2>2. CASE sessions' = [sessions EXCEPT ![key] = retained]
    <3>1. SessionKeys' = SessionKeys /\ sessions' = [k \in SessionKeys |-> sessions'[k]]
      BY <2>2 DEF SessionKeys
    <3>2. ASSUME NEW k \in SessionKeys
          PROVE  /\ Whole(sessions'[k]) /\ sessions'[k].facts = sessions[k].facts
                 /\ sessions'[k].final = sessions[k].final /\ sessions'[k].collision = sessions[k].collision
      <4>1. CASE k = key
        <5>1. sessions'[k] = retained
          BY <2>2, <4>1 DEF SessionKeys
        <5> QED BY <1>6, <4>1, <5>1
      <4>2. CASE k # key
        <5>1. sessions'[k] = sessions[k]
          BY <2>2, <4>2 DEF SessionKeys
        <5> QED BY <5>1 DEF LineageInv, SessionsAreWhole
      <4> QED BY <4>1, <4>2
    <3> QED BY <3>1, <3>2
  <2> QED BY <1>3, <2>1, <2>2
<1>8. SessionsAreWhole'
  <2>1. Finals(sessions') = Finals(sessions)
    BY <1>7 DEF Finals, SessionKeys
  <2>2. ASSUME NEW k \in SessionKeys
        PROVE  Whole(sessions'[k]) /\ (sessions'[k].collision <=> Cardinality(Finals(sessions')) > 1)
    BY <1>7, <2>1 DEF LineageInv, SessionsAreWhole
  <2>3. IsFiniteSet(SessionKeys') /\ SessionKeys' \subseteq Keys
    BY <1>7 DEF LineageInv, SessionsAreWhole
  <2> QED BY <1>7, <2>2, <2>3 DEF SessionsAreWhole
<1>9. /\ DOMAIN locations' = DOMAIN locations /\ locations' = [q \in DOMAIN locations |-> locations'[q]]
      /\ \A q \in DOMAIN locations :
            /\ locations'[q].key = locations[q].key /\ locations'[q].artifact = locations[q].artifact
            /\ DOMAIN locations'[q] = {"key", "artifact", "present"}
  <2>1. DOMAIN locations' = DOMAIN locations /\ locations' = [q \in DOMAIN locations |-> locations'[q]]
    BY <1>1
  <2>2. ASSUME NEW q \in DOMAIN locations
        PROVE  /\ locations'[q].key = locations[q].key /\ locations'[q].artifact = locations[q].artifact
               /\ DOMAIN locations'[q] = {"key", "artifact", "present"}
    <3>1. DOMAIN locations[q] = {"key", "artifact", "present"}
      BY DEF LineageInv, PlacesAgree
    <3>2. locations'[q] = IF q = p THEN [locations[q] EXCEPT !.present = FALSE] ELSE locations[q]
      BY <1>1
    <3> QED BY <3>1, <3>2
  <2> QED BY <2>1, <2>2
<1>10. PlacesAgree'
  <2>1. \A q \in DOMAIN locations :
            /\ locations[q].key \in SessionKeys
            /\ locations[q].artifact \in DOMAIN artifacts /\ artifacts[locations[q].artifact] = locations[q].key
    BY DEF LineageInv, PlacesAgree
  <2>2. /\ DOMAIN locations \subseteq Paths
        /\ \A a \in DOMAIN artifacts : a.owner # None => artifacts[a] = a.owner
    BY DEF LineageInv, PlacesAgree
  <2> QED BY <1>1, <1>7, <1>9, <2>1, <2>2 DEF PlacesAgree
<1>11. PlacesAreParts'
  <2>1. observed' \in [Paths -> Transcripts \cup {None}] /\ observed'[p] = None
        /\ \A q \in Paths : q # p => observed'[q] = observed[q]
    BY <1>1 DEF LineageInv, PlacesAreParts
  <2>2. \A k \in SessionKeys : IsPrefix(sessions[k].facts, sessions'[k].facts)
    <3> SUFFICES ASSUME NEW k \in SessionKeys PROVE IsPrefix(sessions[k].facts, sessions'[k].facts)
      OBVIOUS
    <3>1. sessions[k].facts \in Seq(TokenEvents) /\ sessions'[k].facts = sessions[k].facts
      BY <1>7, HistoriesAreSeqs DEF LineageInv, SessionsAreWhole, Whole, Rows
    <3> QED BY <3>1, PrefixReflexive
  <2>3. ASSUME NEW q \in DOMAIN locations', observed'[q] # None
        PROVE  \/ IsPrefix(observed'[q].events, sessions'[locations'[q].key].facts)
               \/ CollisionKey(observed'[q]) \in SessionKeys'
    <3>1. q \in DOMAIN locations /\ q \in Paths /\ q # p /\ locations'[q].key = locations[q].key
          /\ observed'[q] = observed[q]
      BY <1>9, <2>1, <2>3 DEF LineageInv, PlacesAgree
    <3> QED BY <1>7, <1>8, <1>10, <2>1, <2>2, <2>3, <3>1, PartsStay
  <2> QED BY <2>1, <2>3 DEF PlacesAreParts
<1> QED BY <1>8, <1>10, <1>11 DEF LineageInv

LEMMA LineageStep == ASSUME LineageInv, [LineageNext]_lineageVars PROVE LineageInv'
<1>1. CASE UNCHANGED lineageVars
  BY <1>1 DEF lineageVars, LineageInv, SessionsAreWhole, PlacesAgree, PlacesAreParts, SessionKeys, Finals
<1>2. CASE LineageNext
  <2>1. PICK p \in Paths : MarkMissing(p) \/ \E t \in Transcripts : Observe(p, t)
    BY <1>2 DEF LineageNext
  <2> QED BY <2>1, MarkMissingKeeps, ObserveKeeps
<1> QED BY <1>1, <1>2

\* Two sessions that share an event both have events, hence are final, and all
\* rows carry the flag.
LEMMA LineageImplied == LineageInv => LineageIsSound
<1> SUFFICES ASSUME LineageInv PROVE LineageIsSound
  OBVIOUS
<1>1. HistoriesAreWhole
  BY DEF LineageInv, SessionsAreWhole, Whole, PlacesAreParts, HistoriesAreWhole
<1>2. ArtifactsAgree
  BY DEF LineageInv, PlacesAgree, ArtifactsAgree
<1>3. ASSUME NEW a \in SessionKeys, NEW b \in SessionKeys, a # b,
             Range(sessions[a].facts) \cap Range(sessions[b].facts) # {}
      PROVE  /\ sessions[a].collision /\ sessions[b].collision
             /\ "superseded" \in {sessions[a].lifecycle, sessions[b].lifecycle} => Ambiguous({a, b})
  <2>1. ASSUME NEW k \in {a, b} PROVE sessions[k].final
    <3>1. Whole(sessions[k])
      BY DEF LineageInv, SessionsAreWhole
    <3>2. Range(sessions[k].facts) # {}
      BY <1>3
    <3>3. sessions[k].facts # << >>
      BY <3>2 DEF Range
    <3> QED BY <3>1, <3>3 DEF Whole
  <2>2. {a, b} \subseteq Finals(sessions)
    BY <2>1 DEF Finals, SessionKeys
  <2>3. IsFiniteSet(Finals(sessions))
    <3>1. Finals(sessions) \subseteq SessionKeys
      BY DEF Finals, SessionKeys
    <3> QED BY <3>1, FS_Subset DEF LineageInv, SessionsAreWhole
  <2>4. Cardinality({a, b}) = 2
    <3>1. IsFiniteSet({a}) /\ Cardinality({a}) = 1
      BY FS_Singleton
    <3>2. {a, b} = {a} \cup {b} /\ b \notin {a}
      BY <1>3
    <3>3. Cardinality({a} \cup {b}) = Cardinality({a}) + 1
      BY <3>1, <3>2, FS_AddElement
    <3> QED BY <3>1, <3>2, <3>3
  <2>5. Cardinality(Finals(sessions)) > 1
    <3>1. Cardinality({a, b}) <= Cardinality(Finals(sessions))
      BY <2>2, <2>3, FS_Subset
    <3>2. Cardinality(Finals(sessions)) \in Nat
      BY <2>3, FS_CardinalityType
    <3> QED BY <2>4, <3>1, <3>2
  <2>6. sessions[a].collision /\ sessions[b].collision
    BY <2>5 DEF LineageInv, SessionsAreWhole
  <2>7. ASSUME "superseded" \in {sessions[a].lifecycle, sessions[b].lifecycle} PROVE Ambiguous({a, b})
    BY <1>3, <2>6, <2>7 DEF Ambiguous
  <2> QED BY <2>6, <2>7
<1> QED BY <1>1, <1>2, <1>3 DEF LineageIsSound, SharedEventsAreMarked

THEOREM LineageIsSoundHolds == LineageSpec => []LineageIsSound
<1>1. LineageInit => LineageInv
  BY LineageInitial
<1>2. LineageInv /\ [LineageNext]_lineageVars => LineageInv'
  BY LineageStep
<1>3. LineageInv => LineageIsSound
  BY LineageImplied
<1> QED BY <1>1, <1>2, <1>3, PTL DEF LineageSpec

-----------------------------------------------------------------------------
(* Projects: overrides and merges.                                         *)

\* Any sessions, directories and keys, and any number of merges and splits.
ProjectSpec == ProjectInit /\ [][ProjectNext]_projectVars

KeyOrNone == ProjectKeys \cup {None}

ProjectTypes ==
    /\ disk \in [Directories -> [repository : KeyOrNone, workspace : {None}]]
    /\ directory \in [Members -> Directories \cup {None}]
    /\ detected \in [Members -> [key : KeyOrNone, source : Directories \cup {None}]]
    /\ resident \in [Members -> KeyOrNone] /\ assigned \in [Members -> KeyOrNone]
    /\ override \in [ProjectKeys -> [alias : KeyOrNone, canonical : KeyOrNone]]

\* No redirects go round: wherever they are followed, they end.
RedirectsEnd ==
    \A S \in SUBSET ProjectKeys : S # {} /\ FollowsRedirects(S) => \E j \in S : Next1(j) = None

ProjectInv == ProjectTypes /\ RedirectsEnd

-----------------------------------------------------------------------------
\* A walk stays where the redirects lead.
LEMMA ChainFollows ==
    ASSUME ProjectTypes, NEW k \in ProjectKeys
    PROVE  k \in Chain(k) /\ Chain(k) \in SUBSET ProjectKeys /\ FollowsRedirects(Chain(k))
<1>1. k \in Chain(k) /\ Chain(k) \in SUBSET ProjectKeys
  BY DEF Chain
<1>2. ASSUME NEW j \in Chain(k), Next1(j) # None PROVE Next1(j) \in Chain(k)
  <2>1. Next1(j) \in ProjectKeys
    BY <1>1, <1>2 DEF ProjectTypes, KeyOrNone, Next1
  <2>2. ASSUME NEW S \in SUBSET ProjectKeys, k \in S, FollowsRedirects(S) PROVE Next1(j) \in S
    <3>1. j \in S
      BY <2>2 DEF Chain
    <3> QED BY <1>2, <2>2, <3>1 DEF FollowsRedirects
  <2> QED BY <2>1, <2>2 DEF Chain
<1> QED BY <1>1, <1>2 DEF FollowsRedirects

LEMMA CanonicalIsAnEnd ==
    ASSUME ProjectInv, NEW k \in ProjectKeys
    PROVE  Canonical(k) \in ProjectKeys /\ Next1(Canonical(k)) = None
<1> DEFINE ends == {j \in Chain(k) : Next1(j) = None}
<1>1. ends # {}
  BY ChainFollows DEF ProjectInv, RedirectsEnd
<1>2. Canonical(k) \in ends
  <2>1. Canonical(k) = CHOOSE j \in ends : TRUE
    BY <1>1 DEF Canonical
  <2> HIDE DEF ends
  <2> QED BY <1>1, <2>1
<1> QED BY <1>2, ChainFollows DEF ProjectInv

-----------------------------------------------------------------------------
LEMMA ProjectInitial == ASSUME ProjectInit PROVE ProjectInv
<1>1. NoOverride \in [alias : KeyOrNone, canonical : KeyOrNone] /\ NoOverride.canonical = None
  BY DEF NoOverride, KeyOrNone
<1>2. [key |-> None, source |-> None] \in [key : KeyOrNone, source : Directories \cup {None}]
  BY DEF KeyOrNone
<1>3. \A k \in ProjectKeys : Next1(k) = None
  BY <1>1 DEF ProjectInit, Next1
<1>4. ProjectTypes
  BY <1>1, <1>2 DEF ProjectInit, ProjectTypes, KeyOrNone
<1> QED BY <1>3, <1>4 DEF ProjectInv, RedirectsEnd

LEMMA RedirectsUnchanged == ASSUME RedirectsEnd, \A k \in ProjectKeys : Next1(k)' = Next1(k) PROVE RedirectsEnd'
<1> SUFFICES ASSUME NEW S \in SUBSET ProjectKeys, S # {}, FollowsRedirects(S)' PROVE \E j \in S : Next1(j)' = None
  BY DEF RedirectsEnd
<1>1. FollowsRedirects(S)
  BY DEF FollowsRedirects
<1> QED BY <1>1 DEF RedirectsEnd

LEMMA ApplyKeeps == ASSUME ProjectInv, NEW s \in Members, ApplyProjectIdentity(s) PROVE ProjectInv'
<1> DEFINE known == detected[s].key # None /\ detected[s].source = directory[s]
           key == IF known THEN detected[s].key ELSE ResolveProjectIdentity(directory[s])
           new == [key |-> key, source |-> directory[s]]
<1>1. /\ detected' = [detected EXCEPT ![s] = new] /\ resident' = [resident EXCEPT ![s] = key]
      /\ UNCHANGED <<disk, directory, assigned, override>>
  BY DEF ApplyProjectIdentity
<1>2. key \in KeyOrNone
  <2>1. detected[s].key \in KeyOrNone /\ directory[s] \in Directories \cup {None}
    BY DEF ProjectInv, ProjectTypes
  <2>2. ResolveProjectIdentity(directory[s]) \in KeyOrNone
    BY <2>1, ProjectsAssumption DEF ProjectInv, ProjectTypes, ResolveProjectIdentity, KeyOrNone
  <2> QED BY <2>1, <2>2
<1> HIDE DEF key
<1>3. new \in [key : KeyOrNone, source : Directories \cup {None}]
  BY <1>2 DEF ProjectInv, ProjectTypes
<1> HIDE DEF new
<1>4. ProjectTypes'
  BY <1>1, <1>2, <1>3 DEF ProjectInv, ProjectTypes
<1>5. \A k \in ProjectKeys : Next1(k)' = Next1(k)
  BY <1>1 DEF Next1
<1> QED BY <1>4, <1>5, RedirectsUnchanged DEF ProjectInv

\* An override is cut or gets another alias: what went on still ends.
LEMMA OverrideKeeps ==
    ASSUME ProjectInv, NEW k \in ProjectKeys,
           (\E alias \in {None, k} : SetAlias(k, alias)) \/ UnmergeProject(k)
    PROVE  ProjectInv'
<1>1. /\ UNCHANGED <<disk, directory, detected, resident, assigned>>
      /\ override' \in [ProjectKeys -> [alias : KeyOrNone, canonical : KeyOrNone]]
      /\ \A j \in ProjectKeys : override'[j].canonical \in {override[j].canonical, None}
  <2>1. CASE UnmergeProject(k)
    BY <2>1 DEF UnmergeProject, ProjectInv, ProjectTypes, KeyOrNone
  <2>2. ASSUME NEW alias \in {None, k}, SetAlias(k, alias)
        PROVE  /\ UNCHANGED <<disk, directory, detected, resident, assigned>>
               /\ override' \in [ProjectKeys -> [alias : KeyOrNone, canonical : KeyOrNone]]
               /\ \A j \in ProjectKeys : override'[j].canonical \in {override[j].canonical, None}
    BY <2>2 DEF SetAlias, ProjectInv, ProjectTypes, KeyOrNone
  <2> QED BY <2>1, <2>2
<1>2. ProjectTypes'
  BY <1>1 DEF ProjectInv, ProjectTypes
<1>3. ASSUME NEW S \in SUBSET ProjectKeys, S # {}, FollowsRedirects(S)' PROVE \E j \in S : Next1(j)' = None
  <2>1. CASE \A j \in S : Next1(j)' = Next1(j)
    <3>1. FollowsRedirects(S)
      BY <1>3, <2>1 DEF FollowsRedirects
    <3> QED BY <1>3, <2>1, <3>1 DEF ProjectInv, RedirectsEnd
  <2>2. CASE \E j \in S : Next1(j)' # Next1(j)
    BY <1>1, <2>2 DEF Next1
  <2> QED BY <2>1, <2>2
<1> QED BY <1>2, <1>3 DEF ProjectInv, RedirectsEnd

\* A cycle through the new redirect would have been a way from its target to its source.
LEMMA MergeKeeps == ASSUME ProjectInv, NEW source \in ProjectKeys, NEW canonical \in ProjectKeys, MergeProject(source, canonical) PROVE ProjectInv'
<1>1. /\ source \notin Chain(canonical)
      /\ override' = [override EXCEPT ![source].canonical = canonical]
      /\ UNCHANGED <<disk, directory, detected, resident, assigned>>
  BY DEF MergeProject, Reaches
<1>2. ProjectTypes'
  BY <1>1 DEF ProjectInv, ProjectTypes, KeyOrNone
<1>3. /\ Next1(source)' = canonical
      /\ \A j \in ProjectKeys \ {source} : Next1(j)' = Next1(j)
  BY <1>1 DEF ProjectInv, ProjectTypes, Next1
<1>4. ASSUME NEW S \in SUBSET ProjectKeys, S # {}, FollowsRedirects(S)' PROVE \E j \in S : Next1(j)' = None
  <2>1. CASE source \notin S
    <3>1. FollowsRedirects(S)
      BY <1>3, <1>4, <2>1 DEF FollowsRedirects
    <3>2. PICK j \in S : Next1(j) = None
      BY <1>4, <3>1 DEF ProjectInv, RedirectsEnd
    <3> QED BY <1>3, <2>1, <3>2
  <2>2. CASE source \in S
    <3> DEFINE C == Chain(canonical)
    <3>1. canonical \in S
      BY <1>3, <1>4, <2>2, ProjectsAssumption DEF FollowsRedirects
    <3>2. canonical \in C /\ C \in SUBSET ProjectKeys /\ FollowsRedirects(C) /\ source \notin C
      BY <1>1, ChainFollows DEF ProjectInv
    <3> HIDE DEF C
    <3>3. FollowsRedirects(S \cap C)
      BY <1>3, <1>4, <3>2 DEF FollowsRedirects
    <3>4. S \cap C \in SUBSET ProjectKeys /\ S \cap C # {}
      BY <3>1, <3>2
    <3>5. PICK j \in S \cap C : Next1(j) = None
      BY <3>3, <3>4 DEF ProjectInv, RedirectsEnd
    <3> QED BY <1>3, <3>2, <3>5
  <2> QED BY <2>1, <2>2
<1> QED BY <1>2, <1>4 DEF ProjectInv, RedirectsEnd

LEMMA ProjectStep == ASSUME ProjectInv, [ProjectNext]_projectVars PROVE ProjectInv'
<1>1. ASSUME NEW s \in Members, ApplyProjectIdentity(s) PROVE ProjectInv'
  BY <1>1, ApplyKeeps
<1>2. ASSUME NEW s \in Members, ClearReassignment(s) \/ \E k \in KeyOrNone : ReassignSession(s, k) PROVE ProjectInv'
  <2>1. PICK x \in KeyOrNone : assigned' = [assigned EXCEPT ![s] = x] /\ UNCHANGED <<disk, directory, detected, resident, override>>
    BY <1>2, ProjectsAssumption DEF ClearReassignment, ReassignSession, KeyOrNone
  <2>2. ProjectTypes'
    BY <2>1 DEF ProjectInv, ProjectTypes
  <2>3. \A k \in ProjectKeys : Next1(k)' = Next1(k)
    BY <2>1 DEF Next1
  <2> QED BY <2>2, <2>3, RedirectsUnchanged DEF ProjectInv
<1>3. ASSUME NEW s \in Members, NEW d \in Directories \cup {None}, ChangeDirectory(s, d) PROVE ProjectInv'
  <2>1. ProjectTypes'
    BY <1>3 DEF ChangeDirectory, ProjectInv, ProjectTypes
  <2>2. \A k \in ProjectKeys : Next1(k)' = Next1(k)
    BY <1>3 DEF ChangeDirectory, Next1
  <2> QED BY <2>1, <2>2, RedirectsUnchanged DEF ProjectInv
<1>4. ASSUME NEW d \in Directories, NEW k \in ProjectKeys, InitRepository(d, k) PROVE ProjectInv'
  <2>1. ProjectTypes'
    BY <1>4 DEF InitRepository, ProjectInv, ProjectTypes, KeyOrNone
  <2>2. \A j \in ProjectKeys : Next1(j)' = Next1(j)
    BY <1>4 DEF InitRepository, Next1
  <2> QED BY <2>1, <2>2, RedirectsUnchanged DEF ProjectInv
<1>5. ASSUME NEW k \in ProjectKeys, UnmergeProject(k) \/ \E alias \in {None, k} : SetAlias(k, alias) PROVE ProjectInv'
  BY <1>5, OverrideKeeps
<1>6. ASSUME NEW source \in ProjectKeys, NEW canonical \in ProjectKeys, MergeProject(source, canonical) PROVE ProjectInv'
  BY <1>6, MergeKeeps
<1>7. CASE UNCHANGED projectVars
  <2>1. ProjectTypes'
    BY <1>7 DEF projectVars, ProjectInv, ProjectTypes
  <2>2. \A j \in ProjectKeys : Next1(j)' = Next1(j)
    BY <1>7 DEF projectVars, Next1
  <2> QED BY <2>1, <2>2, RedirectsUnchanged DEF ProjectInv
<1> QED BY <1>1, <1>2, <1>3, <1>4, <1>5, <1>6, <1>7 DEF ProjectNext, KeyOrNone

-----------------------------------------------------------------------------
\* What Projects says of a session: it is in the project of its raw key only.
LEMMA ProjectImplied == ASSUME ProjectInv PROVE ProjectsPartition
<1>1. \A s \in Members : EffectiveRaw(s) \in KeyOrNone
  BY DEF ProjectInv, ProjectTypes, EffectiveRaw
<1>2. RawKeys \subseteq ProjectKeys
  BY <1>1 DEF RawKeys, KeyOrNone
<1>3. \A k : /\ Project(k).key = k
             /\ Project(k).members = {raw \in RawKeys : Canonical(raw) = k}
             /\ Project(k).counted = {c \in Members \X Project(k).members : InRaw(c[1], c[2])}
             /\ Project(k).overridden = {s \in Members : assigned[s] # None /\ \E raw \in Project(k).members : InRaw(s, raw)}
  BY DEF Project
<1>4. \A p \in Projects : p = Project(p.key)
  BY <1>3 DEF Projects
<1>5. \A raw \in RawKeys : Project(Canonical(raw)) \in Projects
  BY DEF Projects
<1>6. \A k \in ProjectKeys : Next1(Canonical(k)) = None
  BY CanonicalIsAnEnd
<1>7. ASSUME NEW p \in Projects, NEW q \in Projects, p # q PROVE p.key # q.key /\ p.members \cap q.members = {}
  <2>1. p.key # q.key
    BY <1>4, <1>7
  <2>2. \A raw \in p.members : Canonical(raw) = p.key
    BY <1>3, <1>4
  <2>3. \A raw \in q.members : Canonical(raw) = q.key
    BY <1>3, <1>4
  <2> QED BY <2>1, <2>2, <2>3
<1>8. ASSUME NEW s \in Members
      PROVE  Cardinality({c \in UNION {p.counted : p \in Projects} : c[1] = s}) = IF EffectiveRaw(s) = None THEN 0 ELSE 1
  <2> DEFINE of == {c \in UNION {p.counted : p \in Projects} : c[1] = s}
             raw == EffectiveRaw(s)
  <2>1. ASSUME NEW c \in of PROVE raw \in RawKeys /\ c = <<s, raw>>
    <3>1. PICK p \in Projects : c \in p.counted /\ c[1] = s
      OBVIOUS
    <3>2. c \in Members \X p.members /\ InRaw(c[1], c[2])
      BY <1>3, <1>4, <3>1
    <3>3. c[2] = raw /\ c[2] \in RawKeys
      BY <1>3, <1>4, <3>1, <3>2 DEF InRaw
    <3> QED BY <3>1, <3>2, <3>3
  <2>2. CASE raw = None
    <3>1. of = {}
      BY <2>1, <2>2 DEF RawKeys
    <3> QED BY <2>2, <3>1, FS_EmptySet
  <2>3. CASE raw # None
    <3>1. raw \in RawKeys
      BY <2>3 DEF RawKeys
    <3>2. <<s, raw>> \in Project(Canonical(raw)).counted
      BY <1>3, <3>1 DEF InRaw
    <3>3. of = {<<s, raw>>}
      BY <1>5, <2>1, <3>1, <3>2
    <3>4. Cardinality(of) = 1
      BY <3>3, FS_Singleton
    <3> QED BY <2>3, <3>4
  <2> QED BY <2>2, <2>3
<1>9. ASSUME NEW s \in Members, assigned[s] # None
      PROVE  \E p \in Projects : s \in p.overridden /\ p.key = Canonical(assigned[s])
  <2>1. EffectiveRaw(s) = assigned[s] /\ assigned[s] \in RawKeys
    BY <1>9 DEF EffectiveRaw, RawKeys
  <2>2. assigned[s] \in Project(Canonical(assigned[s])).members
    BY <1>3, <2>1
  <2>3. s \in Project(Canonical(assigned[s])).overridden
    BY <1>3, <1>9, <2>1, <2>2 DEF InRaw
  <2> QED BY <1>3, <1>5, <2>1, <2>3
<1> QED BY <1>6, <1>7, <1>8, <1>9 DEF ProjectsPartition

\* Whatever was merged, split and undone in which order (merge_project,
\* reassign_session_project, history_store.rs), a chain of redirects ends, and
\* resolve_projects_from (commands.rs) counts each session that has a project once,
\* in one project, and lists the sessions a user moved where they are shown.
THEOREM ProjectsPartitionHolds == ProjectSpec => []ProjectsPartition
  BY ProjectInitial, ProjectStep, ProjectImplied, PTL DEF ProjectSpec

-----------------------------------------------------------------------------
(* What an editor saves.                                                   *)

\* A session has the newest fingerprint it has had, or is gone.
RowsAreCurrent ==
    /\ row \in [Sessions -> Nat \cup {None}] /\ latest \in [Sessions -> Nat]
    /\ \A s \in Sessions : row[s] # None => row[s] = latest[s]

OrganizationTypes ==
    /\ annotation \in [Targets -> Annotations]
    /\ searches \in Seq(Searches \cup {None})
    /\ editor \in [Editors -> Loaded \cup {None}]

\* A revision is handed out once in the life of a session or a search: what has
\* the one that an editor loaded is what it loaded.
Follows(now, saw) == now.revision >= saw.revision /\ (now.revision = saw.revision => now = saw)

Behind(ed, rows, newest, notes, stored) ==
    IF "target" \in DOMAIN ed
    THEN /\ ed.fingerprint <= newest[ed.target.session]
         /\ rows[ed.target.session] = ed.fingerprint => Follows(notes[ed.target], ed.saw)
    ELSE /\ ed.search \in DOMAIN stored
         /\ stored[ed.search] # None => Follows(stored[ed.search], ed.saw)

OrganizationInv ==
    /\ RowsAreCurrent /\ OrganizationTypes
    /\ \A e \in Editors : editor[e] # None => Behind(editor[e], row, latest, annotation, searches)

LEMMA LoadedEditors ==
    ASSUME NEW ed \in Loaded
    PROVE  /\ ed # None
           /\ "target" \in DOMAIN ed => /\ ed.target \in Targets /\ ed.target.session \in Sessions
                                        /\ ed.fingerprint \in Nat /\ ed.saw \in Annotations
                                        /\ "search" \notin DOMAIN ed
           /\ "target" \notin DOMAIN ed => ed.search \in Nat /\ ed.saw \in Searches
<1>1. ed # None
  BY OrganizationAssumption
<1>2. CASE ed \in [target : Targets, fingerprint : Nat, saw : Annotations]
  BY <1>1, <1>2 DEF Targets
<1>3. CASE ed \in [search : Nat, saw : Searches]
  BY <1>1, <1>3
<1> QED BY <1>2, <1>3 DEF Loaded

LEMMA RevisionsAreNat ==
    /\ \A a \in Annotations : a.revision \in Nat
    /\ \A q \in Searches : q.revision \in Nat /\ q # None
    /\ None \notin Nat
  BY OrganizationAssumption DEF Annotations, Searches

\* What one step does to the tables, and to those who have loaded from them.
RowsMoveOn ==
    \A s \in Sessions : \/ latest'[s] = latest[s] /\ row'[s] \in {row[s], None}
                        \/ latest'[s] = latest[s] + 1 /\ row'[s] = latest'[s]
AnnotationsMoveOn ==
    \A t \in Targets : \/ annotation'[t] = annotation[t]
                       \/ annotation'[t].revision > annotation[t].revision
                       \/ row'[t.session] = None
SearchesMoveOn ==
    \A id \in DOMAIN searches :
        /\ id \in DOMAIN searches'
        /\ \/ searches'[id] = searches[id]
           \/ searches[id] # None /\ (searches'[id] # None => searches'[id].revision > searches[id].revision)
EditorsMoveOn ==
    \A e \in Editors : editor'[e] \in {editor[e], None} \/ Behind(editor'[e], row', latest', annotation', searches')

\* Whatever replaces an annotation by one of a later revision keeps the editors behind.
LEMMA EditorStaysBehind ==
    ASSUME OrganizationInv, NEW ed \in Loaded, Behind(ed, row, latest, annotation, searches),
           RowsAreCurrent', OrganizationTypes',
           RowsMoveOn, AnnotationsMoveOn, SearchesMoveOn
    PROVE  Behind(ed, row', latest', annotation', searches')
<1>1. CASE "target" \in DOMAIN ed
  <2> DEFINE t == ed.target
             s == t.session
  <2>1. t \in Targets /\ s \in Sessions /\ ed.fingerprint \in Nat /\ ed.saw \in Annotations
    BY <1>1, LoadedEditors
  <2>2. ed.fingerprint <= latest[s] /\ (row[s] = ed.fingerprint => Follows(annotation[t], ed.saw))
    BY <1>1 DEF Behind
  <2>3. latest[s] \in Nat /\ latest'[s] \in Nat /\ annotation[t] \in Annotations /\ annotation'[t] \in Annotations
    BY <2>1 DEF OrganizationInv, RowsAreCurrent, OrganizationTypes
  <2>4. ed.fingerprint <= latest'[s]
    BY <2>1, <2>2, <2>3 DEF RowsMoveOn
  <2>5. ASSUME row'[s] = ed.fingerprint PROVE Follows(annotation'[t], ed.saw)
    <3>1. row'[s] # None /\ row'[s] = row[s]
      BY <2>1, <2>2, <2>3, <2>5, RevisionsAreNat DEF RowsMoveOn
    <3>2. Follows(annotation[t], ed.saw)
      BY <2>2, <2>5, <3>1
    <3>3. annotation'[t] = annotation[t] \/ annotation'[t].revision > annotation[t].revision
      BY <2>1, <3>1 DEF AnnotationsMoveOn
    <3>4. annotation'[t].revision \in Nat /\ annotation[t].revision \in Nat /\ ed.saw.revision \in Nat
      BY <2>1, <2>3, RevisionsAreNat
    <3> QED BY <3>2, <3>3, <3>4 DEF Follows
  <2> QED BY <1>1, <2>4, <2>5 DEF Behind
<1>2. CASE "target" \notin DOMAIN ed
  <2> DEFINE id == ed.search
  <2>1. id \in DOMAIN searches /\ ed.saw \in Searches /\ (searches[id] # None => Follows(searches[id], ed.saw))
    BY <1>2, LoadedEditors DEF Behind
  <2>2. id \in DOMAIN searches'
    BY <2>1 DEF SearchesMoveOn
  <2>3. ASSUME searches'[id] # None PROVE Follows(searches'[id], ed.saw)
    <3>1. searches[id] # None
      BY <2>1, <2>3 DEF SearchesMoveOn
    <3>2. Follows(searches[id], ed.saw)
      BY <2>1, <3>1
    <3>3. searches'[id] = searches[id] \/ searches'[id].revision > searches[id].revision
      BY <2>1, <2>3 DEF SearchesMoveOn
    <3>4. searches[id] \in Searches /\ searches'[id] \in Searches
      BY <2>1, <2>2, <2>3, <3>1 DEF OrganizationInv, OrganizationTypes
    <3>5. searches'[id].revision \in Nat /\ searches[id].revision \in Nat /\ ed.saw.revision \in Nat
      BY <2>1, <3>4, RevisionsAreNat
    <3> QED BY <3>2, <3>3, <3>5 DEF Follows
  <2> QED BY <1>2, <2>2, <2>3 DEF Behind
<1> QED BY <1>1, <1>2

LEMMA OrganizationInitial == OrganizationInit => OrganizationInv
<1> SUFFICES ASSUME OrganizationInit PROVE OrganizationInv
  OBVIOUS
<1>1. NoAnnotation \in Annotations
  BY DEF NoAnnotation, Annotations
<1>2. RowsAreCurrent /\ OrganizationTypes
  BY <1>1, EmptySeq DEF OrganizationInit, RowsAreCurrent, OrganizationTypes
<1> QED BY <1>2 DEF OrganizationInv, OrganizationInit

\* What an editor that is done has seen is what it overwrote.
SavedAsSeen ==
    \A e \in Editors : editor[e] # None /\ editor'[e] = None =>
        editor[e].saw = IF "target" \in DOMAIN editor[e] THEN annotation[editor[e].target]
                        ELSE searches[editor[e].search]

\* The shape of every step: the rows and the tables move on, and the editors that
\* hold something are the ones that did, or have just loaded what there is.
LEMMA OrganizationMovesOn ==
    ASSUME OrganizationInv, RowsAreCurrent', OrganizationTypes',
           RowsMoveOn, AnnotationsMoveOn, SearchesMoveOn,
           EditorsMoveOn
    PROVE  OrganizationInv'
<1>1. ASSUME NEW e \in Editors, editor'[e] # None
      PROVE  Behind(editor'[e], row', latest', annotation', searches')
  <2>1. CASE editor'[e] = editor[e]
    <3> DEFINE ed == editor[e]
    <3>1. ed \in Loaded /\ Behind(ed, row, latest, annotation, searches)
      BY <1>1, <2>1 DEF OrganizationInv, OrganizationTypes
    <3> HIDE DEF ed
    <3>2. Behind(ed, row', latest', annotation', searches')
      BY <3>1, EditorStaysBehind
    <3> QED BY <2>1, <3>2 DEF ed
  <2> QED BY <1>1, <2>1 DEF EditorsMoveOn
<1> QED BY <1>1 DEF OrganizationInv

-----------------------------------------------------------------------------
LEMMA StandingRows == UNCHANGED <<row, latest>> => RowsMoveOn
  BY DEF RowsMoveOn
LEMMA StandingSearches == UNCHANGED searches => SearchesMoveOn
  BY DEF SearchesMoveOn

LEMMA LoadAnnotationKeeps ==
    ASSUME OrganizationInv, NEW e \in Editors, NEW t \in Targets, LoadAnnotation(e, t)
    PROVE  OrganizationInv' /\ SavedAsSeen
<1> DEFINE ed == [target |-> t, fingerprint |-> row[t.session], saw |-> annotation[t]]
<1>1. t.session \in Sessions /\ row[t.session] \in Nat /\ row[t.session] = latest[t.session] /\ annotation[t] \in Annotations
  BY DEF OrganizationInv, RowsAreCurrent, OrganizationTypes, LoadAnnotation, Targets
<1>2. ed \in Loaded /\ "target" \in DOMAIN ed
  BY <1>1 DEF Loaded
<1>3. ed.target = t /\ ed.fingerprint = row[t.session] /\ ed.saw = annotation[t]
  OBVIOUS
<1>4. Behind(ed, row, latest, annotation, searches)
  <2>1. Follows(annotation[t], annotation[t])
    BY <1>1, RevisionsAreNat DEF Follows
  <2> HIDE DEF ed
  <2> QED BY <1>1, <1>2, <1>3, <2>1 DEF Behind
<1>5. editor' = [editor EXCEPT ![e] = ed] /\ UNCHANGED <<row, annotation, tags, searches, latest, revised>>
  BY DEF LoadAnnotation
<1> HIDE DEF ed
<1>6. RowsAreCurrent' /\ OrganizationTypes'
  BY <1>2, <1>5 DEF OrganizationInv, RowsAreCurrent, OrganizationTypes
<1>7. \A x \in Editors : editor'[x] = editor[x] \/ (editor'[x] = ed /\ ed # None)
  BY <1>2, <1>5, LoadedEditors DEF OrganizationInv, OrganizationTypes
<1>8. \A x \in Editors : editor'[x] \in {editor[x], None} \/ Behind(editor'[x], row', latest', annotation', searches')
  BY <1>4, <1>5, <1>7
<1>9. OrganizationInv'
  BY <1>5, <1>6, <1>8, OrganizationMovesOn, StandingRows, StandingSearches DEF AnnotationsMoveOn, EditorsMoveOn
<1> QED BY <1>7, <1>9 DEF SavedAsSeen

\* A save that is accepted: the target is as it was loaded, and its revision grows.
LEMMA SavesKeeps ==
    ASSUME OrganizationInv, NEW e \in Editors, EditsTarget(e), SameIdentity(editor[e]),
           annotation[editor[e].target].revision = editor[e].saw.revision,
           NEW changed \in Annotations, changed.revision > annotation[editor[e].target].revision,
           Saves(e, editor[e].target, changed)
    PROVE  OrganizationInv' /\ SavedAsSeen
<1> DEFINE ed == editor[e]
           t == ed.target
<1>1. ed \in Loaded /\ "target" \in DOMAIN ed /\ ed # None
  BY DEF OrganizationInv, OrganizationTypes, EditsTarget
<1>2. Behind(ed, row, latest, annotation, searches)
  BY <1>1 DEF OrganizationInv
<1>3. t \in Targets
  BY <1>1, LoadedEditors
<1>4. annotation[t] = ed.saw
  <2>1. row[t.session] = ed.fingerprint
    BY DEF SameIdentity
  <2> QED BY <1>1, <1>2, <2>1 DEF Behind, Follows
<1>5. /\ annotation' = [annotation EXCEPT ![t] = changed] /\ editor' = [editor EXCEPT ![e] = None]
      /\ UNCHANGED <<row, searches, latest>>
  BY DEF Saves
<1>6. RowsAreCurrent' /\ OrganizationTypes'
  BY <1>3, <1>5 DEF OrganizationInv, RowsAreCurrent, OrganizationTypes
<1>7. \A x \in Editors : editor'[x] = editor[x] \/ (x = e /\ editor'[x] = None)
  BY <1>5 DEF OrganizationInv, OrganizationTypes
<1>8. \A x \in Targets : annotation'[x] = annotation[x] \/ annotation'[x].revision > annotation[x].revision
  BY <1>3, <1>5 DEF OrganizationInv, OrganizationTypes
<1>9. OrganizationInv'
  BY <1>5, <1>6, <1>7, <1>8, OrganizationMovesOn, StandingRows, StandingSearches DEF AnnotationsMoveOn, EditorsMoveOn
<1>10. SavedAsSeen
  BY <1>1, <1>4, <1>7 DEF SavedAsSeen
<1> QED BY <1>9, <1>10

LEMMA EditAnnotationKeeps ==
    ASSUME OrganizationInv, NEW e \in Editors, NEW note \in Notes, NEW selected \in SUBSET Labels,
           NEW outcome \in Outcomes \cup {None}, EditAnnotation(e, note, selected, outcome)
    PROVE  OrganizationInv' /\ SavedAsSeen
<1> DEFINE t == editor[e].target
           old == annotation[t]
           a == [old EXCEPT !.revision = old.revision + 1]
           b == [a EXCEPT !.note = note]
           c == [b EXCEPT !.tags = selected]
           d == [c EXCEPT !.outcome = IF outcome = None THEN old.outcome ELSE outcome]
           changed == [old EXCEPT !.revision = @ + 1, !.note = note, !.tags = selected,
                                  !.outcome = IF outcome = None THEN @ ELSE outcome]
<1>1. /\ EditsTarget(e) /\ SameIdentity(editor[e]) /\ old.revision = editor[e].saw.revision
      /\ Saves(e, t, changed)
  BY DEF EditAnnotation
<1>2. editor[e] \in Loaded /\ "target" \in DOMAIN editor[e]
  BY <1>1 DEF OrganizationInv, OrganizationTypes, EditsTarget
<1>3. t \in Targets
  BY <1>2, LoadedEditors
<1>4. old \in Annotations /\ old.revision \in Nat
  BY <1>3, RevisionsAreNat DEF OrganizationInv, OrganizationTypes
<1>5. changed = d
  <2>1. changed = [old EXCEPT !.revision = old.revision + 1, !.note = note, !.tags = selected,
                              !.outcome = IF outcome = None THEN old.outcome ELSE outcome]
    BY <1>4 DEF Annotations
  <2> QED BY <2>1
<1> HIDE DEF old
<1>6. a \in Annotations /\ a.revision = old.revision + 1
  BY <1>4 DEF Annotations
<1> HIDE DEF a
<1>7. b \in Annotations /\ b.revision = old.revision + 1
  BY <1>6 DEF Annotations
<1> HIDE DEF b
<1>8. c \in Annotations /\ c.revision = old.revision + 1
  BY <1>7 DEF Annotations
<1> HIDE DEF c
<1>9. old.outcome \in Outcomes \cup {None}
  BY <1>4 DEF Annotations
<1>10. d \in Annotations /\ d.revision = old.revision + 1
  BY <1>8, <1>9 DEF Annotations
<1> HIDE DEF d, changed
<1>11. changed \in Annotations /\ changed.revision > old.revision
  BY <1>4, <1>5, <1>10
<1> QED BY <1>1, <1>11, SavesKeeps DEF old

LEMMA EditBookmarkKeeps ==
    ASSUME OrganizationInv, NEW e \in Editors, NEW bookmarked \in BOOLEAN, EditBookmark(e, bookmarked)
    PROVE  OrganizationInv' /\ SavedAsSeen
<1> DEFINE t == editor[e].target
           old == annotation[t]
           a == [old EXCEPT !.revision = old.revision + 1]
           b == [a EXCEPT !.pinned = bookmarked]
           changed == [old EXCEPT !.revision = @ + 1, !.pinned = bookmarked]
<1>1. /\ EditsTarget(e) /\ SameIdentity(editor[e]) /\ old.revision = editor[e].saw.revision
      /\ Saves(e, t, changed)
  BY DEF EditBookmark
<1>2. editor[e] \in Loaded /\ "target" \in DOMAIN editor[e]
  BY <1>1 DEF OrganizationInv, OrganizationTypes, EditsTarget
<1>3. t \in Targets
  BY <1>2, LoadedEditors
<1>4. old \in Annotations /\ old.revision \in Nat
  BY <1>3, RevisionsAreNat DEF OrganizationInv, OrganizationTypes
<1>5. changed = b
  <2>1. changed = [old EXCEPT !.revision = old.revision + 1, !.pinned = bookmarked]
    BY <1>4 DEF Annotations
  <2> QED BY <2>1
<1> HIDE DEF old
<1>6. a \in Annotations /\ a.revision = old.revision + 1
  BY <1>4 DEF Annotations
<1> HIDE DEF a
<1>7. b \in Annotations /\ b.revision = old.revision + 1
  BY <1>6 DEF Annotations
<1> HIDE DEF b, changed
<1>8. changed \in Annotations /\ changed.revision > old.revision
  BY <1>4, <1>5, <1>7
<1> QED BY <1>1, <1>8, SavesKeeps DEF old

LEMMA ChangeTagKeeps ==
    ASSUME OrganizationInv, NEW label \in Labels, NEW replacement \in Labels \cup {None},
           ChangeTag(label, replacement)
    PROVE  OrganizationInv' /\ SavedAsSeen
<1>1. /\ annotation' = [t \in Targets |-> IF label \in annotation[t].tags
                                          THEN Retagged(annotation[t], label, replacement) ELSE annotation[t]]
      /\ UNCHANGED <<row, searches, editor, latest>>
  BY DEF ChangeTag
<1>2. ASSUME NEW t \in Targets
      PROVE  /\ annotation'[t] \in Annotations
             /\ annotation'[t] = annotation[t] \/ annotation'[t].revision > annotation[t].revision
  <2> DEFINE old == annotation[t]
             now == (old.tags \ {label}) \cup (IF replacement = None THEN {} ELSE {replacement})
             a == [old EXCEPT !.revision = old.revision + 1]
             b == [a EXCEPT !.tags = now]
  <2>1. old \in Annotations /\ old.revision \in Nat
    BY RevisionsAreNat DEF OrganizationInv, OrganizationTypes
  <2>2. now \in SUBSET Labels
    BY <2>1 DEF Annotations
  <2>3. Retagged(old, label, replacement) = b
    <3>1. Retagged(old, label, replacement) = [old EXCEPT !.revision = old.revision + 1, !.tags = now]
      BY <2>1 DEF Retagged, Annotations
    <3> QED BY <3>1
  <2>4. annotation'[t] = IF label \in old.tags THEN Retagged(old, label, replacement) ELSE old
    BY <1>1
  <2> HIDE DEF old, now
  <2>5. a \in Annotations /\ a.revision = old.revision + 1
    BY <2>1 DEF Annotations
  <2> HIDE DEF a
  <2>6. b \in Annotations /\ b.revision = old.revision + 1
    BY <2>2, <2>5 DEF Annotations
  <2> HIDE DEF b
  <2>7. annotation'[t] \in Annotations /\ (annotation'[t] = old \/ annotation'[t].revision > old.revision)
    BY <2>1, <2>3, <2>4, <2>6
  <2> QED BY <2>7 DEF old
<1>3. annotation' \in [Targets -> Annotations]
  BY <1>1, <1>2
<1>4. RowsAreCurrent' /\ OrganizationTypes'
  BY <1>1, <1>3 DEF OrganizationInv, RowsAreCurrent, OrganizationTypes
<1>5. OrganizationInv'
  BY <1>1, <1>2, <1>4, OrganizationMovesOn, StandingRows, StandingSearches DEF AnnotationsMoveOn, EditorsMoveOn
<1> QED BY <1>1, <1>5 DEF SavedAsSeen

LEMMA PurgeSessionKeeps ==
    ASSUME OrganizationInv, NEW s \in Sessions, PurgeSession(s)
    PROVE  OrganizationInv' /\ SavedAsSeen
<1>1. /\ row' = [row EXCEPT ![s] = None] /\ UNCHANGED <<tags, searches, editor, latest, revised>>
      /\ annotation' = [t \in Targets |-> IF t.session = s THEN NoAnnotation ELSE annotation[t]]
  BY DEF PurgeSession
<1>2. NoAnnotation \in Annotations
  BY DEF NoAnnotation, Annotations
<1>3. /\ row' \in [Sessions -> Nat \cup {None}] /\ row'[s] = None
      /\ \A x \in Sessions : x # s => row'[x] = row[x]
  BY <1>1 DEF OrganizationInv, RowsAreCurrent
<1>4. annotation' \in [Targets -> Annotations]
      /\ \A t \in Targets : annotation'[t] = annotation[t] \/ row'[t.session] = None
  <2>1. \A t \in Targets : annotation[t] \in Annotations
    BY DEF OrganizationInv, OrganizationTypes
  <2> QED BY <1>1, <1>2, <1>3, <2>1
<1>5. RowsAreCurrent'
  BY <1>1, <1>3 DEF OrganizationInv, RowsAreCurrent
<1>6. OrganizationTypes'
  BY <1>1, <1>4 DEF OrganizationInv, OrganizationTypes
<1>7. OrganizationInv'
  BY <1>1, <1>3, <1>4, <1>5, <1>6, OrganizationMovesOn, StandingSearches DEF RowsMoveOn, AnnotationsMoveOn, EditorsMoveOn
<1> QED BY <1>1, <1>7 DEF SavedAsSeen

LEMMA NewFingerprintKeeps ==
    ASSUME OrganizationInv, NEW s \in Sessions, NewFingerprint(s)
    PROVE  OrganizationInv' /\ SavedAsSeen
<1>1. /\ latest' = [latest EXCEPT ![s] = @ + 1] /\ row' = [row EXCEPT ![s] = latest[s] + 1]
      /\ UNCHANGED <<annotation, tags, searches, editor, revised>>
  BY DEF NewFingerprint
<1>2. latest[s] \in Nat /\ latest \in [Sessions -> Nat] /\ row \in [Sessions -> Nat \cup {None}]
  BY DEF OrganizationInv, RowsAreCurrent
<1>3. /\ row' \in [Sessions -> Nat \cup {None}] /\ latest' \in [Sessions -> Nat]
      /\ row'[s] = latest'[s] /\ latest'[s] = latest[s] + 1
      /\ \A x \in Sessions : x # s => row'[x] = row[x] /\ latest'[x] = latest[x]
  BY <1>1, <1>2
<1>4. RowsAreCurrent'
  BY <1>3 DEF OrganizationInv, RowsAreCurrent
<1>5. OrganizationTypes'
  BY <1>1 DEF OrganizationInv, OrganizationTypes
<1>6. RowsMoveOn
  BY <1>3 DEF RowsMoveOn
<1>7. OrganizationInv'
  BY <1>1, <1>4, <1>5, <1>6, OrganizationMovesOn, StandingSearches DEF AnnotationsMoveOn, EditorsMoveOn
<1> QED BY <1>1, <1>7 DEF SavedAsSeen

LEMMA LoadSearchKeeps ==
    ASSUME OrganizationInv, NEW e \in Editors, NEW id, LoadSearch(e, id)
    PROVE  OrganizationInv' /\ SavedAsSeen
<1> DEFINE ed == [search |-> id, saw |-> searches[id]]
<1>1. id \in DOMAIN searches /\ id \in Nat /\ searches[id] \in Searches /\ searches[id] # None
  BY DEF LoadSearch, OrganizationInv, OrganizationTypes
<1>2. ed \in Loaded /\ "target" \notin DOMAIN ed /\ ed.search = id /\ ed.saw = searches[id]
  BY <1>1 DEF Loaded
<1>3. editor' = [editor EXCEPT ![e] = ed] /\ UNCHANGED <<row, annotation, tags, searches, latest, revised>>
  BY DEF LoadSearch
<1> HIDE DEF ed
<1>4. Behind(ed, row, latest, annotation, searches)
  <2>1. Follows(searches[id], searches[id])
    BY <1>1, RevisionsAreNat DEF Follows
  <2> QED BY <1>1, <1>2, <2>1 DEF Behind
<1>5. RowsAreCurrent' /\ OrganizationTypes'
  BY <1>2, <1>3 DEF OrganizationInv, RowsAreCurrent, OrganizationTypes
<1>6. \A x \in Editors : editor'[x] = editor[x] \/ (editor'[x] = ed /\ ed # None)
  BY <1>2, <1>3, LoadedEditors DEF OrganizationInv, OrganizationTypes
<1>7. EditorsMoveOn
  BY <1>3, <1>4, <1>6 DEF EditorsMoveOn
<1>8. OrganizationInv'
  BY <1>3, <1>5, <1>7, OrganizationMovesOn, StandingRows, StandingSearches DEF AnnotationsMoveOn
<1> QED BY <1>6, <1>8 DEF SavedAsSeen

LEMMA NewSearchKeeps ==
    ASSUME OrganizationInv, NEW name \in Names, NewSearch(name)
    PROVE  OrganizationInv' /\ SavedAsSeen
<1> DEFINE q == [revision |-> 1, name |-> name]
<1>1. searches' = Append(searches, q) /\ UNCHANGED <<row, annotation, tags, editor, latest>>
  BY DEF NewSearch
<1>2. q \in Searches /\ searches \in Seq(Searches \cup {None})
  BY DEF Searches, OrganizationInv, OrganizationTypes
<1> HIDE DEF q
<1>3. searches' \in Seq(Searches \cup {None}) /\ Len(searches') = Len(searches) + 1
      /\ \A i \in 1..Len(searches) : searches'[i] = searches[i]
  BY <1>1, <1>2, AppendProperties
<1>4. SearchesMoveOn
  BY <1>2, <1>3 DEF SearchesMoveOn
<1>5. RowsAreCurrent' /\ OrganizationTypes'
  BY <1>1, <1>3 DEF OrganizationInv, RowsAreCurrent, OrganizationTypes
<1>6. OrganizationInv'
  BY <1>1, <1>4, <1>5, OrganizationMovesOn, StandingRows DEF AnnotationsMoveOn, EditorsMoveOn
<1> QED BY <1>1, <1>6 DEF SavedAsSeen

LEMMA EditSearchKeeps ==
    ASSUME OrganizationInv, NEW e \in Editors, NEW changed \in Names \cup {None}, EditSearch(e, changed)
    PROVE  OrganizationInv' /\ SavedAsSeen
<1> DEFINE ed == editor[e]
           id == ed.search
           old == searches[id]
           q == IF changed = None THEN None ELSE [revision |-> old.revision + 1, name |-> changed]
<1>1. /\ ed # None /\ "search" \in DOMAIN ed /\ old # None /\ old.revision = ed.saw.revision
      /\ searches' = [searches EXCEPT ![id] = q] /\ editor' = [editor EXCEPT ![e] = None]
      /\ UNCHANGED <<row, annotation, tags, latest>>
  BY DEF EditSearch
<1>2. ed \in Loaded /\ "target" \notin DOMAIN ed /\ Behind(ed, row, latest, annotation, searches)
  BY <1>1, LoadedEditors DEF OrganizationInv, OrganizationTypes
<1>3. id \in DOMAIN searches /\ old = ed.saw
  BY <1>1, <1>2 DEF Behind, Follows
<1>4. old \in Searches /\ old.revision \in Nat /\ searches \in Seq(Searches \cup {None})
  BY <1>1, <1>3, RevisionsAreNat DEF OrganizationInv, OrganizationTypes
<1>5. q \in Searches \cup {None} /\ (q # None => q.revision > old.revision)
  BY <1>4 DEF Searches
<1> HIDE DEF q
<1>6. searches' \in Seq(Searches \cup {None}) /\ SearchesMoveOn
  <2>1. searches' \in Seq(Searches \cup {None}) /\ DOMAIN searches' = DOMAIN searches /\ searches'[id] = q
        /\ \A i \in DOMAIN searches : i # id => searches'[i] = searches[i]
    BY <1>1, <1>3, <1>4, <1>5
  <2> QED BY <1>1, <1>3, <1>5, <2>1 DEF SearchesMoveOn
<1>7. \A x \in Editors : editor'[x] = editor[x] \/ (x = e /\ editor'[x] = None)
  BY <1>1 DEF OrganizationInv, OrganizationTypes
<1>8. RowsAreCurrent' /\ OrganizationTypes'
  BY <1>1, <1>6 DEF OrganizationInv, RowsAreCurrent, OrganizationTypes
<1>9. OrganizationInv'
  BY <1>1, <1>6, <1>7, <1>8, OrganizationMovesOn, StandingRows DEF AnnotationsMoveOn, EditorsMoveOn
<1>10. SavedAsSeen
  BY <1>2, <1>3, <1>7 DEF SavedAsSeen
<1> QED BY <1>9, <1>10

LEMMA AuthoringKeeps == ASSUME OrganizationInv, AuthoringNext PROVE OrganizationInv' /\ SavedAsSeen
  BY LoadAnnotationKeeps, EditAnnotationKeeps, EditBookmarkKeeps, ChangeTagKeeps, LoadSearchKeeps,
     NewSearchKeeps, EditSearchKeeps DEF AuthoringNext

LEMMA OrganizationStands == ASSUME OrganizationInv, UNCHANGED organizationVars PROVE OrganizationInv' /\ SavedAsSeen
  BY DEF organizationVars, OrganizationInv, RowsAreCurrent, OrganizationTypes, SavedAsSeen

LEMMA OrganizationStep ==
    ASSUME OrganizationInv, [OrganizationNext]_organizationVars PROVE OrganizationInv' /\ SavedAsSeen
  BY AuthoringKeeps, PurgeSessionKeeps, NewFingerprintKeeps, OrganizationStands DEF OrganizationNext

-----------------------------------------------------------------------------
(* The journal and the cases.                                              *)

\* What the last change of a case says of it.
Explains(ch, case) ==
    IF case = None THEN ch.change = "removed"
    ELSE /\ ch.change # "removed" /\ ch.content = case.content
         /\ ch.revision = case.version

IsLastChange(ch, journal) == \A other \in journal : other.case = ch.case => other.revision <= ch.revision

JournalIsSound ==
    /\ datasetRevision \in Nat
    /\ \A ch \in changes : /\ ch.revision \in 1..datasetRevision /\ ch.revision > datasetRevision - JournalLimit
                           /\ ch.case \in DOMAIN cases
                           /\ IsLastChange(ch, changes) => Explains(ch, cases[ch.case])
    /\ \A a, b \in changes : a.revision = b.revision => a = b
    /\ \A n \in 1..datasetRevision : n > datasetRevision - JournalLimit =>
          \E ch \in changes : ch.revision = n

CasesAreSound ==
    /\ cases \in Seq(Cases \cup {None})
    /\ \A id \in Stored(cases) : row[cases[id].session] = cases[id].fingerprint

\* A change leaves alone what it does not name.
SameCase(case, other) ==
    IF case = None THEN other = None
    ELSE other # None /\ other.content = case.content /\ other.version = case.version

LEMMA StoredCases ==
    ASSUME CasesAreSound
    PROVE  /\ DOMAIN cases = 1..Len(cases) /\ Len(cases) \in Nat
           /\ \A id \in Stored(cases) : id \in DOMAIN cases /\ id \in Nat /\ cases[id] \in Cases /\ cases[id] # None
           /\ \A case \in Cases : case # None
           /\ IsFiniteSet(Stored(cases))
<1>1. DOMAIN cases = 1..Len(cases) /\ Len(cases) \in Nat
  BY DEF CasesAreSound
<1>2. \A id \in Stored(cases) : id \in DOMAIN cases /\ id \in Nat /\ cases[id] \in Cases /\ cases[id] # None
  BY DEF CasesAreSound, Stored
<1>3. \A case \in Cases : case # None
  BY CuratedAssumption
<1>4. IsFiniteSet(Stored(cases))
  <2>1. IsFiniteSet(1..Len(cases))
    BY <1>1, FS_Interval
  <2>2. Stored(cases) \subseteq 1..Len(cases)
    BY <1>1, <1>2
  <2> QED BY <2>1, <2>2, FS_Subset
<1> QED BY <1>1, <1>2, <1>3, <1>4

\* Changes that take the next revisions, each of a case of its own, are journalled.
LEMMA JournalKeeps ==
    ASSUME JournalIsSound, NEW made, NEW last \in Nat, last >= datasetRevision,
           DOMAIN cases \subseteq DOMAIN cases',
           datasetRevision' = last, changes' = Journal(changes, made, last),
           \A m \in made : m.revision \in (datasetRevision + 1)..last /\ m.case \in DOMAIN cases'
                           /\ Explains(m, cases'[m.case]),
           \A n \in (datasetRevision + 1)..last : \E m \in made : m.revision = n,
           \A a, b \in made : a.revision = b.revision \/ a.case = b.case => a = b,
           \A id \in DOMAIN cases : (\A m \in made : m.case # id) => SameCase(cases[id], cases'[id])
    PROVE  JournalIsSound'
<1>0. JournalLimit \in Nat /\ datasetRevision \in Nat
  BY CuratedAssumption DEF JournalIsSound
<1>1. \A ch : ch \in changes' <=> (ch \in changes \/ ch \in made) /\ ch.revision > last - JournalLimit
  BY DEF Journal
<1>2. ASSUME NEW ch \in changes'
      PROVE  /\ ch.revision \in 1..last /\ ch.revision > last - JournalLimit /\ ch.case \in DOMAIN cases'
             /\ IsLastChange(ch, changes') => Explains(ch, cases'[ch.case])
  <2>1. CASE ch \in made
    BY <1>0, <1>1, <2>1
  <2>2. CASE ch \in changes /\ ch \notin made
    <3>1. ch.revision \in 1..datasetRevision /\ ch.case \in DOMAIN cases
      BY <2>2 DEF JournalIsSound
    <3>2. ASSUME IsLastChange(ch, changes') PROVE Explains(ch, cases'[ch.case])
      <4>1. \A m \in made : m.case # ch.case
        <5> SUFFICES ASSUME NEW m \in made, m.case = ch.case PROVE FALSE
          OBVIOUS
        <5>1. m.revision > datasetRevision /\ m.revision \in Nat
          BY <1>0
        <5>2. m \in changes'
          BY <1>0, <1>1, <1>2, <3>1, <5>1
        <5>3. m.revision <= ch.revision
          BY <3>2, <5>2 DEF IsLastChange
        <5> QED BY <1>0, <3>1, <5>1, <5>3
      <4>2. IsLastChange(ch, changes)
        <5> SUFFICES ASSUME NEW other \in changes, other.case = ch.case PROVE other.revision <= ch.revision
          BY DEF IsLastChange
        <5>1. other.revision \in Nat /\ ch.revision \in Nat /\ ch.revision > last - JournalLimit
          BY <1>1, <3>1 DEF JournalIsSound
        <5>2. CASE other \in changes'
          BY <3>2, <5>2 DEF IsLastChange
        <5>3. CASE other \notin changes'
          BY <1>0, <1>1, <5>1, <5>3
        <5> QED BY <5>2, <5>3
      <4>3. Explains(ch, cases[ch.case])
        BY <2>2, <4>2 DEF JournalIsSound
      <4>4. SameCase(cases[ch.case], cases'[ch.case])
        BY <3>1, <4>1
      <4> QED BY <4>3, <4>4 DEF Explains, SameCase
    <3>3. ch.revision > last - JournalLimit
      BY <1>1
    <3> QED BY <1>0, <3>1, <3>2, <3>3
  <2> QED BY <1>1, <2>1, <2>2
<1>3. ASSUME NEW a \in changes', NEW b \in changes', a.revision = b.revision PROVE a = b
  <2>1. \A ch \in changes : ch.revision <= datasetRevision /\ ch.revision \in Nat
    BY <1>0 DEF JournalIsSound
  <2>2. \A m \in made : m.revision > datasetRevision /\ m.revision \in Nat
    BY <1>0
  <2>3. CASE a \in changes /\ b \in changes
    BY <1>3, <2>3 DEF JournalIsSound
  <2>4. CASE a \in made /\ b \in made
    BY <1>3, <2>4
  <2>5. CASE a \in changes /\ b \in made
    BY <1>0, <1>3, <2>1, <2>2, <2>5
  <2>6. CASE a \in made /\ b \in changes
    BY <1>0, <1>3, <2>1, <2>2, <2>6
  <2> QED BY <1>1, <2>3, <2>4, <2>5, <2>6
<1>4. ASSUME NEW n \in 1..last, n > last - JournalLimit PROVE \E ch \in changes' : ch.revision = n
  <2>1. CASE n <= datasetRevision
    <3>1. n \in 1..datasetRevision /\ n > datasetRevision - JournalLimit
      BY <1>0, <1>4, <2>1
    <3>2. PICK ch \in changes : ch.revision = n
      BY <3>1 DEF JournalIsSound
    <3> QED BY <1>1, <1>4, <3>2
  <2>2. CASE n > datasetRevision
    <3>1. PICK m \in made : m.revision = n
      BY <1>0, <2>2
    <3> QED BY <1>1, <1>4, <3>1
  <2> QED BY <1>0, <2>1, <2>2
<1> QED BY <1>2, <1>3, <1>4 DEF JournalIsSound

\* What is left alone by a step that makes no change of the dataset.
LEMMA JournalStands ==
    ASSUME JournalIsSound, CasesAreSound, UNCHANGED <<datasetRevision, changes>>,
           DOMAIN cases' = DOMAIN cases, \A id \in DOMAIN cases : SameCase(cases[id], cases'[id])
    PROVE  JournalIsSound' /\ Dataset' = Dataset
<1>1. ASSUME NEW ch \in changes PROVE Explains(ch, cases[ch.case]) => Explains(ch, cases'[ch.case])
  <2>1. SameCase(cases[ch.case], cases'[ch.case])
    BY DEF JournalIsSound
  <2> QED BY <2>1 DEF SameCase, Explains
<1>2. JournalIsSound'
  BY <1>1 DEF JournalIsSound
<1>3. Stored(cases') = Stored(cases)
  BY DEF Stored, SameCase
<1>4. \A id \in Stored(cases) : cases'[id].version = cases[id].version /\ cases'[id].content = cases[id].content
  BY DEF Stored, SameCase
<1> QED BY <1>2, <1>3, <1>4 DEF Dataset

-----------------------------------------------------------------------------
(* The comparisons.                                                        *)

IsList(list) == \E S : list \in Seq(S)

\* The frozen inputs are those of the members, as long as their cases are stored.
ExperimentIsSound(e, stored) ==
    /\ e = [revision |-> e.revision, members |-> e.members, frozen |-> e.frozen]
    /\ e.revision \in Nat /\ IsFiniteSet(DOMAIN e.members)
    /\ e.frozen = [id \in DOMAIN e.frozen |-> e.frozen[id]]
    /\ DOMAIN e.frozen \subseteq stored \cap DOMAIN e.members
    /\ \A id \in DOMAIN e.frozen : /\ e.frozen[id].input = e.members[id].content
                                   /\ e.frozen[id].result \in [Variants -> Statuses \cup {None}]

ExperimentsAreSound ==
    /\ IsList(experiments)
    /\ \A e \in Stored(experiments) : ExperimentIsSound(experiments[e], Stored(cases))

\* A comparison that is changed has another revision, and its id is not used again.
ExperimentsMoveOn ==
    \A e \in DOMAIN experiments :
        /\ e \in DOMAIN experiments'
        /\ experiments'[e] # None =>
              /\ experiments[e] # None
              /\ experiments'[e] = experiments[e] \/ experiments'[e].revision > experiments[e].revision

DatasetMovesOn ==
    \/ datasetRevision' > datasetRevision
    \/ datasetRevision' = datasetRevision /\ Dataset' = Dataset

\* No frozen input changes.
ResultsStand ==
    \A e \in Stored(experiments) \cap Stored(experiments') :
        \A id \in DOMAIN experiments[e].frozen \cap DOMAIN experiments'[e].frozen :
            experiments'[e].frozen[id] = experiments[e].frozen[id]

LEMMA ListFunction ==
    ASSUME NEW list, IsList(list)
    PROVE  /\ DOMAIN list = 1..Len(list) /\ Len(list) \in Nat
           /\ list = [i \in 1..Len(list) |-> list[i]]
  BY DEF IsList

LEMMA FunctionList ==
    ASSUME NEW n \in Nat, NEW list, DOMAIN list = 1..n, list = [i \in 1..n |-> list[i]]
    PROVE  IsList(list)
<1> DEFINE S == {list[i] : i \in 1..n}
<1>1. list \in [1..n -> S]
  OBVIOUS
<1>2. list \in Seq(S)
  BY <1>1
<1> QED BY <1>2 DEF IsList

LEMMA AppendedList ==
    ASSUME NEW list, IsList(list), NEW x
    PROVE  /\ IsList(Append(list, x)) /\ DOMAIN Append(list, x) = 1..(Len(list) + 1)
           /\ Append(list, x)[Len(list) + 1] = x
           /\ \A i \in DOMAIN list : i \in DOMAIN Append(list, x) /\ Append(list, x)[i] = list[i]
<1>1. PICK S : list \in Seq(S)
  BY DEF IsList
<1> DEFINE T == S \cup {x}
<1>2. list \in Seq(T) /\ x \in T
  BY <1>1
<1> HIDE DEF T
<1>3. /\ Append(list, x) \in Seq(T) /\ Len(Append(list, x)) = Len(list) + 1
      /\ \A i \in 1..Len(list) : Append(list, x)[i] = list[i]
      /\ Append(list, x)[Len(list) + 1] = x
  BY <1>2, AppendProperties
<1> QED BY <1>2, <1>3 DEF IsList

\* Without the frozen inputs of some cases.
LEMMA WithoutCasesKeeps ==
    ASSUME NEW e, NEW stored, NEW ids, ExperimentIsSound(e, stored)
    PROVE  /\ ExperimentIsSound(WithoutCases(e, ids), stored \ ids) \/ e = None
           /\ e # None =>
                 /\ WithoutCases(e, ids) = e \/ WithoutCases(e, ids).revision > e.revision
                 /\ DOMAIN WithoutCases(e, ids).frozen \subseteq DOMAIN e.frozen
                 /\ \A id \in DOMAIN WithoutCases(e, ids).frozen : WithoutCases(e, ids).frozen[id] = e.frozen[id]
<1> SUFFICES ASSUME e # None
             PROVE  /\ ExperimentIsSound(WithoutCases(e, ids), stored \ ids)
                    /\ WithoutCases(e, ids) = e \/ WithoutCases(e, ids).revision > e.revision
                    /\ DOMAIN WithoutCases(e, ids).frozen \subseteq DOMAIN e.frozen
                    /\ \A id \in DOMAIN WithoutCases(e, ids).frozen : WithoutCases(e, ids).frozen[id] = e.frozen[id]
  OBVIOUS
<1> DEFINE f == [id \in DOMAIN e.frozen \ ids |-> e.frozen[id]]
           gone == DOMAIN e.frozen \cap ids
           n == Cardinality(gone)
           w == WithoutCases(e, ids)
           r == e.revision
           m == e.members
           g == e.frozen
<1>1. e = [revision |-> r, members |-> m, frozen |-> g] /\ r \in Nat /\ g = [id \in DOMAIN g |-> g[id]]
      /\ DOMAIN g \subseteq stored \cap DOMAIN m /\ IsFiniteSet(DOMAIN m)
  BY DEF ExperimentIsSound
<1>2. w = [revision |-> r + n, members |-> m, frozen |-> f]
  <2>1. w = [e EXCEPT !.frozen = f, !.revision = r + n]
    BY DEF WithoutCases
  <2> HIDE DEF f, n, r, m, g
  <2> QED BY <1>1, <2>1
<1>3. n \in Nat /\ (n = 0 => gone = {})
  <2>1. IsFiniteSet(gone)
    BY <1>1, FS_Subset
  <2> QED BY <2>1, FS_CardinalityType, FS_EmptySet
<1>4. CASE n = 0
  <2>1. f = g
    BY <1>1, <1>3, <1>4
  <2>2. w = e
    <3> HIDE DEF n, f, r, m, g, w
    <3> QED BY <1>1, <1>2, <1>4, <2>1
  <2>3. DOMAIN g \subseteq stored \ ids
    BY <1>1, <1>3, <1>4
  <2> QED BY <2>2, <2>3 DEF ExperimentIsSound
<1>5. CASE n # 0
  <2>1. w.revision = r + n /\ w.members = m /\ w.frozen = f
    BY <1>2
  <2>2. w.revision \in Nat /\ w.revision > r
    BY <1>1, <1>3, <1>5, <2>1
  <2>3. DOMAIN f = DOMAIN g \ ids /\ (\A id \in DOMAIN f : f[id] = g[id]) /\ f = [id \in DOMAIN f |-> f[id]]
    OBVIOUS
  <2>4. \A id \in DOMAIN g : g[id].input = m[id].content /\ g[id].result \in [Variants -> Statuses \cup {None}]
    BY DEF ExperimentIsSound
  <2>5. w = [revision |-> w.revision, members |-> w.members, frozen |-> w.frozen]
    BY <1>2, <2>1
  <2> HIDE DEF w, f, m, g, r, n
  <2>6. ExperimentIsSound(w, stored \ ids)
    BY <1>1, <2>1, <2>2, <2>3, <2>4, <2>5 DEF ExperimentIsSound
  <2> QED BY <2>1, <2>2, <2>3, <2>6 DEF w, f, g, r
<1> QED BY <1>4, <1>5

\* A purge of some cases takes the next revisions, one for each, in any order.
LEMMA DeleteCasesKeeps ==
    ASSUME JournalIsSound, CasesAreSound, ExperimentsAreSound,
           NEW ids, ids \subseteq Stored(cases), DeleteCases(ids)
    PROVE  /\ JournalIsSound' /\ DatasetMovesOn /\ ExperimentsAreSound' /\ ExperimentsMoveOn /\ ResultsStand
           /\ cases' \in Seq(Cases \cup {None})
           /\ Stored(cases') = Stored(cases) \ ids
           /\ \A id \in Stored(cases') : cases'[id] = cases[id]
<1> DEFINE n == Cardinality(ids)
           last == datasetRevision + n
           Made(nth) == {Change(datasetRevision + nth[id], id, "removed", cases[id].content) : id \in ids}
<1>1. PICK nth \in [ids -> 1..n] :
          /\ \A a, b \in ids : nth[a] = nth[b] => a = b
          /\ cases' = [id \in DOMAIN cases |-> IF id \in ids THEN None ELSE cases[id]]
          /\ experiments' = [e \in DOMAIN experiments |-> WithoutCases(experiments[e], ids)]
          /\ Changes(Made(nth), last)
  BY DEF DeleteCases
<1> DEFINE made == Made(nth)
<1>2. IsFiniteSet(ids) /\ n \in Nat /\ datasetRevision \in Nat /\ last \in Nat /\ last >= datasetRevision
  <2>1. IsFiniteSet(ids)
    BY StoredCases, FS_Subset
  <2> QED BY <2>1, FS_CardinalityType DEF JournalIsSound
<1>3. \A i \in 1..n : \E id \in ids : nth[id] = i
  <2>1. nth \in Injection(ids, 1..n)
    BY <1>1 DEF Injection, IsInjective
  <2>2. IsFiniteSet(1..n) /\ Cardinality(1..n) = n
    <3> HIDE DEF n
    <3> QED BY <1>2, FS_Interval
  <2>3. nth \in Surjection(ids, 1..n)
    BY <2>1, <2>2, FS_Injection
  <2> QED BY <2>3 DEF Surjection
<1>4. /\ \A id \in ids : nth[id] \in 1..n /\ id \in DOMAIN cases
      /\ \A m \in made : \E id \in ids : /\ m.revision = datasetRevision + nth[id] /\ m.case = id
                                         /\ m.change = "removed"
      /\ \A id \in ids : \E m \in made : m.revision = datasetRevision + nth[id] /\ m.case = id
  <2>1. \A id \in ids : nth[id] \in 1..n /\ id \in DOMAIN cases
    BY <1>1 DEF Stored
  <2> DEFINE Removal(id) == Change(datasetRevision + nth[id], id, "removed", cases[id].content)
  <2>2. \A id \in ids : /\ Removal(id).revision = datasetRevision + nth[id] /\ Removal(id).case = id
                        /\ Removal(id).change = "removed"
    BY DEF Change
  <2>3. made = {Removal(id) : id \in ids}
    OBVIOUS
  <2> HIDE DEF Removal, made
  <2> QED BY <2>1, <2>2, <2>3
<1>5. /\ DOMAIN cases' = DOMAIN cases
      /\ \A id \in DOMAIN cases : cases'[id] = IF id \in ids THEN None ELSE cases[id]
  BY <1>1
<1>6. datasetRevision' = last /\ changes' = Journal(changes, made, last)
  BY <1>1 DEF Changes
<1>6a. \A a, b \in made : a.revision = b.revision \/ a.case = b.case => a = b
  <2> SUFFICES ASSUME NEW a \in made, NEW b \in made, a.revision = b.revision \/ a.case = b.case PROVE a = b
    OBVIOUS
  <2>1. PICK i \in ids : a = Change(datasetRevision + nth[i], i, "removed", cases[i].content)
    OBVIOUS
  <2>2. PICK j \in ids : b = Change(datasetRevision + nth[j], j, "removed", cases[j].content)
    OBVIOUS
  <2>3. a.revision = datasetRevision + nth[i] /\ a.case = i /\ b.revision = datasetRevision + nth[j] /\ b.case = j
    BY <2>1, <2>2 DEF Change
  <2>4. nth[i] \in Nat /\ nth[j] \in Nat
    BY <1>2, <1>4
  <2>5. i = j
    BY <1>1, <1>2, <2>3, <2>4
  <2> QED BY <2>1, <2>2, <2>5
<1> HIDE DEF made, n, last
<1>7. JournalIsSound'
  <2>1. \A m \in made : m.revision \in (datasetRevision + 1)..last /\ m.case \in DOMAIN cases'
                           /\ Explains(m, cases'[m.case])
    <3> SUFFICES ASSUME NEW m \in made
                 PROVE  /\ m.revision \in (datasetRevision + 1)..last /\ m.case \in DOMAIN cases'
                        /\ Explains(m, cases'[m.case])
      OBVIOUS
    <3>1. PICK id \in ids : m.revision = datasetRevision + nth[id] /\ m.case = id /\ m.change = "removed"
      BY <1>4
    <3>2. nth[id] \in 1..n /\ id \in DOMAIN cases
      BY <1>4
    <3>3. cases'[id] = None
      BY <1>5, <3>2
    <3>4. m.revision \in (datasetRevision + 1)..last
      BY <1>2, <3>1, <3>2 DEF last
    <3> QED BY <1>5, <3>1, <3>2, <3>3, <3>4 DEF Explains
  <2>2. \A k \in (datasetRevision + 1)..last : \E m \in made : m.revision = k
    <3> SUFFICES ASSUME NEW k \in (datasetRevision + 1)..last PROVE \E m \in made : m.revision = k
      OBVIOUS
    <3>1. k - datasetRevision \in 1..n
      BY <1>2 DEF last
    <3>2. PICK id \in ids : nth[id] = k - datasetRevision
      BY <1>3, <3>1
    <3>3. PICK m \in made : m.revision = datasetRevision + nth[id]
      BY <1>4
    <3>4. m.revision = k
      BY <1>2, <3>2, <3>3
    <3> QED BY <3>4
  <2>3. \A id \in DOMAIN cases : (\A m \in made : m.case # id) => SameCase(cases[id], cases'[id])
    BY <1>4, <1>5 DEF SameCase
  <2> QED BY <1>2, <1>5, <1>6, <1>6a, <2>1, <2>2, <2>3, JournalKeeps
<1>8. /\ cases' \in Seq(Cases \cup {None}) /\ Stored(cases') = Stored(cases) \ ids
      /\ \A id \in Stored(cases') : cases'[id] = cases[id]
  <2>1. cases' \in Seq(Cases \cup {None})
    <3>1. Len(cases) \in Nat /\ DOMAIN cases = 1..Len(cases) /\ \A id \in DOMAIN cases : cases[id] \in Cases \cup {None}
      BY DEF CasesAreSound
    <3>2. cases' \in [1..Len(cases) -> Cases \cup {None}]
      BY <1>1, <3>1
    <3> QED BY <3>1, <3>2
  <2>2. Stored(cases') = Stored(cases) \ ids
    BY <1>5 DEF Stored
  <2>3. \A id \in Stored(cases') : cases'[id] = cases[id]
    BY <1>5 DEF Stored
  <2> QED BY <2>1, <2>2, <2>3
<1>9. DatasetMovesOn
  <2>1. CASE n = 0
    <3>1. ids = {}
      BY <1>2, <2>1, FS_EmptySet DEF n
    <3>2. cases' = cases
      <4>1. cases = [id \in DOMAIN cases |-> cases[id]]
        BY DEF CasesAreSound
      <4> QED BY <1>1, <3>1, <4>1
    <3>3. made = {}
      BY <3>1 DEF made
    <3>4. last = datasetRevision
      BY <1>2, <2>1 DEF last
    <3>5. changes' = changes
      BY <1>6, <3>3, <3>4 DEF Journal, JournalIsSound
    <3>6. Dataset' = Dataset
      BY <1>6, <3>2, <3>4, <3>5 DEF Dataset
    <3> QED BY <1>6, <3>4, <3>6 DEF DatasetMovesOn
  <2>2. CASE n # 0
    BY <1>2, <1>6, <2>2 DEF DatasetMovesOn, last
  <2> QED BY <2>1, <2>2
<1>10. /\ DOMAIN experiments' = DOMAIN experiments
       /\ \A e \in DOMAIN experiments : experiments'[e] = WithoutCases(experiments[e], ids)
  BY <1>1
<1>11. ASSUME NEW e \in DOMAIN experiments, experiments[e] # None
       PROVE  /\ ExperimentIsSound(experiments'[e], Stored(cases'))
              /\ experiments'[e] = experiments[e] \/ experiments'[e].revision > experiments[e].revision
              /\ \A id \in DOMAIN experiments'[e].frozen : experiments'[e].frozen[id] = experiments[e].frozen[id]
  <2> DEFINE x == experiments[e]
  <2>1. ExperimentIsSound(x, Stored(cases))
    BY <1>11 DEF ExperimentsAreSound, Stored
  <2> HIDE DEF x
  <2>2. /\ ExperimentIsSound(WithoutCases(x, ids), Stored(cases) \ ids) \/ x = None
        /\ x # None =>
              /\ WithoutCases(x, ids) = x \/ WithoutCases(x, ids).revision > x.revision
              /\ DOMAIN WithoutCases(x, ids).frozen \subseteq DOMAIN x.frozen
              /\ \A id \in DOMAIN WithoutCases(x, ids).frozen : WithoutCases(x, ids).frozen[id] = x.frozen[id]
    BY <2>1, WithoutCasesKeeps
  <2> QED BY <1>8, <1>10, <1>11, <2>2 DEF x
<1>12. \A e \in DOMAIN experiments : experiments[e] = None => experiments'[e] = None
  BY <1>10 DEF WithoutCases
<1>13. ExperimentsAreSound' /\ ExperimentsMoveOn /\ ResultsStand
  <2>1. IsList(experiments')
    <3>1. DOMAIN experiments = 1..Len(experiments) /\ Len(experiments) \in Nat
      BY ListFunction DEF ExperimentsAreSound
    <3>2. experiments' = [e \in 1..Len(experiments) |-> experiments'[e]]
      BY <1>1, <3>1
    <3> QED BY <1>10, <3>1, <3>2, FunctionList
  <2>2. \A e \in Stored(experiments') : ExperimentIsSound(experiments'[e], Stored(cases'))
    BY <1>10, <1>11, <1>12 DEF Stored
  <2>3. ExperimentsMoveOn
    BY <1>10, <1>11, <1>12 DEF ExperimentsMoveOn
  <2>4. ResultsStand
    BY <1>10, <1>11 DEF ResultsStand, Stored
  <2> QED BY <2>1, <2>2, <2>3, <2>4 DEF ExperimentsAreSound
<1> QED BY <1>7, <1>8, <1>9, <1>13

-----------------------------------------------------------------------------
(* What previews, drafts and jobs remember of the world they were made in. *)

PlanIsSound(p, revision, dataset) ==
    /\ p.session \in Sessions /\ p.fingerprint \in Nat
    /\ p.datasetRevision \in Nat /\ p.datasetRevision <= revision
    /\ p.datasetRevision = revision => p.saw = dataset

PreviewIsSound(pv, revision, dataset) == PlanIsSound(pv.p, revision, dataset) /\ pv.content \in Contents

DraftIsSound(d, exps) ==
    d.kind = "import" =>
        /\ d.experiment \in DOMAIN exps /\ d.revision \in Nat /\ d.variant \in Variants /\ d.status \in Statuses
        /\ exps[d.experiment] # None =>
              /\ d.revision <= exps[d.experiment].revision
              /\ d.revision = exps[d.experiment].revision => d.saw = exps[d.experiment].frozen

\* Shown is fixed by the revisions.
ReviewIsSound(j, revision, dataset, exps) ==
    IF j.what = TheDataset
    THEN /\ j.reviewed.revision \in Nat /\ j.reviewed.revision <= revision
         /\ j.reviewed.revision = revision => j.reviewed = dataset
    ELSE /\ j.what \in DOMAIN exps /\ j.reviewed.dataset \in Nat /\ j.reviewed.revision \in Nat
         /\ j.reviewed.dataset <= revision
         /\ exps[j.what] # None =>
               /\ j.reviewed.revision <= exps[j.what].revision
               /\ j.reviewed.revision = exps[j.what].revision /\ j.reviewed.dataset = revision =>
                     j.reviewed = ReportOf(exps[j.what], revision)

JobIsSound(j, revision, dataset, exps) ==
    /\ j.at = "prepare" => PlanIsSound(j.p, revision, dataset) /\ j.outcome \in Outcomes \cup {None}
    /\ j.at = "commit" => PlanIsSound(j.p, revision, dataset) /\ j.content \in Contents
    /\ j.at \in {"picker", "publish"} =>
          /\ j = [at |-> j.at, what |-> j.what, reviewed |-> j.reviewed]
          /\ ReviewIsSound(j, revision, dataset, exps)

TextsAreRead == text \in [Sessions -> Nat \cup {None}]

StoredIsSound == TextsAreRead /\ JournalIsSound /\ CasesAreSound /\ ExperimentsAreSound

CuratedInv ==
    /\ StoredIsSound /\ IsList(previews) /\ IsList(drafts)
    /\ \A i \in DOMAIN previews : PreviewIsSound(previews[i], datasetRevision, Dataset)
    /\ \A i \in DOMAIN drafts : DraftIsSound(drafts[i], experiments)
    /\ DOMAIN job = Clients /\ job = [c \in Clients |-> job[c]]
    /\ \A c \in Clients : job[c] # None => JobIsSound(job[c], datasetRevision, Dataset, experiments)

\* A step adds to them what is true of the world it leaves.
PreviewsMoveOn ==
    /\ IsList(previews')
    /\ \A i \in DOMAIN previews' : \/ \E j \in DOMAIN previews : previews'[i] = previews[j]
                                   \/ PreviewIsSound(previews'[i], datasetRevision', Dataset')
DraftsMoveOn ==
    /\ IsList(drafts')
    /\ \A i \in DOMAIN drafts' : \/ \E j \in DOMAIN drafts : drafts'[i] = drafts[j]
                                 \/ DraftIsSound(drafts'[i], experiments')
JobsMoveOn ==
    /\ DOMAIN job' = Clients /\ job' = [c \in Clients |-> job'[c]]
    /\ \A c \in Clients : \/ job'[c] \in {job[c], None}
                          \/ JobIsSound(job'[c], datasetRevision', Dataset', experiments')

LEMMA PlanStays ==
    ASSUME JournalIsSound, JournalIsSound', DatasetMovesOn, NEW p, PlanIsSound(p, datasetRevision, Dataset)
    PROVE  PlanIsSound(p, datasetRevision', Dataset')
<1>1. p.datasetRevision \in Nat /\ datasetRevision \in Nat /\ datasetRevision' \in Nat
  BY DEF PlanIsSound, JournalIsSound
<1>2. CASE datasetRevision' > datasetRevision
  BY <1>1, <1>2 DEF PlanIsSound
<1>3. CASE datasetRevision' = datasetRevision /\ Dataset' = Dataset
  BY <1>3 DEF PlanIsSound
<1> QED BY <1>2, <1>3 DEF DatasetMovesOn

LEMMA StoredRevisions ==
    ASSUME ExperimentsAreSound
    PROVE  \A e \in DOMAIN experiments : experiments[e] # None => experiments[e].revision \in Nat
  BY DEF ExperimentsAreSound, ExperimentIsSound, Stored

LEMMA DraftStays ==
    ASSUME ExperimentsAreSound, ExperimentsAreSound', ExperimentsMoveOn, NEW d, DraftIsSound(d, experiments)
    PROVE  DraftIsSound(d, experiments')
<1> SUFFICES ASSUME d.kind = "import" PROVE DraftIsSound(d, experiments')
  BY DEF DraftIsSound
<1> DEFINE e == d.experiment
<1>1. /\ e \in DOMAIN experiments /\ e \in DOMAIN experiments' /\ d.revision \in Nat
      /\ d.variant \in Variants /\ d.status \in Statuses
  BY DEF DraftIsSound, ExperimentsMoveOn
<1>2. ASSUME experiments'[e] # None
      PROVE  /\ d.revision <= experiments'[e].revision
             /\ d.revision = experiments'[e].revision => d.saw = experiments'[e].frozen
  <2>1. /\ experiments[e] # None
        /\ experiments'[e] = experiments[e] \/ experiments'[e].revision > experiments[e].revision
    BY <1>1, <1>2 DEF ExperimentsMoveOn
  <2>2. experiments[e].revision \in Nat
    BY <1>1, <2>1, StoredRevisions
  <2>3. experiments'[e].revision \in Nat
    BY <1>1, <1>2 DEF ExperimentsAreSound, ExperimentIsSound, Stored
  <2>4. d.revision <= experiments[e].revision
        /\ (d.revision = experiments[e].revision => d.saw = experiments[e].frozen)
    BY <2>1 DEF DraftIsSound
  <2>5. CASE experiments'[e] = experiments[e]
    BY <2>4, <2>5
  <2>6. CASE experiments'[e].revision > experiments[e].revision
    BY <1>1, <2>2, <2>3, <2>4, <2>6
  <2> QED BY <2>1, <2>5, <2>6
<1> QED BY <1>1, <1>2 DEF DraftIsSound

LEMMA ReviewStays ==
    ASSUME StoredIsSound, StoredIsSound', DatasetMovesOn, ExperimentsMoveOn,
           NEW j, ReviewIsSound(j, datasetRevision, Dataset, experiments)
    PROVE  ReviewIsSound(j, datasetRevision', Dataset', experiments')
<1> DEFINE r == j.reviewed
           e == j.what
<1>1. datasetRevision \in Nat /\ datasetRevision' \in Nat
  BY DEF StoredIsSound, JournalIsSound
<1>2. CASE e = TheDataset
  <2>1. r.revision \in Nat /\ r.revision <= datasetRevision /\ (r.revision = datasetRevision => r = Dataset)
    BY <1>2 DEF ReviewIsSound
  <2>2. CASE datasetRevision' > datasetRevision
    <3>1. r.revision <= datasetRevision' /\ r.revision # datasetRevision'
      BY <1>1, <2>1, <2>2
    <3> QED BY <1>2, <2>1, <3>1 DEF ReviewIsSound
  <2>3. CASE datasetRevision' = datasetRevision /\ Dataset' = Dataset
    BY <1>2, <2>1, <2>3 DEF ReviewIsSound
  <2> QED BY <2>2, <2>3 DEF DatasetMovesOn
<1>3. CASE e # TheDataset
  <2>1. /\ e \in DOMAIN experiments /\ r.dataset \in Nat /\ r.revision \in Nat /\ r.dataset <= datasetRevision
        /\ experiments[e] # None =>
              /\ r.revision <= experiments[e].revision
              /\ r.revision = experiments[e].revision /\ r.dataset = datasetRevision =>
                    r = ReportOf(experiments[e], datasetRevision)
    BY <1>3 DEF ReviewIsSound
  <2>2. e \in DOMAIN experiments' /\ r.dataset <= datasetRevision' /\ datasetRevision <= datasetRevision'
    BY <1>1, <2>1 DEF ExperimentsMoveOn, DatasetMovesOn
  <2>3. ASSUME experiments'[e] # None
        PROVE  /\ r.revision <= experiments'[e].revision
               /\ r.revision = experiments'[e].revision /\ r.dataset = datasetRevision' =>
                    r = ReportOf(experiments'[e], datasetRevision')
    <3>1. /\ experiments[e] # None
          /\ experiments'[e] = experiments[e] \/ experiments'[e].revision > experiments[e].revision
      BY <2>1, <2>3 DEF ExperimentsMoveOn
    <3>2. experiments[e].revision \in Nat
      BY <2>1, <3>1, StoredRevisions DEF StoredIsSound
    <3>3. experiments'[e].revision \in Nat
      BY <2>2, <2>3 DEF StoredIsSound, ExperimentsAreSound, ExperimentIsSound, Stored
    <3>4. CASE experiments'[e].revision > experiments[e].revision
      <4>1. r.revision <= experiments'[e].revision /\ r.revision # experiments'[e].revision
        BY <2>1, <3>1, <3>2, <3>3, <3>4
      <4> QED BY <4>1
    <3>5. CASE experiments'[e] = experiments[e]
      <4>1. r.revision <= experiments'[e].revision
        BY <2>1, <3>1, <3>5
      <4>2. ASSUME r.revision = experiments'[e].revision, r.dataset = datasetRevision'
            PROVE  r = ReportOf(experiments'[e], datasetRevision')
        <5>1. r.dataset = datasetRevision /\ datasetRevision' = datasetRevision
          BY <1>1, <2>1, <2>2, <4>2
        <5>2. r = ReportOf(experiments[e], datasetRevision)
          BY <2>1, <3>1, <3>5, <4>2, <5>1
        <5> QED BY <3>5, <5>1, <5>2
      <4> QED BY <4>1, <4>2
    <3> QED BY <3>1, <3>4, <3>5
  <2> QED BY <1>3, <2>1, <2>2, <2>3 DEF ReviewIsSound
<1> QED BY <1>2, <1>3

LEMMA CuratedMovesOn ==
    ASSUME CuratedInv, StoredIsSound', DatasetMovesOn, ExperimentsMoveOn,
           PreviewsMoveOn, DraftsMoveOn, JobsMoveOn
    PROVE  CuratedInv'
<1>1. ASSUME NEW i \in DOMAIN previews' PROVE PreviewIsSound(previews'[i], datasetRevision', Dataset')
  <2>1. CASE PreviewIsSound(previews'[i], datasetRevision', Dataset')
    BY <2>1
  <2>2. CASE \E j \in DOMAIN previews : previews'[i] = previews[j]
    <3>1. PICK j \in DOMAIN previews : previews'[i] = previews[j]
      BY <2>2
    <3> DEFINE pv == previews[j]
    <3>2. PlanIsSound(pv.p, datasetRevision, Dataset) /\ pv.content \in Contents
      BY DEF CuratedInv, PreviewIsSound
    <3> HIDE DEF pv
    <3>3. PlanIsSound(pv.p, datasetRevision', Dataset')
      BY <3>2, PlanStays DEF CuratedInv, StoredIsSound
    <3> QED BY <3>1, <3>2, <3>3 DEF pv, PreviewIsSound
  <2> QED BY <2>1, <2>2 DEF PreviewsMoveOn
<1>2. ASSUME NEW i \in DOMAIN drafts' PROVE DraftIsSound(drafts'[i], experiments')
  <2>1. CASE DraftIsSound(drafts'[i], experiments')
    BY <2>1
  <2>2. CASE \E j \in DOMAIN drafts : drafts'[i] = drafts[j]
    <3>1. PICK j \in DOMAIN drafts : drafts'[i] = drafts[j]
      BY <2>2
    <3> DEFINE d == drafts[j]
    <3>2. DraftIsSound(d, experiments)
      BY DEF CuratedInv
    <3> HIDE DEF d
    <3>3. DraftIsSound(d, experiments')
      BY <3>2, DraftStays DEF CuratedInv, StoredIsSound
    <3> QED BY <3>1, <3>3 DEF d
  <2> QED BY <2>1, <2>2 DEF DraftsMoveOn
<1>3. ASSUME NEW c \in Clients, job'[c] # None
      PROVE  JobIsSound(job'[c], datasetRevision', Dataset', experiments')
  <2>1. CASE JobIsSound(job'[c], datasetRevision', Dataset', experiments')
    BY <2>1
  <2>2. CASE job'[c] = job[c]
    <3> DEFINE j == job[c]
    <3>1. JobIsSound(j, datasetRevision, Dataset, experiments)
      BY <1>3, <2>2 DEF CuratedInv
    <3> HIDE DEF j
    <3>2. JobIsSound(j, datasetRevision', Dataset', experiments')
      BY <3>1, PlanStays, ReviewStays DEF CuratedInv, StoredIsSound, JobIsSound
    <3> QED BY <2>2, <3>2 DEF j
  <2> QED BY <1>3, <2>1, <2>2 DEF JobsMoveOn
<1> QED BY <1>1, <1>2, <1>3 DEF CuratedInv, PreviewsMoveOn, DraftsMoveOn, JobsMoveOn

-----------------------------------------------------------------------------
(* What is kept of a session's work has been reviewed (the step of         *)
(* OnlyReviewedWorkIsKept).                                                *)

ReviewedStep ==
    /\ published' # published => \E c \in Clients : job[c] # None /\ job[c].at = "publish"
                                    /\ Exists(job[c].what) /\ published' = Shown(job[c].what)
    /\ \A c \in Clients : job[c] # None /\ job[c].at = "commit" /\ cases' # cases /\ job'[c] = None =>
          job[c].p.saw = Dataset /\ Rating(job[c].p.session).outcome = job[c].content.outcome
    /\ \A e \in Stored(experiments) \cap Stored(experiments') :
          (\E id \in DOMAIN experiments[e].frozen \cap DOMAIN experiments'[e].frozen :
              experiments[e].frozen[id] # experiments'[e].frozen[id])
          => \E i \in DOMAIN drafts : drafts[i].kind = "import" /\ drafts[i].saw = experiments[e].frozen

LEMMA NothingIsKept ==
    ASSUME published' = published, cases' = cases \/ job' = job, ResultsStand PROVE ReviewedStep
<1>1. \A c \in Clients : ~(job[c] # None /\ cases' # cases /\ job'[c] = None)
  OBVIOUS
<1>2. \A e \in Stored(experiments) \cap Stored(experiments') :
          ~\E id \in DOMAIN experiments[e].frozen \cap DOMAIN experiments'[e].frozen :
              experiments[e].frozen[id] # experiments'[e].frozen[id]
  BY DEF ResultsStand
<1> QED BY <1>1, <1>2 DEF ReviewedStep

LEMMA RememberedKeeps ==
    ASSUME NEW list, IsList(list), NEW x
    PROVE  /\ IsList(Remembered(list, x))
           /\ \A i \in DOMAIN Remembered(list, x) :
                 Remembered(list, x)[i] = x \/ \E j \in DOMAIN list : Remembered(list, x)[i] = list[j]
<1> DEFINE short == IF Len(list) >= MaxPending THEN Tail(list) ELSE list
<1>1. IsList(short) /\ \A i \in DOMAIN short : \E j \in DOMAIN list : short[i] = list[j]
  <2>1. PICK S : list \in Seq(S)
    BY DEF IsList
  <2>2. CASE Len(list) >= MaxPending
    <3>1. list # << >>
      BY <2>1, <2>2, CuratedAssumption
    <3>2. Tail(list) \in Seq(S) /\ Len(Tail(list)) = Len(list) - 1 /\ \A i \in 1..(Len(list) - 1) : Tail(list)[i] = list[i + 1]
      BY <2>1, <3>1
    <3>3. \A i \in DOMAIN Tail(list) : i + 1 \in DOMAIN list /\ Tail(list)[i] = list[i + 1]
      BY <2>1, <3>1, <3>2
    <3> QED BY <2>2, <3>2, <3>3 DEF IsList
  <2>3. CASE ~(Len(list) >= MaxPending)
    BY <2>3
  <2> QED BY <2>2, <2>3
<1>2. Remembered(list, x) = Append(short, x)
  BY DEF Remembered
<1> HIDE DEF short
<1>3. /\ IsList(Append(short, x)) /\ DOMAIN Append(short, x) = 1..(Len(short) + 1)
      /\ Append(short, x)[Len(short) + 1] = x
      /\ \A i \in DOMAIN short : Append(short, x)[i] = short[i]
      /\ DOMAIN short = 1..Len(short) /\ Len(short) \in Nat
  BY <1>1, AppendedList, ListFunction
<1>4. ASSUME NEW i \in DOMAIN Append(short, x)
      PROVE  Append(short, x)[i] = x \/ \E j \in DOMAIN list : Append(short, x)[i] = list[j]
  <2>1. i = Len(short) + 1 \/ i \in DOMAIN short
    BY <1>3
  <2> QED BY <1>1, <1>3, <2>1
<1> QED BY <1>2, <1>3, <1>4

LEMMA TailKeeps ==
    ASSUME NEW list, IsList(list), list # << >>
    PROVE  IsList(Tail(list)) /\ \A i \in DOMAIN Tail(list) : \E j \in DOMAIN list : Tail(list)[i] = list[j]
<1>1. PICK S : list \in Seq(S)
  BY DEF IsList
<1>2. Tail(list) \in Seq(S) /\ \A i \in DOMAIN Tail(list) : i + 1 \in DOMAIN list /\ Tail(list)[i] = list[i + 1]
  BY <1>1
<1> QED BY <1>2 DEF IsList

LEMMA TakenKeeps ==
    ASSUME NEW list, IsList(list), NEW i \in DOMAIN list
    PROVE  IsList(Taken(list, i)) /\ \A k \in DOMAIN Taken(list, i) : \E j \in DOMAIN list : Taken(list, i)[k] = list[j]
<1>1. PICK S : list \in Seq(S)
  BY DEF IsList
<1> DEFINE T == {list[j] : j \in DOMAIN list}
           a == SubSeq(list, 1, i - 1)
           b == SubSeq(list, i + 1, Len(list))
<1>2. Len(list) \in Nat /\ i \in 1..Len(list) /\ DOMAIN list = 1..Len(list) /\ \A j \in 1..Len(list) : list[j] \in T
  BY <1>1
<1> HIDE DEF T
<1>3. list \in Seq(T)
  <2>1. list \in [1..Len(list) -> T]
    BY <1>1, <1>2
  <2> QED BY <1>2, <2>1
<1>4. a \in Seq(T) /\ b \in Seq(T)
  BY <1>2, <1>3
<1>5. a \o b \in Seq(T)
  BY <1>4
<1>6. Taken(list, i) = a \o b
  BY DEF Taken, RemoveAt
<1> HIDE DEF a, b
<1>7. \A k \in DOMAIN (a \o b) : (a \o b)[k] \in T
  BY <1>5
<1> QED BY <1>5, <1>6, <1>7 DEF IsList, T

-----------------------------------------------------------------------------
(* The steps that store nothing.                                           *)

LEMMA NothingIsStored ==
    ASSUME StoredIsSound, UNCHANGED <<row, databaseVars>>, text' \in [Sessions -> Nat \cup {None}]
    PROVE  StoredIsSound' /\ DatasetMovesOn /\ ExperimentsMoveOn /\ ResultsStand /\ Dataset' = Dataset
<1>1. UNCHANGED <<row, cases, datasetRevision, changes, experiments>>
  BY DEF databaseVars
<1>2. CasesAreSound' /\ JournalIsSound' /\ ExperimentsAreSound' /\ TextsAreRead'
  BY <1>1 DEF StoredIsSound, CasesAreSound, JournalIsSound, ExperimentsAreSound, TextsAreRead
<1>3. Dataset' = Dataset
  BY <1>1 DEF Dataset
<1>4. ExperimentsMoveOn /\ ResultsStand
  BY <1>1 DEF ExperimentsMoveOn, ResultsStand
<1> QED BY <1>1, <1>2, <1>3, <1>4 DEF StoredIsSound, DatasetMovesOn

LEMMA PreviewsStand == ASSUME CuratedInv, UNCHANGED previews PROVE PreviewsMoveOn
  BY DEF CuratedInv, PreviewsMoveOn
LEMMA DraftsStand == ASSUME CuratedInv, UNCHANGED drafts PROVE DraftsMoveOn
  BY DEF CuratedInv, DraftsMoveOn
LEMMA JobsStand == ASSUME CuratedInv, UNCHANGED job PROVE JobsMoveOn
  BY DEF CuratedInv, JobsMoveOn

\* A job that ends, or goes on in the world that its step leaves.
LEMMA JobGoesOn ==
    ASSUME CuratedInv, NEW c \in Clients, NEW next, job' = [job EXCEPT ![c] = next],
           next = None \/ JobIsSound(next, datasetRevision', Dataset', experiments')
    PROVE  JobsMoveOn /\ \A x \in Clients : x # c => job'[x] = job[x]
  BY DEF CuratedInv, JobsMoveOn

LEMMA QuietCurated ==
    ASSUME CuratedInv, UNCHANGED <<row, databaseVars, published>>, text' \in [Sessions -> Nat \cup {None}],
           PreviewsMoveOn, DraftsMoveOn, JobsMoveOn
    PROVE  CuratedInv' /\ ReviewedStep
<1>1. StoredIsSound' /\ DatasetMovesOn /\ ExperimentsMoveOn /\ ResultsStand
  BY NothingIsStored DEF CuratedInv
<1>2. CuratedInv'
  BY <1>1, CuratedMovesOn
<1>3. ReviewedStep
  BY <1>1, NothingIsKept DEF databaseVars
<1> QED BY <1>2, <1>3

LEMMA TextsStand == ASSUME CuratedInv, UNCHANGED text PROVE text' \in [Sessions -> Nat \cup {None}]
  BY DEF CuratedInv, StoredIsSound, TextsAreRead

LEMMA CuratedStands == ASSUME CuratedInv, UNCHANGED <<row, curatedVars>> PROVE CuratedInv' /\ ReviewedStep
<1>1. UNCHANGED <<row, databaseVars, published, text, previews, drafts, job>>
  BY DEF curatedVars, databaseVars
<1> QED BY <1>1, TextsStand, PreviewsStand, DraftsStand, JobsStand, QuietCurated

LEMMA RewriteKeeps == ASSUME CuratedInv, NEW s \in Sessions, Rewrite(s) \/ Unreadable(s) PROVE CuratedInv' /\ ReviewedStep
<1>1. UNCHANGED <<row, databaseVars, published, previews, drafts, job>>
  BY DEF Rewrite, Unreadable, organizationVars
<1>2. text' \in [Sessions -> Nat \cup {None}]
  <2>1. text \in [Sessions -> Nat \cup {None}] /\ MaxText \in Nat
    BY CuratedAssumption DEF CuratedInv, StoredIsSound, TextsAreRead
  <2>2. CASE Rewrite(s)
    <3>1. (IF text[s] = None THEN MaxText ELSE text[s] + 1) \in Nat
      BY <2>1
    <3> QED BY <2>1, <2>2, <3>1 DEF Rewrite
  <2>3. CASE Unreadable(s)
    BY <2>1, <2>3 DEF Unreadable
  <2> QED BY <2>2, <2>3
<1> QED BY <1>1, <1>2, PreviewsStand, DraftsStand, JobsStand, QuietCurated

LEMMA ExpireKeeps == ASSUME CuratedInv, Expire PROVE CuratedInv' /\ ReviewedStep
<1>1. UNCHANGED <<row, databaseVars, published, text, job>>
  BY DEF Expire, organizationVars
<1>2. CASE previews # << >> /\ previews' = Tail(previews) /\ UNCHANGED drafts
  <2>1. PreviewsMoveOn
    BY <1>2, TailKeeps DEF CuratedInv, PreviewsMoveOn
  <2> QED BY <1>1, <1>2, <2>1, TextsStand, DraftsStand, JobsStand, QuietCurated
<1>3. CASE drafts # << >> /\ drafts' = Tail(drafts) /\ UNCHANGED previews
  <2>1. DraftsMoveOn
    BY <1>3, TailKeeps DEF CuratedInv, DraftsMoveOn
  <2> QED BY <1>1, <1>3, <2>1, TextsStand, PreviewsStand, JobsStand, QuietCurated
<1> QED BY <1>2, <1>3 DEF Expire

LEMMA FailKeeps == ASSUME CuratedInv, NEW c \in Clients, Fail(c) PROVE CuratedInv' /\ ReviewedStep
<1>1. UNCHANGED <<row, databaseVars, published, text, previews, drafts>> /\ job' = [job EXCEPT ![c] = None]
  BY DEF Fail, organizationVars
<1>2. JobsMoveOn
  BY <1>1, JobGoesOn
<1> QED BY <1>1, <1>2, TextsStand, PreviewsStand, DraftsStand, QuietCurated

LEMMA PrepareCuratedKeeps ==
    ASSUME OrganizationInv, CuratedInv, NEW c \in Clients, NEW s \in Sessions, NEW case, PrepareCurated(c, s, case)
    PROVE  CuratedInv' /\ ReviewedStep
<1> DEFINE p == [session |-> s, fingerprint |-> row[s], outcomeRevision |-> Rating(s).revision,
                 datasetRevision |-> datasetRevision, case |-> case, saw |-> Dataset]
           j == [at |-> "prepare", p |-> p, outcome |-> Rating(s).outcome]
<1>1. /\ UNCHANGED <<row, databaseVars, published, text, previews, drafts>> /\ job' = [job EXCEPT ![c] = j]
      /\ row[s] # None
  BY DEF PrepareCurated, Starts, organizationVars
<1>2. row[s] \in Nat /\ datasetRevision \in Nat
  BY <1>1 DEF OrganizationInv, RowsAreCurrent, CuratedInv, StoredIsSound, JournalIsSound
<1>3. Rating(s).outcome \in Outcomes \cup {None}
  <2>1. Target(s, SessionAnchor) \in Targets
    BY DEF Target, Targets
  <2>2. Rating(s) \in Annotations
    BY <2>1 DEF Rating, OrganizationInv, OrganizationTypes
  <2> QED BY <2>2 DEF Annotations
<1>4. PlanIsSound(p, datasetRevision, Dataset)
  BY <1>2 DEF PlanIsSound
<1> HIDE DEF p
<1>5. JobIsSound(j, datasetRevision, Dataset, experiments)
  BY <1>3, <1>4 DEF JobIsSound
<1> HIDE DEF j
<1>6. Dataset' = Dataset /\ datasetRevision' = datasetRevision /\ experiments' = experiments
  BY <1>1 DEF Dataset, databaseVars
<1>7. JobsMoveOn
  BY <1>1, <1>5, <1>6, JobGoesOn
<1> QED BY <1>1, <1>7, TextsStand, PreviewsStand, DraftsStand, QuietCurated

LEMMA ReadRecordsKeeps == ASSUME CuratedInv, NEW c \in Clients, ReadRecords(c) PROVE CuratedInv' /\ ReviewedStep
<1> DEFINE j == job[c]
           pv == [p |-> j.p, content |-> [outcome |-> j.outcome, text |-> text[j.p.session]]]
<1>1. /\ UNCHANGED <<row, databaseVars, published, text, drafts>> /\ job' = [job EXCEPT ![c] = None]
      /\ j # None /\ j.at = "prepare" /\ text[j.p.session] # None
      /\ previews' = Remembered(previews, pv)
  BY DEF ReadRecords, GoesOn, organizationVars
<1>2. JobIsSound(j, datasetRevision, Dataset, experiments)
  BY <1>1 DEF CuratedInv
<1>3. PlanIsSound(j.p, datasetRevision, Dataset) /\ j.outcome \in Outcomes \cup {None}
  BY <1>1, <1>2 DEF JobIsSound
<1>4. text[j.p.session] \in Nat
  BY <1>1, <1>3 DEF PlanIsSound, CuratedInv, StoredIsSound, TextsAreRead
<1> HIDE DEF j
<1>5. PreviewIsSound(pv, datasetRevision, Dataset)
  BY <1>3, <1>4 DEF PreviewIsSound, Contents
<1> HIDE DEF pv
<1>6. Dataset' = Dataset /\ datasetRevision' = datasetRevision
  BY <1>1 DEF Dataset, databaseVars
<1>7. PreviewsMoveOn
  <2>1. IsList(previews)
    BY DEF CuratedInv
  <2> QED BY <1>1, <1>5, <1>6, <2>1, RememberedKeeps DEF PreviewsMoveOn
<1>8. JobsMoveOn
  BY <1>1, JobGoesOn
<1> QED BY <1>1, <1>7, <1>8, TextsStand, DraftsStand, QuietCurated

LEMMA TakePreviewKeeps ==
    ASSUME CuratedInv, NEW c \in Clients, NEW i, TakePreview(c, i) PROVE CuratedInv' /\ ReviewedStep
<1> DEFINE j == [at |-> "commit", p |-> previews[i].p, content |-> previews[i].content]
<1>1. /\ UNCHANGED <<row, databaseVars, published, text, drafts>> /\ job' = [job EXCEPT ![c] = j]
      /\ i \in DOMAIN previews /\ previews' = Taken(previews, i)
  BY DEF TakePreview, Starts, organizationVars
<1>2. PreviewIsSound(previews[i], datasetRevision, Dataset)
  BY <1>1 DEF CuratedInv
<1>3. JobIsSound(j, datasetRevision, Dataset, experiments)
  BY <1>2 DEF PreviewIsSound, JobIsSound
<1> HIDE DEF j
<1>4. Dataset' = Dataset /\ datasetRevision' = datasetRevision /\ experiments' = experiments
  BY <1>1 DEF Dataset, databaseVars
<1>5. PreviewsMoveOn
  <2>1. IsList(previews)
    BY DEF CuratedInv
  <2> QED BY <1>1, <2>1, TakenKeeps DEF PreviewsMoveOn
<1>6. JobsMoveOn
  BY <1>1, <1>3, <1>4, JobGoesOn
<1> QED BY <1>1, <1>5, <1>6, TextsStand, DraftsStand, QuietCurated

LEMMA PreviewExperimentKeeps == ASSUME CuratedInv, PreviewExperiment PROVE CuratedInv' /\ ReviewedStep
<1> DEFINE d == [kind |-> "freeze", revision |-> datasetRevision,
                 members |-> [id \in Stored(cases) |-> [version |-> cases[id].version, content |-> cases[id].content]]]
<1>1. UNCHANGED <<row, databaseVars, published, text, previews, job>> /\ drafts' = Remembered(drafts, d)
  BY DEF PreviewExperiment, organizationVars
<1>2. DraftIsSound(d, experiments')
  BY DEF DraftIsSound
<1> HIDE DEF d
<1>3. DraftsMoveOn
  <2>1. IsList(drafts)
    BY DEF CuratedInv
  <2> QED BY <1>1, <1>2, <2>1, RememberedKeeps DEF DraftsMoveOn
<1> QED BY <1>1, <1>3, TextsStand, PreviewsStand, JobsStand, QuietCurated

LEMMA PreviewImportKeeps ==
    ASSUME CuratedInv, NEW e \in Stored(experiments), NEW ids, NEW variant \in Variants, NEW status \in Statuses,
           PreviewImport(e, ids, variant, status)
    PROVE  CuratedInv' /\ ReviewedStep
<1> DEFINE d == [kind |-> "import", experiment |-> e, revision |-> experiments[e].revision,
                 saw |-> experiments[e].frozen, ids |-> ids, variant |-> variant, status |-> status]
<1>1. UNCHANGED <<row, databaseVars, published, text, previews, job>> /\ drafts' = Remembered(drafts, d)
  BY DEF PreviewImport, organizationVars
<1>2. e \in DOMAIN experiments /\ experiments[e].revision \in Nat
  BY StoredRevisions DEF Stored, CuratedInv, StoredIsSound
<1>3. DraftIsSound(d, experiments)
  BY <1>2 DEF DraftIsSound
<1> HIDE DEF d
<1>4. experiments' = experiments
  BY <1>1 DEF databaseVars
<1>5. DraftsMoveOn
  <2>1. IsList(drafts)
    BY DEF CuratedInv
  <2> QED BY <1>1, <1>3, <1>4, <2>1, RememberedKeeps DEF DraftsMoveOn
<1> QED BY <1>1, <1>5, TextsStand, PreviewsStand, JobsStand, QuietCurated

-----------------------------------------------------------------------------
(* Exports.                                                                *)

LEMMA ReviewKeeps ==
    ASSUME CuratedInv, NEW c \in Clients, NEW what \in {TheDataset} \cup Stored(experiments), Review(c, what)
    PROVE  CuratedInv' /\ ReviewedStep
<1> DEFINE j == [at |-> "picker", what |-> what, reviewed |-> Shown(what)]
<1>1. UNCHANGED <<row, databaseVars, published, text, previews, drafts>> /\ job' = [job EXCEPT ![c] = j]
  BY DEF Review, Starts, organizationVars
<1>2. datasetRevision \in Nat
  BY DEF CuratedInv, StoredIsSound, JournalIsSound
<1>3. ReviewIsSound(j, datasetRevision, Dataset, experiments)
  <2>1. CASE what = TheDataset
    <3>1. Shown(what) = Dataset /\ Dataset.revision = datasetRevision
      BY <2>1 DEF Shown, Dataset
    <3> QED BY <1>2, <2>1, <3>1 DEF ReviewIsSound
  <2>2. CASE what # TheDataset
    <3>1. what \in DOMAIN experiments /\ experiments[what].revision \in Nat
      BY <2>2, StoredRevisions DEF Stored, CuratedInv, StoredIsSound
    <3>2. Shown(what) = ReportOf(experiments[what], datasetRevision)
      BY <2>2 DEF Shown, Report
    <3>3. /\ ReportOf(experiments[what], datasetRevision).revision = experiments[what].revision
          /\ ReportOf(experiments[what], datasetRevision).dataset = datasetRevision
      BY DEF ReportOf
    <3> QED BY <1>2, <2>2, <3>1, <3>2, <3>3 DEF ReviewIsSound
  <2> QED BY <2>1, <2>2
<1>4. JobIsSound(j, datasetRevision, Dataset, experiments)
  BY <1>3 DEF JobIsSound
<1> HIDE DEF j
<1>5. Dataset' = Dataset /\ datasetRevision' = datasetRevision /\ experiments' = experiments
  BY <1>1 DEF Dataset, databaseVars
<1>6. JobsMoveOn
  BY <1>1, <1>4, <1>5, JobGoesOn
<1> QED BY <1>1, <1>6, TextsStand, PreviewsStand, DraftsStand, QuietCurated

LEMMA RereadKeeps == ASSUME CuratedInv, NEW c \in Clients, Reread(c) PROVE CuratedInv' /\ ReviewedStep
<1> DEFINE j == job[c]
           next == [j EXCEPT !.at = "publish"]
<1>1. /\ UNCHANGED <<row, databaseVars, published, text, previews, drafts>> /\ job' = [job EXCEPT ![c] = next]
      /\ j # None /\ j.at = "picker"
  BY DEF Reread, GoesOn, organizationVars
<1>2. JobIsSound(j, datasetRevision, Dataset, experiments)
  BY <1>1 DEF CuratedInv
<1> DEFINE w == j.what
           r == j.reviewed
<1>3. j = [at |-> "picker", what |-> w, reviewed |-> r] /\ ReviewIsSound(j, datasetRevision, Dataset, experiments)
  BY <1>1, <1>2 DEF JobIsSound
<1>4. next = [at |-> "publish", what |-> w, reviewed |-> r]
  <2> HIDE DEF j, w, r
  <2> QED BY <1>3
<1>5. ReviewIsSound(next, datasetRevision, Dataset, experiments)
  BY <1>3, <1>4 DEF ReviewIsSound
<1> HIDE DEF j, w, r, next
<1>6. JobIsSound(next, datasetRevision, Dataset, experiments)
  BY <1>4, <1>5 DEF JobIsSound
<1>7. Dataset' = Dataset /\ datasetRevision' = datasetRevision /\ experiments' = experiments
  BY <1>1 DEF Dataset, databaseVars
<1>8. JobsMoveOn
  BY <1>1, <1>6, <1>7, JobGoesOn
<1> QED BY <1>1, <1>8, TextsStand, PreviewsStand, DraftsStand, QuietCurated

\* A file is written of what the revisions say still is so.
LEMMA PublishKeeps == ASSUME CuratedInv, NEW c \in Clients, Publish(c) PROVE CuratedInv' /\ ReviewedStep
<1> DEFINE j == job[c]
<1>1. /\ UNCHANGED <<row, databaseVars, text, previews, drafts>> /\ job' = [job EXCEPT ![c] = None]
      /\ j # None /\ j.at = "publish" /\ StillCurrent(j) /\ published' = j.reviewed
  BY DEF Publish, GoesOn, organizationVars
<1>2. ReviewIsSound(j, datasetRevision, Dataset, experiments)
  BY <1>1 DEF CuratedInv, JobIsSound
<1>3. Exists(j.what) /\ j.reviewed = Shown(j.what)
  <2>1. CASE j.what = TheDataset
    BY <1>1, <1>2, <2>1 DEF StillCurrent, ReviewIsSound, Exists, Shown
  <2>2. CASE j.what # TheDataset
    <3>1. /\ j.what \in Stored(experiments) /\ experiments[j.what].revision = j.reviewed.revision
          /\ datasetRevision = j.reviewed.dataset
      BY <1>1, <2>2 DEF StillCurrent
    <3>2. j.reviewed = ReportOf(experiments[j.what], datasetRevision)
      BY <1>2, <2>2, <3>1 DEF ReviewIsSound, Stored
    <3> QED BY <2>2, <3>1, <3>2 DEF Exists, Shown, Report
  <2> QED BY <2>1, <2>2
<1>4. JobsMoveOn
  BY <1>1, JobGoesOn
<1>5. text' \in [Sessions -> Nat \cup {None}] /\ PreviewsMoveOn /\ DraftsMoveOn
  BY <1>1, TextsStand, PreviewsStand, DraftsStand
<1>6. StoredIsSound' /\ DatasetMovesOn /\ ExperimentsMoveOn /\ ResultsStand
  BY <1>1, <1>5, NothingIsStored DEF CuratedInv
<1>7. CuratedInv'
  BY <1>4, <1>5, <1>6, CuratedMovesOn
<1>8. ReviewedStep
  <2>1. cases' = cases
    BY <1>1 DEF databaseVars
  <2>2. \A e \in Stored(experiments) \cap Stored(experiments') :
          ~\E id \in DOMAIN experiments[e].frozen \cap DOMAIN experiments'[e].frozen :
              experiments[e].frozen[id] # experiments'[e].frozen[id]
    BY <1>6 DEF ResultsStand
  <2> QED BY <1>1, <1>3, <2>1, <2>2 DEF ReviewedStep
<1> QED BY <1>7, <1>8

-----------------------------------------------------------------------------
(* The steps that change the dataset.                                      *)

LEMMA PurgeWithCasesKeeps ==
    ASSUME OrganizationInv, CuratedInv, NEW s \in Sessions, PurgeWithCases(s)
    PROVE  CuratedInv' /\ ReviewedStep
<1>1. /\ DeleteCases(CasesOf(s)) /\ UNCHANGED <<text, previews, drafts, job, published>>
      /\ row' = [row EXCEPT ![s] = None]
  BY DEF PurgeWithCases, PurgeSession
<1>2. CasesOf(s) \subseteq Stored(cases)
  BY DEF CasesOf
<1>3. /\ JournalIsSound' /\ DatasetMovesOn /\ ExperimentsAreSound' /\ ExperimentsMoveOn /\ ResultsStand
      /\ cases' \in Seq(Cases \cup {None})
      /\ Stored(cases') = Stored(cases) \ CasesOf(s)
      /\ \A id \in Stored(cases') : cases'[id] = cases[id]
  BY <1>1, <1>2, DeleteCasesKeeps DEF CuratedInv, StoredIsSound
<1>4. CasesAreSound'
  <2>1. ASSUME NEW id \in Stored(cases') PROVE row'[cases'[id].session] = cases'[id].fingerprint
    <3>1. id \in Stored(cases) /\ cases'[id] = cases[id] /\ cases[id].session # s
      BY <1>3 DEF CasesOf
    <3>2. cases[id].session \in Sessions /\ row[cases[id].session] = cases[id].fingerprint
      <4>1. cases[id] \in Cases
        BY <3>1, StoredCases DEF CuratedInv, StoredIsSound
      <4> QED BY <3>1, <4>1 DEF Cases, CuratedInv, StoredIsSound, CasesAreSound
    <3>3. row'[cases[id].session] = row[cases[id].session]
      BY <1>1, <3>1, <3>2 DEF OrganizationInv, RowsAreCurrent
    <3> QED BY <3>1, <3>2, <3>3
  <2> QED BY <1>3, <2>1 DEF CasesAreSound
<1>5. StoredIsSound'
  BY <1>1, <1>3, <1>4, TextsStand DEF StoredIsSound, TextsAreRead
<1>6. CuratedInv'
  BY <1>1, <1>3, <1>5, PreviewsStand, DraftsStand, JobsStand, CuratedMovesOn
<1>7. ReviewedStep
  BY <1>1, <1>3, NothingIsKept
<1> QED BY <1>6, <1>7

LEMMA RemoveCuratedKeeps ==
    ASSUME OrganizationInv, CuratedInv, NEW id \in Stored(cases), RemoveCurated(id)
    PROVE  CuratedInv' /\ ReviewedStep
<1>1. DeleteCases({id}) /\ UNCHANGED <<row, text, previews, drafts, job, published>>
  BY DEF RemoveCurated, organizationVars
<1>2. {id} \subseteq Stored(cases)
  OBVIOUS
<1>3. /\ JournalIsSound' /\ DatasetMovesOn /\ ExperimentsAreSound' /\ ExperimentsMoveOn /\ ResultsStand
      /\ cases' \in Seq(Cases \cup {None})
      /\ Stored(cases') = Stored(cases) \ {id}
      /\ \A x \in Stored(cases') : cases'[x] = cases[x]
  BY <1>1, <1>2, DeleteCasesKeeps DEF CuratedInv, StoredIsSound
<1>4. CasesAreSound'
  BY <1>1, <1>3 DEF CasesAreSound, CuratedInv, StoredIsSound
<1>5. StoredIsSound'
  BY <1>1, <1>3, <1>4, TextsStand DEF StoredIsSound, TextsAreRead
<1>6. CuratedInv'
  BY <1>1, <1>3, <1>5, PreviewsStand, DraftsStand, JobsStand, CuratedMovesOn
<1>7. ReviewedStep
  BY <1>1, <1>3, NothingIsKept
<1> QED BY <1>6, <1>7

\* The frozen inputs stay stored when cases are only added or rewritten.
LEMMA ExperimentsStand ==
    ASSUME ExperimentsAreSound, UNCHANGED experiments, Stored(cases) \subseteq Stored(cases')
    PROVE  ExperimentsAreSound' /\ ExperimentsMoveOn /\ ResultsStand
<1>1. ASSUME NEW e \in Stored(experiments) PROVE ExperimentIsSound(experiments[e], Stored(cases'))
  BY DEF ExperimentsAreSound, ExperimentIsSound
<1> QED BY <1>1 DEF ExperimentsAreSound, ExperimentsMoveOn, ResultsStand

LEMMA FinalizeWithCasesKeeps ==
    ASSUME OrganizationInv, CuratedInv, NEW s \in Sessions, FinalizeWithCases(s)
    PROVE  CuratedInv' /\ ReviewedStep
<1> DEFINE Moved(id) == [cases[id] EXCEPT !.fingerprint = row'[s]]
<1>1. /\ UNCHANGED <<text, datasetRevision, changes, previews, experiments, drafts, job, published>>
      /\ row' = [row EXCEPT ![s] = latest[s] + 1]
      /\ cases' = [id \in DOMAIN cases |-> IF id \in CasesOf(s) THEN Moved(id) ELSE cases[id]]
  BY DEF FinalizeWithCases, NewFingerprint
<1>2. row'[s] \in Nat /\ \A x \in Sessions : x # s => row'[x] = row[x]
  BY <1>1 DEF OrganizationInv, RowsAreCurrent
<1>3. CasesAreSound
  BY DEF CuratedInv, StoredIsSound
<1>4. ASSUME NEW id \in CasesOf(s)
      PROVE  /\ id \in DOMAIN cases /\ cases[id] # None /\ Moved(id) # None
             /\ Moved(id) \in Cases /\ Moved(id).session = s /\ Moved(id).fingerprint = row'[s]
             /\ Moved(id).version = cases[id].version /\ Moved(id).content = cases[id].content
  <2>1. id \in DOMAIN cases /\ cases[id] \in Cases /\ cases[id].session = s /\ cases[id] # None
    BY <1>3, StoredCases DEF CasesOf
  <2>2. /\ Moved(id) \in Cases /\ Moved(id).session = s /\ Moved(id).fingerprint = row'[s]
        /\ Moved(id).version = cases[id].version /\ Moved(id).content = cases[id].content
    BY <1>2, <2>1 DEF Cases
  <2> QED BY <1>3, <2>1, <2>2, StoredCases
<1> HIDE DEF Moved
<1>5. /\ DOMAIN cases' = DOMAIN cases
      /\ \A id \in DOMAIN cases : cases'[id] = IF id \in CasesOf(s) THEN Moved(id) ELSE cases[id]
  BY <1>1
<1>6. \A id \in DOMAIN cases : SameCase(cases[id], cases'[id])
  BY <1>4, <1>5 DEF SameCase
<1>7. JournalIsSound' /\ Dataset' = Dataset
  BY <1>1, <1>3, <1>5, <1>6, JournalStands DEF CuratedInv, StoredIsSound
<1>8. Stored(cases') = Stored(cases)
  BY <1>5, <1>6 DEF Stored, SameCase
<1>9. CasesAreSound'
  <2>1. cases' \in Seq(Cases \cup {None})
    <3>1. DOMAIN cases = 1..Len(cases) /\ Len(cases) \in Nat /\ \A id \in DOMAIN cases : cases[id] \in Cases \cup {None}
      BY <1>3 DEF CasesAreSound
    <3>2. \A id \in DOMAIN cases : cases'[id] \in Cases \cup {None}
      BY <1>4, <1>5, <3>1
    <3>3. cases' \in [1..Len(cases) -> Cases \cup {None}]
      BY <1>1, <1>5, <3>1, <3>2
    <3> QED BY <3>1, <3>3
  <2>2. ASSUME NEW id \in Stored(cases') PROVE row'[cases'[id].session] = cases'[id].fingerprint
    <3>1. id \in Stored(cases) /\ id \in DOMAIN cases /\ cases[id] \in Cases
      BY <1>3, <1>8, StoredCases
    <3>2. CASE id \in CasesOf(s)
      BY <1>4, <1>5, <3>2
    <3>3. CASE id \notin CasesOf(s)
      <4>1. cases'[id] = cases[id] /\ cases[id].session # s /\ cases[id].session \in Sessions
        BY <1>5, <3>1, <3>3 DEF CasesOf, Cases
      <4> QED BY <1>2, <1>3, <3>1, <4>1 DEF CasesAreSound
    <3> QED BY <3>2, <3>3
  <2> QED BY <2>1, <2>2 DEF CasesAreSound
<1>10. ExperimentsAreSound' /\ ExperimentsMoveOn /\ ResultsStand
  BY <1>1, <1>8, ExperimentsStand DEF CuratedInv, StoredIsSound
<1>11. StoredIsSound' /\ DatasetMovesOn
  BY <1>1, <1>7, <1>9, <1>10, TextsStand DEF StoredIsSound, TextsAreRead, DatasetMovesOn
<1>12. CuratedInv'
  BY <1>1, <1>10, <1>11, PreviewsStand, DraftsStand, JobsStand, CuratedMovesOn
<1>13. ReviewedStep
  BY <1>1, <1>10, NothingIsKept
<1> QED BY <1>12, <1>13

\* One case is written, and journalled with its version.
LEMMA OneChange ==
    ASSUME JournalIsSound, CasesAreSound, NEW case \in Cases, case.version = datasetRevision + 1,
           NEW id, NEW kind, kind # "removed",
           DOMAIN cases \subseteq DOMAIN cases', id \in DOMAIN cases', cases'[id] = case,
           \A x \in DOMAIN cases : x # id => cases'[x] = cases[x],
           Changes({Change(case.version, id, kind, case.content)}, case.version)
    PROVE  JournalIsSound' /\ DatasetMovesOn
<1> DEFINE m == Change(case.version, id, kind, case.content)
           last == case.version
<1>1. datasetRevision \in Nat /\ last \in Nat /\ last > datasetRevision
  BY DEF JournalIsSound
<1>2. datasetRevision' = last /\ changes' = Journal(changes, {m}, last)
  BY DEF Changes
<1>3. m.revision = last /\ m.case = id /\ m.change = kind /\ m.content = case.content
  BY DEF Change
<1>4. Explains(m, cases'[id])
  BY <1>3, StoredCases DEF Explains
<1> HIDE DEF m, last
<1>5. /\ \A x \in {m} : x.revision \in (datasetRevision + 1)..last /\ x.case \in DOMAIN cases'
                        /\ Explains(x, cases'[x.case])
      /\ \A n \in (datasetRevision + 1)..last : \E x \in {m} : x.revision = n
      /\ \A a, b \in {m} : a.revision = b.revision \/ a.case = b.case => a = b
      /\ \A x \in DOMAIN cases : (\A y \in {m} : y.case # x) => SameCase(cases[x], cases'[x])
  <2>1. last = datasetRevision + 1
    BY DEF last
  <2> QED BY <1>1, <1>3, <1>4, <2>1 DEF SameCase
<1>6. JournalIsSound'
  BY <1>1, <1>2, <1>5, JournalKeeps
<1> QED BY <1>1, <1>2, <1>6 DEF DatasetMovesOn

LEMMA CommitCuratedKeeps ==
    ASSUME CuratedInv, NEW c \in Clients, CommitCurated(c)
    PROVE  CuratedInv' /\ ReviewedStep
<1> DEFINE j == job[c]
           case == [session |-> j.p.session, fingerprint |-> j.p.fingerprint,
                    version |-> j.p.datasetRevision + 1, content |-> j.content]
<1>1. /\ UNCHANGED <<row, text, previews, experiments, drafts, published>> /\ job' = [job EXCEPT ![c] = None]
      /\ j # None /\ j.at = "commit" /\ MayCommit(j)
  BY DEF CommitCurated, GoesOn, organizationVars
<1>2. IF j.p.case = None
      THEN /\ cases' = Append(cases, case)
           /\ Changes({Change(case.version, Len(cases) + 1, "added", j.content)}, case.version)
      ELSE /\ cases' = [cases EXCEPT ![j.p.case] = case]
           /\ Changes({Change(case.version, j.p.case, "edited", j.content)}, case.version)
  BY DEF CommitCurated
<1>3. PlanIsSound(j.p, datasetRevision, Dataset) /\ j.content \in Contents
  BY <1>1 DEF CuratedInv, JobIsSound
<1>4. /\ j.p.datasetRevision = datasetRevision /\ row[j.p.session] = j.p.fingerprint
      /\ Rating(j.p.session).outcome = j.content.outcome
      /\ j.p.case # None => j.p.case \in Stored(cases)
  BY <1>1 DEF MayCommit, ValidRating, ValidOwner
<1>5. JournalIsSound /\ CasesAreSound /\ ExperimentsAreSound /\ datasetRevision \in Nat
  BY DEF CuratedInv, StoredIsSound, JournalIsSound
<1>6. /\ case \in Cases /\ case.version = datasetRevision + 1 /\ case.content = j.content
      /\ row[case.session] = case.fingerprint
  BY <1>3, <1>4, <1>5 DEF PlanIsSound, Cases
<1>7. j.p.saw = Dataset
  BY <1>3, <1>4 DEF PlanIsSound
<1>8. JobsMoveOn /\ \A x \in Clients : x # c => job'[x] = job[x]
  BY <1>1, JobGoesOn
<1> DEFINE id == IF j.p.case = None THEN Len(cases) + 1 ELSE j.p.case
           kind == IF j.p.case = None THEN "added" ELSE "edited"
<1>9. kind # "removed"
  OBVIOUS
<1>10. Changes({Change(case.version, id, kind, case.content)}, case.version)
  BY <1>2, <1>6
<1> HIDE DEF case, kind
<1>11. /\ cases' \in Seq(Cases \cup {None}) /\ DOMAIN cases \subseteq DOMAIN cases'
       /\ DOMAIN cases' = DOMAIN cases \cup {id} /\ cases'[id] = case
       /\ \A x \in DOMAIN cases : x # id => cases'[x] = cases[x]
  <2>1. cases \in Seq(Cases \cup {None}) /\ DOMAIN cases = 1..Len(cases) /\ Len(cases) \in Nat
    BY <1>5, StoredCases DEF CasesAreSound
  <2>2. CASE j.p.case = None
    <3>1. cases' = Append(cases, case) /\ id = Len(cases) + 1
      BY <1>2, <2>2
    <3> HIDE DEF id, j
    <3>2. /\ cases' \in Seq(Cases \cup {None}) /\ Len(cases') = Len(cases) + 1
          /\ \A x \in 1..Len(cases) : cases'[x] = cases[x]
          /\ cases'[Len(cases) + 1] = case
      BY <1>6, <2>1, <3>1, AppendProperties
    <3> QED BY <2>1, <3>1, <3>2
  <2>3. CASE j.p.case # None
    <3>1. cases' = [cases EXCEPT ![id] = case] /\ id \in DOMAIN cases
      BY <1>2, <1>4, <2>3 DEF Stored
    <3> HIDE DEF id, j
    <3>2. cases' \in Seq(Cases \cup {None})
      BY <1>6, <2>1, <3>1
    <3> QED BY <2>1, <3>1, <3>2
  <2> QED BY <2>2, <2>3
<1> HIDE DEF id, j
<1>12. JournalIsSound' /\ DatasetMovesOn
  BY <1>5, <1>6, <1>9, <1>10, <1>11, OneChange
<1>13. Stored(cases') = Stored(cases) \cup {id}
  BY <1>6, <1>5, <1>11, StoredCases DEF Stored
<1>14. CasesAreSound'
  <2>1. ASSUME NEW x \in Stored(cases') PROVE row'[cases'[x].session] = cases'[x].fingerprint
    <3>1. CASE x = id
      BY <1>1, <1>6, <1>11, <3>1
    <3>2. CASE x # id
      BY <1>1, <1>5, <1>11, <1>13, <3>2 DEF CasesAreSound, Stored
    <3> QED BY <3>1, <3>2
  <2> QED BY <1>11, <2>1 DEF CasesAreSound
<1>15. ExperimentsAreSound' /\ ExperimentsMoveOn /\ ResultsStand
  BY <1>1, <1>5, <1>13, ExperimentsStand
<1>16. StoredIsSound'
  BY <1>1, <1>12, <1>14, <1>15, TextsStand DEF StoredIsSound, TextsAreRead
<1>17. CuratedInv'
  BY <1>1, <1>8, <1>12, <1>15, <1>16, PreviewsStand, DraftsStand, CuratedMovesOn
<1>18. ReviewedStep
  <2>1. \A e \in Stored(experiments) \cap Stored(experiments') :
          ~\E x \in DOMAIN experiments[e].frozen \cap DOMAIN experiments'[e].frozen :
              experiments[e].frozen[x] # experiments'[e].frozen[x]
    BY <1>15 DEF ResultsStand
  <2>2. \A x \in Clients : job[x] # None /\ job'[x] = None => x = c
    BY <1>8
  <2>3. job[c].p.saw = Dataset /\ Rating(job[c].p.session).outcome = job[c].content.outcome
    BY <1>4, <1>7 DEF j
  <2> QED BY <1>1, <2>1, <2>2, <2>3 DEF ReviewedStep
<1> QED BY <1>17, <1>18

-----------------------------------------------------------------------------
(* The steps that change the comparisons.                                  *)

\* The cases and the journal stand; the comparisons are sound again.
LEMMA ComparisonsChange ==
    ASSUME CuratedInv, UNCHANGED <<row, text, cases, datasetRevision, changes, previews, job, published>>,
           ExperimentsAreSound', ExperimentsMoveOn, DraftsMoveOn
    PROVE  CuratedInv'
<1>1. CasesAreSound' /\ JournalIsSound' /\ TextsAreRead'
  BY DEF CuratedInv, StoredIsSound, CasesAreSound, JournalIsSound, TextsAreRead
<1>2. DatasetMovesOn
  BY DEF DatasetMovesOn, Dataset
<1> QED BY <1>1, <1>2, PreviewsStand, JobsStand, CuratedMovesOn DEF StoredIsSound

LEMMA DraftsTaken ==
    ASSUME CuratedInv, NEW i \in DOMAIN drafts, drafts' = Taken(drafts, i) PROVE DraftsMoveOn
<1>1. IsList(drafts)
  BY DEF CuratedInv
<1> QED BY <1>1, TakenKeeps DEF DraftsMoveOn

LEMMA CommitExperimentKeeps ==
    ASSUME CuratedInv, NEW i, CommitExperiment(i) PROVE CuratedInv' /\ ReviewedStep
<1> DEFINE m == drafts[i].members
           f == [id \in DOMAIN m |-> [input |-> m[id].content, result |-> [v \in Variants |-> None]]]
           x == [revision |-> 1, members |-> m, frozen |-> f]
<1>1. /\ i \in DOMAIN drafts /\ drafts' = Taken(drafts, i)
      /\ experiments' = Append(experiments, x)
      /\ \A id \in DOMAIN m : id \in Stored(cases)
      /\ UNCHANGED <<row, text, cases, datasetRevision, changes, previews, job, published>>
  BY DEF CommitExperiment, organizationVars
<1>2. ExperimentIsSound(x, Stored(cases))
  <2>1. IsFiniteSet(DOMAIN m)
    BY <1>1, StoredCases, FS_Subset DEF CuratedInv, StoredIsSound
  <2>2. f = [id \in DOMAIN f |-> f[id]] /\ DOMAIN f = DOMAIN m
        /\ \A id \in DOMAIN f : f[id].input = m[id].content /\ f[id].result \in [Variants -> Statuses \cup {None}]
    OBVIOUS
  <2> HIDE DEF m, f
  <2>3. x.revision = 1 /\ x.members = m /\ x.frozen = f
    OBVIOUS
  <2> QED BY <1>1, <2>1, <2>2, <2>3 DEF ExperimentIsSound
<1> HIDE DEF x
<1>3. IsList(experiments) /\ DOMAIN experiments = 1..Len(experiments) /\ Len(experiments) \in Nat
  BY ListFunction DEF CuratedInv, StoredIsSound, ExperimentsAreSound
<1>4. /\ IsList(experiments') /\ DOMAIN experiments' = 1..(Len(experiments) + 1)
      /\ experiments'[Len(experiments) + 1] = x
      /\ \A e \in DOMAIN experiments : e \in DOMAIN experiments' /\ experiments'[e] = experiments[e]
  BY <1>1, <1>3, AppendedList
<1>5. ExperimentsAreSound'
  <2>1. ASSUME NEW e \in Stored(experiments') PROVE ExperimentIsSound(experiments'[e], Stored(cases'))
    <3>1. e = Len(experiments) + 1 \/ e \in DOMAIN experiments
      BY <1>3, <1>4 DEF Stored
    <3>2. CASE e = Len(experiments) + 1
      BY <1>1, <1>2, <1>4, <3>2
    <3>3. CASE e \in DOMAIN experiments
      <4>1. e \in Stored(experiments) /\ experiments'[e] = experiments[e]
        BY <1>4, <3>3 DEF Stored
      <4> QED BY <1>1, <4>1 DEF CuratedInv, StoredIsSound, ExperimentsAreSound
    <3> QED BY <3>1, <3>2, <3>3
  <2> QED BY <1>4, <2>1 DEF ExperimentsAreSound
<1>6. ExperimentsMoveOn /\ ResultsStand
  BY <1>4 DEF ExperimentsMoveOn, ResultsStand, Stored
<1>7. CuratedInv'
  BY <1>1, <1>5, <1>6, DraftsTaken, ComparisonsChange
<1>8. ReviewedStep
  BY <1>1, <1>6, NothingIsKept
<1> QED BY <1>7, <1>8

\* One comparison is replaced by a later revision, or removed.
LEMMA OneExperiment ==
    ASSUME CuratedInv, NEW e \in Stored(experiments), NEW x, experiments' = [experiments EXCEPT ![e] = x],
           UNCHANGED cases,
           x # None => x.revision > experiments[e].revision /\ ExperimentIsSound(x, Stored(cases))
    PROVE  /\ ExperimentsAreSound' /\ ExperimentsMoveOn
           /\ \A y \in DOMAIN experiments : y # e => experiments'[y] = experiments[y]
           /\ experiments'[e] = x
<1>1. DOMAIN experiments = 1..Len(experiments) /\ Len(experiments) \in Nat /\ e \in DOMAIN experiments
      /\ experiments[e] # None
  BY ListFunction DEF CuratedInv, StoredIsSound, ExperimentsAreSound, Stored
<1>2. /\ DOMAIN experiments' = DOMAIN experiments /\ experiments'[e] = x
      /\ \A y \in DOMAIN experiments : y # e => experiments'[y] = experiments[y]
      /\ experiments' = [y \in DOMAIN experiments |-> experiments'[y]]
  BY <1>1
<1>3. IsList(experiments')
  BY <1>1, <1>2, FunctionList
<1>4. ASSUME NEW y \in Stored(experiments') PROVE ExperimentIsSound(experiments'[y], Stored(cases'))
  <2>1. CASE y = e
    BY <1>2, <2>1 DEF Stored
  <2>2. CASE y # e
    <3>1. y \in Stored(experiments) /\ experiments'[y] = experiments[y]
      BY <1>2, <2>2 DEF Stored
    <3> QED BY <3>1 DEF CuratedInv, StoredIsSound, ExperimentsAreSound
  <2> QED BY <2>1, <2>2
<1>5. ExperimentsMoveOn
  BY <1>1, <1>2 DEF ExperimentsMoveOn
<1> QED BY <1>2, <1>3, <1>4, <1>5 DEF ExperimentsAreSound

LEMMA RemoveExperimentKeeps ==
    ASSUME CuratedInv, NEW e \in Stored(experiments), RemoveExperiment(e) PROVE CuratedInv' /\ ReviewedStep
<1>1. /\ experiments' = [experiments EXCEPT ![e] = None]
      /\ UNCHANGED <<row, text, cases, datasetRevision, changes, previews, job, published, drafts>>
  BY DEF RemoveExperiment, organizationVars
<1>2. /\ ExperimentsAreSound' /\ ExperimentsMoveOn /\ experiments'[e] = None
      /\ \A y \in DOMAIN experiments : y # e => experiments'[y] = experiments[y]
  BY <1>1, OneExperiment
<1>3. ResultsStand
  BY <1>2 DEF ResultsStand, Stored
<1>4. CuratedInv'
  BY <1>1, <1>2, DraftsStand, ComparisonsChange
<1> QED BY <1>1, <1>3, <1>4, NothingIsKept

\* Results are stored of the inputs that the client saw.
LEMMA CommitImportKeeps ==
    ASSUME CuratedInv, NEW i, CommitImport(i) PROVE CuratedInv' /\ ReviewedStep
<1> DEFINE d == drafts[i]
           e == d.experiment
           old == experiments[e]
           r == old.revision
           m == old.members
           g == old.frozen
           Result(id) == [input |-> g[id].input, result |-> [g[id].result EXCEPT ![d.variant] = d.status]]
           f == [id \in DOMAIN g |-> IF id \in d.ids THEN Result(id) ELSE g[id]]
           x == [old EXCEPT !.revision = @ + 1, !.frozen = [id \in DOMAIN @ |-> IF id \in d.ids THEN Result(id) ELSE @[id]]]
<1>1. /\ i \in DOMAIN drafts /\ d.kind = "import" /\ drafts' = Taken(drafts, i) /\ MayImport(d)
      /\ experiments' = [experiments EXCEPT ![e] = x]
      /\ UNCHANGED <<row, text, cases, datasetRevision, changes, previews, job, published>>
  BY DEF CommitImport, organizationVars
<1>2. e \in Stored(experiments) /\ r = d.revision /\ d.ids \subseteq DOMAIN g
  BY <1>1 DEF MayImport
<1>3. DraftIsSound(d, experiments)
  BY <1>1 DEF CuratedInv
<1>4. d.variant \in Variants /\ d.status \in Statuses /\ d.saw = g
  BY <1>1, <1>2, <1>3 DEF DraftIsSound, Stored
<1>5. ExperimentIsSound(old, Stored(cases))
  BY <1>2 DEF CuratedInv, StoredIsSound, ExperimentsAreSound
<1>6. /\ old = [revision |-> r, members |-> m, frozen |-> g] /\ r \in Nat /\ IsFiniteSet(DOMAIN m)
      /\ DOMAIN g \subseteq Stored(cases) \cap DOMAIN m
      /\ \A id \in DOMAIN g : g[id].input = m[id].content /\ g[id].result \in [Variants -> Statuses \cup {None}]
  BY <1>5 DEF ExperimentIsSound
<1>7. x = [revision |-> r + 1, members |-> m, frozen |-> f]
  <2>1. x = [old EXCEPT !.revision = r + 1, !.frozen = f]
    BY <1>6
  <2> HIDE DEF x, f, r, m, g, old
  <2>2. [old EXCEPT !.revision = r + 1] = [revision |-> r + 1, members |-> m, frozen |-> g]
    BY <1>6
  <2>3. [old EXCEPT !.revision = r + 1, !.frozen = f] = [[old EXCEPT !.revision = r + 1] EXCEPT !.frozen = f]
    OBVIOUS
  <2>4. [[revision |-> r + 1, members |-> m, frozen |-> g] EXCEPT !.frozen = f]
        = [revision |-> r + 1, members |-> m, frozen |-> f]
    OBVIOUS
  <2> QED BY <2>1, <2>2, <2>3, <2>4
<1>8. \A id \in DOMAIN g : f[id].input = m[id].content /\ f[id].result \in [Variants -> Statuses \cup {None}]
  <2> SUFFICES ASSUME NEW id \in DOMAIN g
               PROVE  f[id].input = m[id].content /\ f[id].result \in [Variants -> Statuses \cup {None}]
    OBVIOUS
  <2>1. CASE id \in d.ids
    <3>1. f[id] = Result(id)
      BY <2>1
    <3>2. Result(id).input = g[id].input /\ Result(id).result = [g[id].result EXCEPT ![d.variant] = d.status]
      OBVIOUS
    <3> HIDE DEF f, Result, g, m
    <3> QED BY <1>4, <1>6, <3>1, <3>2
  <2>2. CASE id \notin d.ids
    <3>1. f[id] = g[id]
      BY <2>2
    <3> HIDE DEF f, g, m
    <3> QED BY <1>6, <3>1
  <2> QED BY <2>1, <2>2
<1>9. DOMAIN f = DOMAIN g /\ f = [id \in DOMAIN f |-> f[id]]
  OBVIOUS
<1>10. x.revision > r /\ ExperimentIsSound(x, Stored(cases))
  <2> HIDE DEF x, f, g, m, r
  <2>1. x.revision = r + 1 /\ x.members = m /\ x.frozen = f
    BY <1>7
  <2>2. x = [revision |-> x.revision, members |-> x.members, frozen |-> x.frozen]
    BY <1>7, <2>1
  <2> QED BY <1>6, <1>8, <1>9, <2>1, <2>2 DEF ExperimentIsSound
<1> HIDE DEF x, f, m
<1>11. /\ ExperimentsAreSound' /\ ExperimentsMoveOn
       /\ \A y \in DOMAIN experiments : y # e => experiments'[y] = experiments[y]
  BY <1>1, <1>2, <1>10, OneExperiment
<1>12. CuratedInv'
  BY <1>1, <1>11, DraftsTaken, ComparisonsChange
<1>13. ReviewedStep
  <2>1. ASSUME NEW y \in Stored(experiments) \cap Stored(experiments'),
               \E id \in DOMAIN experiments[y].frozen \cap DOMAIN experiments'[y].frozen :
                   experiments[y].frozen[id] # experiments'[y].frozen[id]
        PROVE  \E k \in DOMAIN drafts : drafts[k].kind = "import" /\ drafts[k].saw = experiments[y].frozen
    <3>1. y = e
      BY <1>11, <2>1 DEF Stored
    <3> QED BY <1>1, <1>4, <3>1
  <2> QED BY <1>1, <2>1 DEF ReviewedStep
<1> QED BY <1>12, <1>13

-----------------------------------------------------------------------------
(* The dataset, and what is made of it.                                    *)

LEMMA CuratedStep ==
    ASSUME OrganizationInv, CuratedInv, CuratedNext PROVE OrganizationInv' /\ CuratedInv' /\ ReviewedStep /\ SavedAsSeen
<1>1. CuratedInv' /\ ReviewedStep
  BY PurgeWithCasesKeeps, FinalizeWithCasesKeeps, RewriteKeeps, ExpireKeeps, FailKeeps, PrepareCuratedKeeps,
     ReadRecordsKeeps, TakePreviewKeeps, CommitCuratedKeeps, RemoveCuratedKeeps, PreviewExperimentKeeps,
     CommitExperimentKeeps, CommitImportKeeps, PreviewImportKeeps, RemoveExperimentKeeps, ReviewKeeps,
     RereadKeeps, PublishKeeps
     DEF CuratedNext
<1>2. \/ \E s \in Sessions : PurgeSession(s) \/ NewFingerprint(s)
      \/ UNCHANGED organizationVars
  BY DEF CuratedNext, PurgeWithCases, FinalizeWithCases, Rewrite, Unreadable, Expire, Fail, PrepareCurated,
         ReadRecords, TakePreview, CommitCurated, RemoveCurated, PreviewExperiment, CommitExperiment, CommitImport,
         PreviewImport, RemoveExperiment, Review, Reread, Publish
<1>3. OrganizationInv' /\ SavedAsSeen
  BY <1>2, PurgeSessionKeeps, NewFingerprintKeeps, OrganizationStands
<1> QED BY <1>1, <1>3

\* Authoring touches no session's row.
LEMMA AuthoringStands == ASSUME AuthoringNext PROVE UNCHANGED row
  BY DEF AuthoringNext, LoadAnnotation, EditAnnotation, EditBookmark, Saves, ChangeTag, LoadSearch, NewSearch, EditSearch

LEMMA CuratedInitial == ASSUME OrganizationInit, CuratedInit PROVE CuratedInv
<1>1. cases = << >> /\ experiments = << >> /\ previews = << >> /\ drafts = << >>
      /\ datasetRevision = 0 /\ changes = {} /\ text = [s \in Sessions |-> 1] /\ job = [c \in Clients |-> None]
  BY DEF CuratedInit
<1>2. << >> \in Seq(Cases \cup {None}) /\ IsList(<< >>) /\ DOMAIN << >> = {}
  BY EmptySeq DEF IsList
<1>3. Stored(cases) = {} /\ Stored(experiments) = {}
  BY <1>1, <1>2 DEF Stored
<1>4. StoredIsSound
  BY <1>1, <1>2, <1>3 DEF StoredIsSound, TextsAreRead, JournalIsSound, CasesAreSound, ExperimentsAreSound
<1> QED BY <1>1, <1>2, <1>4 DEF CuratedInv

LEMMA CuratedImplied == CuratedInv => DerivedWorkIsSound
<1> SUFFICES ASSUME CuratedInv PROVE DerivedWorkIsSound
  OBVIOUS
<1>0. JournalIsSound /\ CasesAreSound /\ ExperimentsAreSound
  BY DEF CuratedInv, StoredIsSound
<1>1. JournalExplainsCases
  <2>1. ASSUME NEW n \in 1..datasetRevision, n > datasetRevision - JournalLimit
        PROVE  Cardinality({ch \in changes : ch.revision = n}) = 1
    <3>1. PICK ch \in changes : ch.revision = n
      BY <1>0, <2>1 DEF JournalIsSound
    <3>2. {x \in changes : x.revision = n} = {ch}
      BY <1>0, <3>1 DEF JournalIsSound
    <3> QED BY <3>2, FS_Singleton
  <2>2. ASSUME NEW ch \in changes
        PROVE  /\ ch.revision \in 1..datasetRevision
               /\ (\A other \in changes : other.case = ch.case => other.revision <= ch.revision) =>
                     IF cases[ch.case] = None THEN ch.change = "removed"
                     ELSE /\ ch.change # "removed" /\ ch.content = cases[ch.case].content
                          /\ ch.revision = cases[ch.case].version
    BY <1>0 DEF JournalIsSound, IsLastChange, Explains
  <2> QED BY <2>1, <2>2 DEF JournalExplainsCases
<1>2. DerivedFollowsSource
  BY <1>0 DEF DerivedFollowsSource, CasesAreSound, ExperimentsAreSound, ExperimentIsSound
<1>3. ReportsAddUp
  <2> SUFFICES ASSUME NEW e \in Stored(experiments), NEW v \in Variants
               PROVE  /\ Count(experiments[e], v, Statuses) = Cardinality(DOMAIN experiments[e].members)
                      /\ Count(experiments[e], v, {"missing"}) >= Report(e).removed
    BY DEF ReportsAddUp
  <2> DEFINE x == experiments[e]
             Status(id) == IF id \in DOMAIN x.frozen /\ x.frozen[id].result[v] # None
                           THEN x.frozen[id].result[v] ELSE "missing"
             M == DOMAIN x.members
             gone == M \ DOMAIN x.frozen
             missing == {id \in M : Status(id) \in {"missing"}}
  <2>1. ExperimentIsSound(x, Stored(cases))
    BY <1>0 DEF ExperimentsAreSound
  <2>2. IsFiniteSet(M) /\ \A id \in DOMAIN x.frozen : x.frozen[id].result[v] \in Statuses \cup {None}
    BY <2>1 DEF ExperimentIsSound
  <2>3. "missing" \in Statuses
    BY CuratedAssumption
  <2>4. \A id \in M : Status(id) \in Statuses
    BY <2>2, <2>3
  <2>5. {id \in M : Status(id) \in Statuses} = M
    <3> HIDE DEF Status, M
    <3> QED BY <2>4
  <2>6. Count(x, v, Statuses) = Cardinality(M)
    BY <2>5 DEF Count
  <2>7. Count(x, v, {"missing"}) = Cardinality(missing)
    BY DEF Count
  <2>8. Report(e).removed = Cardinality(gone)
    BY DEF Report, ReportOf
  <2>9. gone \subseteq missing /\ missing \subseteq M
    OBVIOUS
  <2> HIDE DEF gone, missing, M, x
  <2>10. IsFiniteSet(missing)
    BY <2>2, <2>9, FS_Subset
  <2>11. Cardinality(gone) <= Cardinality(missing) /\ Cardinality(gone) \in Nat /\ Cardinality(missing) \in Nat
    BY <2>9, <2>10, FS_Subset, FS_CardinalityType
  <2> QED BY <2>6, <2>7, <2>8, <2>11 DEF x, M
<1> QED BY <1>1, <1>2, <1>3 DEF DerivedWorkIsSound

-----------------------------------------------------------------------------
(* The catalog of sessions as a whole, one subject per behaviour, without  *)
(* the bounds of the run.                                                  *)

CatalogInit ==
    /\ subject \in Subjects /\ OrganizationInit /\ LineageInit /\ ProjectInit
    /\ IF subject = "compared" THEN TwoCases ELSE CuratedInit

CatalogNext ==
    /\ \/ /\ subject = "organization" /\ OrganizationNext
          /\ UNCHANGED <<curatedVars, lineageVars, projectVars>>
       \/ /\ subject \in {"curated", "compared"}
          /\ CuratedNext \/ (AuthoringNext /\ UNCHANGED curatedVars)
          /\ UNCHANGED <<lineageVars, projectVars>>
       \/ /\ subject = "lineage" /\ LineageNext
          /\ UNCHANGED <<organizationVars, curatedVars, projectVars>>
       \/ /\ subject = "projects" /\ ProjectNext
          /\ UNCHANGED <<organizationVars, curatedVars, lineageVars>>
    /\ UNCHANGED subject

CatalogSpec == CatalogInit /\ [][CatalogNext]_catalogVars

\* The instance that is model-checked is one of these.
LEMMA InstanceIsCatalog == MCSpec => CatalogSpec
<1>1. MCInit => CatalogInit
  BY DEF MCInit, CatalogInit
<1>2. [MCNext]_catalogVars => [CatalogNext]_catalogVars
  <2> SUFFICES ASSUME MCNext PROVE CatalogNext
    OBVIOUS
  <2> QED BY DEF MCNext, CatalogNext
<1> QED BY <1>1, <1>2, PTL DEF MCSpec, CatalogSpec

\* Where only the organization is at work there are no cases.
CatalogInv ==
    /\ LineageInv /\ ProjectInv /\ OrganizationInv /\ CuratedInv
    /\ subject = "organization" => cases = << >>

LEMMA TwoCasesInitial == ASSUME OrganizationInit, TwoCases PROVE CuratedInv
<1> DEFINE one == Example(1)
           two == Example(2)
           c1 == Change(1, 1, "added", one.content)
           c2 == Change(2, 2, "added", two.content)
<1>1. OneOf(Sessions) \in Sessions
  BY ExamplesAssumption DEF OneOf
<1>2. /\ one \in Cases /\ one.session \in Sessions /\ one.fingerprint = 0 /\ one.version = 1
      /\ two \in Cases /\ two.session \in Sessions /\ two.fingerprint = 0 /\ two.version = 2
  BY <1>1, ExamplesAssumption DEF Example, Cases, Contents
<1>3. /\ c1.revision = 1 /\ c1.case = 1 /\ c1.change = "added" /\ c1.content = one.content
      /\ c2.revision = 2 /\ c2.case = 2 /\ c2.change = "added" /\ c2.content = two.content
  BY DEF Change
<1>4. changes = {c1, c2}
  <2>1. 1..2 = {1, 2}
    OBVIOUS
  <2> QED BY <2>1 DEF TwoCases
<1>5. /\ cases = <<one, two>> /\ datasetRevision = 2 /\ text = [s \in Sessions |-> 1]
      /\ previews = << >> /\ experiments = << >> /\ drafts = << >> /\ job = [c \in Clients |-> None]
  BY DEF TwoCases
<1> HIDE DEF one, two, c1, c2
<1>6. /\ cases \in Seq(Cases \cup {None}) /\ DOMAIN cases = {1, 2} /\ cases[1] = one /\ cases[2] = two
      /\ one # None /\ two # None
  BY <1>2, <1>5, CuratedAssumption
<1>7. CasesAreSound
  BY <1>2, <1>6 DEF CasesAreSound, Stored, OrganizationInit
<1>8. JournalIsSound
  <2>1. JournalLimit \in Nat /\ JournalLimit >= 2
    BY CuratedAssumption, ExamplesAssumption
  <2>2. Explains(c1, cases[1]) /\ Explains(c2, cases[2])
    BY <1>2, <1>3, <1>6 DEF Explains
  <2>3. \A ch \in changes : /\ ch.revision \in 1..datasetRevision /\ ch.revision > datasetRevision - JournalLimit
                            /\ ch.case \in DOMAIN cases /\ Explains(ch, cases[ch.case])
    BY <1>3, <1>4, <1>5, <1>6, <2>1, <2>2
  <2>4. \A a, b \in changes : a.revision = b.revision => a = b
    BY <1>3, <1>4
  <2>5. \A n \in 1..datasetRevision : \E ch \in changes : ch.revision = n
    <3>1. \A n \in 1..2 : n = 1 \/ n = 2
      OBVIOUS
    <3> QED BY <1>3, <1>4, <1>5, <3>1
  <2> QED BY <1>5, <2>3, <2>4, <2>5 DEF JournalIsSound
<1>9. IsList(<< >>) /\ DOMAIN << >> = {}
  BY EmptySeq DEF IsList
<1>10. ExperimentsAreSound
  BY <1>5, <1>9 DEF ExperimentsAreSound, Stored
<1>11. StoredIsSound
  BY <1>5, <1>7, <1>8, <1>10 DEF StoredIsSound, TextsAreRead
<1> QED BY <1>5, <1>9, <1>11 DEF CuratedInv

LEMMA CatalogInitial == CatalogInit => CatalogInv
<1> SUFFICES ASSUME CatalogInit PROVE CatalogInv
  OBVIOUS
<1>1. LineageInv /\ ProjectInv /\ OrganizationInv
  BY LineageInitial, ProjectInitial, OrganizationInitial DEF CatalogInit
<1>2. CuratedInv
  BY CuratedInitial, TwoCasesInitial DEF CatalogInit
<1>3. subject = "organization" => cases = << >>
  BY DEF CatalogInit, CuratedInit
<1> QED BY <1>1, <1>2, <1>3 DEF CatalogInv

\* A session that nothing is made of may come and go.
LEMMA WithoutCasesCuratedKeeps ==
    ASSUME CuratedInv, cases = << >>, UNCHANGED curatedVars PROVE CuratedInv' /\ ReviewedStep
<1>1. UNCHANGED <<text, cases, datasetRevision, changes, previews, experiments, drafts, job, published>>
  BY DEF curatedVars
<1>2. Stored(cases) = {} /\ cases \in Seq(Cases \cup {None})
  BY EmptySeq DEF Stored
<1>3. CasesAreSound'
  BY <1>1, <1>2 DEF CasesAreSound
<1>4. JournalIsSound' /\ TextsAreRead'
  BY <1>1 DEF CuratedInv, StoredIsSound, JournalIsSound, TextsAreRead
<1>5. ExperimentsAreSound' /\ ExperimentsMoveOn /\ ResultsStand
  BY <1>1, ExperimentsStand DEF CuratedInv, StoredIsSound
<1>6. DatasetMovesOn
  BY <1>1 DEF DatasetMovesOn, Dataset
<1>7. CuratedInv'
  BY <1>1, <1>3, <1>4, <1>5, <1>6, PreviewsStand, DraftsStand, JobsStand, CuratedMovesOn DEF StoredIsSound
<1> QED BY <1>1, <1>5, <1>7, NothingIsKept

LEMMA CatalogStep ==
    ASSUME CatalogInv, [CatalogNext]_catalogVars
    PROVE  CatalogInv' /\ SavedAsSeen /\ ReviewedStep
<1>1. CASE subject = "organization" /\ OrganizationNext /\ UNCHANGED <<curatedVars, lineageVars, projectVars, subject>>
  <2>1. OrganizationInv' /\ SavedAsSeen
    BY <1>1, OrganizationStep DEF CatalogInv
  <2>2. CuratedInv' /\ ReviewedStep /\ cases' = << >>
    BY <1>1, WithoutCasesCuratedKeeps DEF CatalogInv, curatedVars
  <2>3. LineageInv' /\ ProjectInv'
    BY <1>1, LineageStep, ProjectStep DEF CatalogInv
  <2> QED BY <1>1, <2>1, <2>2, <2>3 DEF CatalogInv
<1>2. CASE /\ subject \in {"curated", "compared"} /\ CuratedNext
           /\ UNCHANGED <<lineageVars, projectVars, subject>>
  <2>1. OrganizationInv' /\ CuratedInv' /\ ReviewedStep /\ SavedAsSeen
    BY <1>2, CuratedStep DEF CatalogInv
  <2>2. LineageInv' /\ ProjectInv'
    BY <1>2, LineageStep, ProjectStep DEF CatalogInv
  <2> QED BY <1>2, <2>1, <2>2 DEF CatalogInv
<1>3. CASE /\ subject \in {"curated", "compared"} /\ AuthoringNext /\ UNCHANGED curatedVars
           /\ UNCHANGED <<lineageVars, projectVars, subject>>
  <2>1. OrganizationInv' /\ SavedAsSeen
    BY <1>3, AuthoringKeeps DEF CatalogInv
  <2>2. CuratedInv' /\ ReviewedStep
    BY <1>3, AuthoringStands, CuratedStands DEF CatalogInv
  <2>3. LineageInv' /\ ProjectInv'
    BY <1>3, LineageStep, ProjectStep DEF CatalogInv
  <2> QED BY <1>3, <2>1, <2>2, <2>3 DEF CatalogInv
<1>4. CASE UNCHANGED <<organizationVars, curatedVars, subject>> /\ [LineageNext]_lineageVars /\ [ProjectNext]_projectVars
  <2>1. OrganizationInv' /\ SavedAsSeen
    BY <1>4, OrganizationStands DEF CatalogInv
  <2>2. CuratedInv' /\ ReviewedStep /\ cases' = cases
    <3>1. UNCHANGED <<row, curatedVars>> /\ cases' = cases
      BY <1>4 DEF organizationVars, curatedVars
    <3> QED BY <3>1, CuratedStands DEF CatalogInv
  <2>3. LineageInv' /\ ProjectInv'
    BY <1>4, LineageStep, ProjectStep DEF CatalogInv
  <2> QED BY <1>4, <2>1, <2>2, <2>3 DEF CatalogInv
<1>5. CASE UNCHANGED catalogVars
  <2>1. UNCHANGED <<organizationVars, curatedVars, lineageVars, projectVars, subject>>
    BY <1>5 DEF catalogVars
  <2> QED BY <1>4, <2>1
<1>6. CASE CatalogNext
  BY <1>1, <1>2, <1>3, <1>4, <1>6 DEF CatalogNext
<1> QED BY <1>5, <1>6

LEMMA CatalogImplied == CatalogInv => CatalogIsSound
<1> SUFFICES ASSUME CatalogInv PROVE CatalogIsSound
  OBVIOUS
<1>1. LineageIsSound
  BY LineageImplied DEF CatalogInv
<1>2. ProjectsPartition
  BY ProjectImplied DEF CatalogInv
<1>3. DerivedWorkIsSound
  BY CuratedImplied DEF CatalogInv
<1> QED BY <1>1, <1>2, <1>3 DEF CatalogIsSound

\* What is kept about durable sessions accounts for them, whatever is observed,
\* authored, merged, curated, compared, purged and imported in which order: a
\* transcript's history is one session's and shared events are marked
\* (reconcile_session, refresh_collision_flags, history_store.rs); each session is
\* in one project (resolve_projects_from, commands.rs); the journal explains every
\* case, cases and frozen inputs follow their source, and reports add up
\* (commit_curated, history_curated.rs; experiment_report, history_experiments.rs).
\* Without the bounds of the run, and so of the instance that the run checks.
THEOREM CatalogIsSoundHolds ==
    /\ CatalogSpec => []CatalogIsSound
    /\ MCSpec => []CatalogIsSound
<1>1. CatalogSpec => []CatalogIsSound
  BY CatalogInitial, CatalogStep, CatalogImplied, PTL DEF CatalogSpec
<1> QED BY <1>1, InstanceIsCatalog, PTL

\* A save overwrites what its editor saw (edit_annotation, save_search,
\* history_organization.rs); a case, a result and an exported file are what their
\* user reviewed, in the dataset he reviewed them in (commit_curated,
\* commit_import, history_curated.rs and history_experiments.rs).
THEOREM CatalogStepsAreSoundHolds ==
    /\ CatalogSpec => CatalogStepsAreSound
    /\ MCSpec => CatalogStepsAreSound
<1>1. ASSUME CatalogInv, [CatalogNext]_catalogVars
      PROVE  /\ [\A e \in Editors : editor[e] # None /\ editor'[e] = None =>
                    editor[e].saw = IF "target" \in DOMAIN editor[e] THEN annotation[editor[e].target]
                                    ELSE searches[editor[e].search]]_organizationVars
             /\ [/\ published' # published => \E c \in Clients : job[c] # None /\ job[c].at = "publish"
                                       /\ Exists(job[c].what) /\ published' = Shown(job[c].what)
                 /\ \A c \in Clients : job[c] # None /\ job[c].at = "commit" /\ cases' # cases /\ job'[c] = None =>
                       job[c].p.saw = Dataset /\ Rating(job[c].p.session).outcome = job[c].content.outcome
                 /\ \A e \in Stored(experiments) \cap Stored(experiments') :
                       (\E id \in DOMAIN experiments[e].frozen \cap DOMAIN experiments'[e].frozen :
                           experiments[e].frozen[id] # experiments'[e].frozen[id])
                       => \E i \in DOMAIN drafts : drafts[i].kind = "import" /\ drafts[i].saw = experiments[e].frozen
                ]_curatedVars
  BY <1>1, CatalogStep DEF SavedAsSeen, ReviewedStep
<1>2. CatalogSpec => CatalogStepsAreSound
  BY <1>1, CatalogInitial, CatalogStep, PTL
     DEF CatalogSpec, CatalogStepsAreSound, SavesWhatWasSeen, OnlyReviewedWorkIsKept
<1> QED BY <1>2, InstanceIsCatalog, PTL
=============================================================================
