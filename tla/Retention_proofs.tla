--------------------------- MODULE Retention_proofs ---------------------------
(***************************************************************************)
(* Proofs, for all sessions, groups, paths and bounds, that what a purge   *)
(* of module Retention erased never returns.                               *)
(***************************************************************************)
EXTENDS Retention, FiniteSetTheorems, WellFoundedInduction, TLAPS

\* Who may be active together.
Control ==
    /\ recovery /= "idle" => readiness = "pending"
    /\ scan = "running" => readiness = "ready"
    /\ scan_read /= NoKey => scan = "running"
    /\ Purging => readiness = "ready" /\ scan = "idle"
    /\ readiness = "ready" => database = "ok"
    /\ recovery = "marked" => marker = "written"

\* A location refers to a row, and a row that is gone is gone entirely.
RowsExist ==
    /\ \A k \in Keys : durable[k].lifecycle = "none" => durable[k] = NoSession
    /\ \A p \in Paths : location[p].present => location[p].key /= NoKey
    /\ \A p \in Paths : location[p].key /= NoKey => durable[location[p].key] /= NoSession

\* Every erased session has a tombstone in the database and one in the journal,
\* a tombstone leaves no row of its group, and a journalled session without a row
\* has a tombstone: reopening the database adds none.
Tombstones ==
    /\ erased \subseteq journal.keys
    /\ erased \subseteq purged
    /\ \A k \in Keys : Excluded(purged, k) => durable[k] = NoSession
    /\ \A k \in journal.keys : durable[k] = NoSession => k \in purged

\* What was reviewed is what the ledger holds until the deletion commits.
ReviewStands ==
    /\ purge.pc \in {"checked", "journalled"}
       => purge.preview.rows = CandidateRows(purge.preview.cutoff)
    /\ purge.pc = "journalled" => Reviewed \subseteq journal.keys

\* Only a purge whose removals are still to come leaves an erased session in the
\* projection, and the scan's correction holds none.
Projection ==
    /\ scan_read /= NoKey => ~Excluded(erased, scan_read)
    /\ \A k \in sessions :
          Excluded(erased, k) => purge.pc = "committed" /\ Excluded(Reviewed, k)

\* A policy's revision counts at most the policies saved, and a save that waits
\* for the connection has room.
RevisionsBounded ==
    /\ policy.revision <= saves
    /\ saving /= {} => saves < MaxSaves

IInv ==
    /\ TypeOK
    /\ RevisionsBounded
    /\ Control
    /\ RowsExist
    /\ Tombstones
    /\ ReviewStands
    /\ Projection

-----------------------------------------------------------------------------
(* Facts about the helpers.                                                *)

\* A nonempty set of days has a latest one.
LEMMA MaxOfDays ==
    ASSUME NEW S \in SUBSET Days, S /= {}
    PROVE  Max(S) \in S /\ \A d \in S : d <= Max(S)
<1> DEFINE T == {MaxDay - d : d \in S}
<1>0. MaxDay \in Nat /\ \A d \in S : d \in Nat /\ d <= MaxDay
  BY DayAssumption DEF Days
<1>1. T \subseteq Nat /\ T /= {}
  <2>1. \A d \in S : MaxDay - d \in Nat
    BY <1>0
  <2>2. PICK d \in S : TRUE
    OBVIOUS
  <2>3. MaxDay - d \in T
    OBVIOUS
  <2> QED BY <2>1, <2>3
<1>2. PICK t \in T : \A u \in T : ~(<<u, t>> \in OpToRel(<, Nat))
  BY <1>1, NatLessThanWellFounded, WFMin
<1>3. \A u \in T : ~(u < t)
  BY <1>1, <1>2 DEF OpToRel
<1>4. PICK m \in S : t = MaxDay - m
  OBVIOUS
<1>5. \A d \in S : m >= d
  <2> SUFFICES ASSUME NEW d \in S PROVE m >= d
    OBVIOUS
  <2>1. MaxDay - d \in T
    OBVIOUS
  <2>2. ~(MaxDay - d < MaxDay - m)
    BY <1>3, <1>4, <2>1
  <2>3. m \in Nat /\ d \in Nat /\ MaxDay \in Nat
    BY DayAssumption DEF Days
  <2> QED BY ONLY <2>2, <2>3
<1>6. Max(S) \in S /\ \A d \in S : Max(S) >= d
  BY <1>4, <1>5 DEF Max
<1>7. \A d \in S : d \in Nat
  BY DayAssumption DEF Days
<1> QED BY <1>6, <1>7

\* The later of two days is a day.
LEMMA LaterDay == ASSUME NEW a \in Days, NEW b \in Days PROVE Later(a, b) \in Days
  BY DEF Later

LEMMA LastReviewedDay == ASSUME TypeOK PROVE LastReviewed \in Days
<1> DEFINE S == {0} \union {durable[k].last : k \in Reviewed}
<1>1. S \in SUBSET Days /\ S /= {}
  BY DayAssumption DEF TypeOK, Rows, Reviewed, Days
<1>2. Max(S) \in Days
  BY <1>1, MaxOfDays
<1> QED BY <1>2 DEF LastReviewed

\* A sum of cardinalities is a number.
LEMMA KeyCounts == ASSUME NEW S \in SUBSET Keys PROVE Cardinality(S) \in Nat
  BY KeysAssumption, FS_Subset, FS_CardinalityType

LEMMA NewLossTyped ==
    ASSUME TypeOK, NEW known \in BOOLEAN PROVE NewLoss(known) \in Losses
<1>1. LastReviewed \in Days
  BY LastReviewedDay
<1>2. Cardinality(purged) \in Nat /\ Cardinality(Reviewed) \in Nat
  BY KeyCounts DEF TypeOK, Reviewed
<1> DEFINE previous == IF purged = {} THEN NoLoss ELSE loss
<1>3. NoLoss \in Losses
  BY DayAssumption DEF NoLoss, Losses, Days
<1>4. previous \in Losses
  BY <1>3 DEF TypeOK
<1>5. previous.bound \in Days /\ previous.revision \in Nat
  BY <1>4 DEF Losses
<1> DEFINE new == [bound |-> Later(previous.bound, LastReviewed),
                   count |-> Cardinality(purged) + Cardinality(Reviewed),
                   revision |-> previous.revision + 1]
<1>6. new \in Losses
  <2>1. Later(previous.bound, LastReviewed) \in Days
    BY <1>1, <1>5, LaterDay
  <2>2. Cardinality(purged) + Cardinality(Reviewed) \in Nat /\ previous.revision + 1 \in Nat
    BY <1>2, <1>5
  <2> HIDE DEF previous
  <2> QED BY <2>1, <2>2 DEF Losses
<1>7. NewLoss(known) = new \/ NewLoss(known) = NoLoss
  BY DEF NewLoss
<1> QED BY <1>3, <1>6, <1>7

\* refresh_missing retires rows, it neither adds nor removes one.
LEMMA RefreshMissingKeeps ==
    ASSUME TypeOK, NEW places \in [Paths -> Locations]
    PROVE  /\ RefreshMissing(durable, places) \in [Keys -> Rows]
           /\ \A k \in Keys : /\ RefreshMissing(durable, places)[k] = NoSession
                                 <=> durable[k] = NoSession
                              /\ RefreshMissing(durable, places)[k].lifecycle = "none"
                                 <=> durable[k].lifecycle = "none"
<1> SUFFICES ASSUME NEW k \in Keys
             PROVE  /\ RefreshMissing(durable, places)[k] \in Rows
                    /\ RefreshMissing(durable, places)[k] = NoSession <=> durable[k] = NoSession
                    /\ RefreshMissing(durable, places)[k].lifecycle = "none"
                       <=> durable[k].lifecycle = "none"
  BY DEF RefreshMissing
<1>1. durable[k] \in Rows
  BY DEF TypeOK
<1> DEFINE retired == [durable[k] EXCEPT !.lifecycle = "retained"]
<1>2. retired \in Rows /\ retired.lifecycle = "retained"
  BY <1>1 DEF Rows, Lifecycles
<1>3. \/ RefreshMissing(durable, places)[k] = durable[k]
      \/ durable[k].lifecycle = "present" /\ RefreshMissing(durable, places)[k] = retired
  BY DEF RefreshMissing
<1>4. NoSession.lifecycle = "none"
  BY DEF NoSession
<1> QED BY <1>1, <1>2, <1>3, <1>4

\* The rows of a preview have their type.
LEMMA CandidateRowsTyped ==
    ASSUME TypeOK, NEW cutoff PROVE CandidateRows(cutoff) \in [Keys -> Rows]
<1>1. NoSession \in Rows
  BY DayAssumption DEF NoSession, Rows, Lifecycles, Days
<1> QED BY <1>1 DEF CandidateRows, TypeOK

\* A cutoff is a day.
LEMMA CutoffDay == ASSUME TypeOK PROVE Cutoff \in Days
<1>0. policy.days \in Durations \union {0}
  BY DEF TypeOK, Policies
<1>1. policy.days \in Nat
  <2>1. \A d \in Durations \union {0} : d \in Nat
    BY DurationsAssumption
  <2> QED BY <1>0, <2>1
<1>2. today \in Nat /\ today <= MaxDay
  BY DayAssumption DEF TypeOK
<1> QED BY <1>1, <1>2, DayAssumption DEF Cutoff, Days

\* The idle values.
LEMMA IdleValues ==
    /\ NoPreview \in Previews /\ IdlePurge \in [pc : PurgePCs, preview : Previews]
    /\ IdlePurge.pc = "idle" /\ NoFile \in Files /\ NoLocation \in Locations
    /\ NoSession \in Rows /\ KeepAll \in Policies /\ NoLoss \in Losses
<1>1. NoSession \in Rows /\ 0 \in Days
  BY DayAssumption DEF NoSession, Rows, Lifecycles, Days
<1>2. [k \in Keys |-> NoSession] \in [Keys -> Rows]
  BY <1>1
<1>3. 0 \in 0..MaxSaves
  BY SavesAssumption
<1>4. NoPreview \in Previews
  BY <1>1, <1>2, <1>3 DEF NoPreview, Previews
<1>5. IdlePurge \in [pc : PurgePCs, preview : Previews] /\ IdlePurge.pc = "idle"
  BY <1>4 DEF IdlePurge, PurgePCs
<1> QED BY <1>1, <1>3, <1>4, <1>5 DEF NoFile, Files, NoLocation, Locations, KeepAll, Policies,
           NoLoss, Losses

LEMMA InitIInv == Init => IInv
<1> SUFFICES ASSUME Init PROVE IInv
  OBVIOUS
<1>1. TypeOK
  <2>1. /\ today \in 1..MaxDay /\ changes \in 0..MaxChanges /\ crashes \in 0..MaxCrashes
        /\ lost \in Days /\ refused \in Days /\ saves \in 0..MaxSaves
    BY DayAssumption, ChangesAssumption, SavesAssumption, CrashesAssumption DEF Init, Days
  <2>2. /\ disk \in [Paths -> Files] /\ location \in [Paths -> Locations]
        /\ durable \in [Keys -> Rows] /\ policy \in Policies /\ loss \in Losses
        /\ preview_read \in Previews /\ pending_purge \in Previews
        /\ purge \in [pc : PurgePCs, preview : Previews]
    BY IdleValues DEF Init
  <2>3. journal \in Journals
    BY DEF Init, Journals
  <2> QED BY <2>1, <2>2, <2>3 DEF Init, TypeOK
<1>2. Control
  BY IdleValues DEF Init, Control, Purging
<1>3. RowsExist
  BY DEF Init, RowsExist, NoLocation
<1>4. Tombstones
  BY DEF Init, Tombstones, Excluded
<1>5. ReviewStands
  BY IdleValues DEF Init, ReviewStands
<1>6. Projection
  BY DEF Init, Projection
<1>7. RevisionsBounded
  BY SavesAssumption DEF Init, RevisionsBounded, KeepAll
<1> QED BY <1>1, <1>2, <1>3, <1>4, <1>5, <1>6, <1>7 DEF IInv

-----------------------------------------------------------------------------
(* Frame lemmas.                                                           *)

\* The ledger's parts follow from its variables.
LEMMA LedgerKept ==
    ASSUME IInv, UNCHANGED <<durable, location, purged, erased>>, journal'.keys = journal.keys
    PROVE  /\ RowsExist' /\ Tombstones'
           /\ UNCHANGED purge => ReviewStands'
  BY DEF IInv, RowsExist, Tombstones, Excluded, ReviewStands, Reviewed, CandidateRows,
         PurgeCandidates

\* The projection's part while no purge begins or ends.
LEMMA ProjectionKept ==
    ASSUME IInv, UNCHANGED <<erased, purge, scan_read>>,
           \A k \in sessions' : k \in sessions \/ ~Excluded(erased, k)
    PROVE  Projection'
  BY DEF IInv, Projection, Excluded, Reviewed

\* A purge that ends before its commit, and one that is not running.
LEMMA PurgeEnds ==
    ASSUME IInv, purge'.pc \in {"idle", "taken"}
    PROVE  ReviewStands' /\ ~Purging'
  BY DEF ReviewStands, Purging

\* A row in the ledger belongs to no erased group.
LEMMA RowsNotErased ==
    ASSUME IInv, NEW k \in Keys, durable[k] /= NoSession
    PROVE  ~Excluded(purged, k) /\ ~Excluded(erased, k)
  BY DEF IInv, Tombstones, Excluded

-----------------------------------------------------------------------------
(* One lemma for each kind of step.                                        *)

\* The clock and the files do not touch what the program holds.
LEMMA FileStepKept == ASSUME IInv, FileStep PROVE IInv'
<1> USE DEF sqlVars, commandVars, threadVars, ghostVars
<1>1. FileUnchanged
  BY DEF FileStep, NextDay, DeleteFile, WriteFile
<1>2. today' \in 1..MaxDay /\ changes' \in 0..MaxChanges /\ disk' \in [Paths -> Files]
  <2>0. today \in 1..MaxDay /\ changes \in 0..MaxChanges /\ disk \in [Paths -> Files]
    BY DEF IInv, TypeOK
  <2>1. CASE NextDay
    BY <2>0, <2>1, DayAssumption DEF NextDay
  <2>2. ASSUME NEW p \in Paths, DeleteFile(p)
        PROVE  today' \in 1..MaxDay /\ changes' \in 0..MaxChanges /\ disk' \in [Paths -> Files]
    BY <2>0, <2>2, ChangesAssumption, IdleValues DEF DeleteFile
  <2>3. ASSUME NEW p \in Paths, NEW k \in Keys, WriteFile(p, k)
        PROVE  today' \in 1..MaxDay /\ changes' \in 0..MaxChanges /\ disk' \in [Paths -> Files]
    <3>1. [key |-> k, last |-> today] \in Files
      BY <2>0, DayAssumption DEF Files, Days
    <3> QED BY <2>0, <2>3, <3>1, ChangesAssumption DEF WriteFile
  <2> QED BY <2>1, <2>2, <2>3 DEF FileStep
<1>3. TypeOK'
  BY <1>1, <1>2 DEF IInv, TypeOK, FileUnchanged
<1>4. Control'
  BY <1>1 DEF IInv, Control, Purging, FileUnchanged
<1>5. RowsExist' /\ Tombstones' /\ ReviewStands'
  BY <1>1, LedgerKept DEF FileUnchanged
<1>6. Projection'
  BY <1>1, ProjectionKept DEF FileUnchanged
<1>7. RevisionsBounded'
  BY <1>1 DEF IInv, RevisionsBounded, FileUnchanged
<1> QED BY <1>3, <1>4, <1>5, <1>6, <1>7 DEF IInv

\* A source marked missing keeps its row.
LEMMA MissingKept ==
    ASSUME IInv, NEW p \in Paths,
           location' = [location EXCEPT ![p].present = FALSE],
           durable' = RefreshMissing(durable, location'),
           UNCHANGED <<purged, erased, journal>>
    PROVE  /\ location' \in [Paths -> Locations] /\ durable' \in [Keys -> Rows]
           /\ RowsExist' /\ Tombstones'
<1>1. location' \in [Paths -> Locations]
      /\ \A q \in Paths : /\ location'[q].key = location[q].key
                          /\ location'[q].present => location[q].present
  <2>1. [location[p] EXCEPT !.present = FALSE] \in Locations
        /\ [location[p] EXCEPT !.present = FALSE].key = location[p].key
        /\ ~[location[p] EXCEPT !.present = FALSE].present
    BY DEF IInv, TypeOK, Locations
  <2>2. location' = [location EXCEPT ![p] = [location[p] EXCEPT !.present = FALSE]]
    OBVIOUS
  <2> QED BY <2>1, <2>2 DEF IInv, TypeOK
<1>2. /\ durable' \in [Keys -> Rows]
      /\ \A k \in Keys : /\ durable'[k] = NoSession <=> durable[k] = NoSession
                         /\ durable'[k].lifecycle = "none" <=> durable[k].lifecycle = "none"
  BY <1>1, RefreshMissingKeeps DEF IInv
<1>3. \A q \in Paths : location[q].key /= NoKey => location[q].key \in Keys
  BY DEF IInv, TypeOK, Locations
<1>4. RowsExist'
  <2>1. \A k \in Keys : durable'[k].lifecycle = "none" => durable'[k] = NoSession
    BY <1>2 DEF IInv, RowsExist
  <2>2. \A q \in Paths : location'[q].present => location'[q].key /= NoKey
    BY <1>1 DEF IInv, RowsExist
  <2>3. \A q \in Paths : location'[q].key /= NoKey => durable'[location'[q].key] /= NoSession
    <3> SUFFICES ASSUME NEW q \in Paths, location[q].key /= NoKey
                 PROVE  durable'[location[q].key] /= NoSession
      BY <1>1
    <3>1. location[q].key \in Keys /\ durable[location[q].key] /= NoSession
      BY <1>3 DEF IInv, RowsExist
    <3> QED BY <1>2, <3>1
  <2> QED BY <2>1, <2>2, <2>3 DEF RowsExist
<1>5. Tombstones'
  BY <1>2 DEF IInv, Tombstones, Excluded, TypeOK, Journals
<1> QED BY <1>1, <1>2, <1>4, <1>5

\* The watcher refuses what has a tombstone and asks again before it publishes.
LEMMA WatcherStepKept == ASSUME IInv, WatcherStep PROVE IInv'
<1> USE DEF fileVars, commandVars
<1>1. WatcherUnchanged
  BY DEF WatcherStep, WatcherPublish, WatcherObserve, WatcherUnpersisted, MarkSourceMissing
<1>2. Control' /\ RevisionsBounded'
  BY <1>1 DEF IInv, Control, Purging, RevisionsBounded, WatcherUnchanged
<1>t. ASSUME location' \in [Paths -> Locations], durable' \in [Keys -> Rows],
             sessions' \in SUBSET Keys, watcher' \in Keys \union {NoKey}, refused' \in Days
      PROVE  TypeOK'
  BY <1>t, <1>1 DEF IInv, TypeOK, WatcherUnchanged
<1>p. ~Purging => ReviewStands'
  BY <1>1 DEF ReviewStands, Purging, WatcherUnchanged
<1>ty. /\ location \in [Paths -> Locations] /\ durable \in [Keys -> Rows]
       /\ sessions \in SUBSET Keys /\ watcher \in Keys \union {NoKey} /\ refused \in Days
       /\ disk \in [Paths -> Files] /\ purged \in SUBSET Keys /\ erased \in SUBSET Keys
  BY DEF IInv, TypeOK
<1>3. CASE WatcherPublish
  <2>0. watcher \in Keys /\ ~Purging
    BY <1>3, <1>ty DEF WatcherPublish
  <2>1. TypeOK'
    BY <1>3, <1>t, <1>ty, <2>0 DEF WatcherPublish
  <2>2. RowsExist' /\ Tombstones'
    BY <1>1, <1>3, LedgerKept DEF WatcherPublish, WatcherUnchanged
  <2>3. MayPublishHistory(watcher) => ~Excluded(erased, watcher)
    BY DEF MayPublishHistory, IInv, Tombstones, Excluded
  <2>4. Projection'
    BY <1>1, <1>3, <2>3, ProjectionKept DEF WatcherPublish, WatcherUnchanged
  <2> QED BY <1>2, <1>p, <2>0, <2>1, <2>2, <2>4 DEF IInv
<1>4. ASSUME NEW p \in Paths, WatcherUnpersisted(p) PROVE IInv'
  <2>1. TypeOK'
    BY <1>4, <1>t, <1>ty DEF WatcherUnpersisted, Files
  <2>2. RowsExist' /\ Tombstones'
    BY <1>1, <1>4, LedgerKept DEF WatcherUnpersisted, WatcherUnchanged
  <2>3. Projection'
    BY <1>1, <1>4, ProjectionKept DEF WatcherUnpersisted, WatcherUnchanged
  <2> QED BY <1>2, <1>4, <1>p, <2>1, <2>2, <2>3 DEF IInv, WatcherUnpersisted
<1>5. ASSUME NEW p \in Paths, WatcherObserve(p) PROVE IInv'
  <2> DEFINE k == disk[p].key
             places == [location EXCEPT ![p] = [key |-> k, present |-> TRUE]]
             row == [lifecycle |-> "present", last |-> Later(durable[k].last, disk[p].last)]
  <2>1. k \in Keys /\ disk[p].last \in Days /\ durable[k].last \in Days
    BY <1>5, <1>ty DEF WatcherObserve, Files, Rows
  <2>2. Projection'
    BY <1>1, <1>5, ProjectionKept DEF WatcherObserve, WatcherUnchanged
  <2>3. ReviewStands'
    BY <1>5, <1>p DEF WatcherObserve
  <2>4. CASE Excluded(purged, k)
    <3>1. UNCHANGED <<location, durable, watcher, sessions>>
          /\ refused' = Later(refused, disk[p].last)
      BY <1>5, <2>4 DEF WatcherObserve
    <3>2. TypeOK'
      BY <1>t, <1>ty, <2>1, <3>1, LaterDay
    <3>3. RowsExist' /\ Tombstones'
      BY <1>1, <3>1, LedgerKept DEF WatcherUnchanged
    <3> QED BY <1>2, <2>2, <2>3, <3>2, <3>3 DEF IInv
  <2>5. CASE ~Excluded(purged, k)
    <3>1. row \in Rows /\ row.lifecycle = "present"
      BY <2>1, LaterDay DEF Rows, Lifecycles
    <3>2. location' = places /\ places \in [Paths -> Locations]
      <4>1. [key |-> k, present |-> TRUE] \in Locations
        BY <2>1 DEF Locations
      <4> QED BY <1>5, <1>ty, <2>5, <4>1 DEF WatcherObserve
    <3>3. \A j \in Keys :
            \/ j = k /\ durable'[j] = row
            \/ j /= k /\ durable'[j] = durable[j]
            \/ /\ j /= k /\ j = location[p].key
               /\ durable'[j] = [durable[j] EXCEPT !.lifecycle = "superseded"]
      <4> HIDE DEF row
      <4> SUFFICES ASSUME NEW j \in Keys
                   PROVE  \/ j = k /\ durable'[j] = row
                          \/ j /= k /\ durable'[j] = durable[j]
                          \/ /\ j /= k /\ j = location[p].key
                             /\ durable'[j] = [durable[j] EXCEPT !.lifecycle = "superseded"]
        OBVIOUS
      <4>1. durable'[j] = CASE j = k -> row
                            [] /\ j = location[p].key /\ j /= k
                               /\ ~\E q \in Paths : places[q] = [key |-> j, present |-> TRUE]
                               -> [durable[j] EXCEPT !.lifecycle = "superseded"]
                            [] OTHER -> durable[j]
        BY <1>5, <2>5 DEF WatcherObserve, row
      <4> QED BY <4>1
    <3> HIDE DEF row
    <3>r. /\ NoSession.lifecycle = "none"
          /\ \A j \in Keys : [durable[j] EXCEPT !.lifecycle = "superseded"].lifecycle = "superseded"
      BY <1>ty DEF NoSession, Rows
    <3>4. durable' \in [Keys -> Rows]
      <4>1. \A j \in Keys : [durable[j] EXCEPT !.lifecycle = "superseded"] \in Rows
        BY <1>ty DEF Rows, Lifecycles
      <4>2. \A j \in Keys : durable'[j] \in Rows
        BY <1>ty, <3>1, <3>3, <4>1
      <4>3. durable' = [j \in Keys |-> durable'[j]]
        BY <1>5, <2>5 DEF WatcherObserve
      <4> QED BY <4>2, <4>3
    <3>5. \A j \in Keys : durable[j] /= NoSession => durable'[j] /= NoSession
      BY <3>1, <3>3, <3>r
    <3>6. TypeOK'
      BY <1>5, <1>t, <1>ty, <2>1, <2>5, <3>2, <3>4 DEF WatcherObserve
    <3>7. RowsExist'
      <4>1. \A j \in Keys : durable'[j].lifecycle = "none" => durable'[j] = NoSession
        BY <3>1, <3>3, <3>r DEF IInv, RowsExist
      <4>2. \A q \in Paths : location'[q] = IF q = p THEN [key |-> k, present |-> TRUE]
                                             ELSE location[q]
        BY <1>ty, <3>2
      <4>3. \A q \in Paths : location'[q].present => location'[q].key /= NoKey
        BY <1>ty, <2>1, <4>2, KeysAssumption DEF IInv, RowsExist
      <4>4. durable'[k] /= NoSession
        BY <2>1, <3>1, <3>3, <3>r
      <4>5. \A q \in Paths : location'[q].key /= NoKey => durable'[location'[q].key] /= NoSession
        <5> SUFFICES ASSUME NEW q \in Paths, location'[q].key /= NoKey
                     PROVE  durable'[location'[q].key] /= NoSession
          OBVIOUS
        <5>1. CASE q = p
          BY <4>2, <4>4, <5>1
        <5>2. CASE q /= p
          <6>1. location[q].key \in Keys /\ location'[q].key = location[q].key
            BY <1>ty, <4>2, <5>2 DEF Locations
          <6> QED BY <3>5, <6>1 DEF IInv, RowsExist
        <5> QED BY <5>1, <5>2
      <4> QED BY <4>1, <4>3, <4>5 DEF RowsExist
    <3>8. Tombstones'
      <4>1. \A j \in Keys : Excluded(purged, j) => durable'[j] = NoSession
        <5> SUFFICES ASSUME NEW j \in Keys, Excluded(purged, j) PROVE durable'[j] = NoSession
          OBVIOUS
        <5>1. durable[j] = NoSession /\ j /= k
          BY <2>5 DEF IInv, Tombstones
        <5>2. j /= location[p].key
          BY <5>1, KeysAssumption DEF IInv, RowsExist
        <5> QED BY <3>3, <5>1, <5>2
      <4>2. \A j \in journal.keys : durable'[j] = NoSession => j \in purged
        BY <3>5 DEF IInv, Tombstones, TypeOK, Journals
      <4> QED BY <1>1, <4>1, <4>2 DEF IInv, Tombstones, Excluded, WatcherUnchanged
    <3> QED BY <1>2, <2>2, <2>3, <3>6, <3>7, <3>8 DEF IInv
  <2> QED BY <2>4, <2>5
<1>6. ASSUME NEW p \in Paths, MarkSourceMissing(p) PROVE IInv'
  <2> DEFINE places == [location EXCEPT ![p].present = FALSE]
  <2>1. /\ ~Purging /\ location[p].present /\ location' = places
        /\ durable' = RefreshMissing(durable, places)
        /\ sessions' = sessions \union {location[p].key}
        /\ UNCHANGED <<watcher, refused>>
    BY <1>6 DEF MarkSourceMissing
  <2>2. location[p].key \in Keys /\ durable[location[p].key] /= NoSession
    BY <1>ty, <2>1 DEF IInv, RowsExist, Locations
  <2>3. /\ location' \in [Paths -> Locations] /\ durable' \in [Keys -> Rows]
        /\ RowsExist' /\ Tombstones'
    BY <1>1, <2>1, MissingKept DEF WatcherUnchanged
  <2>4. TypeOK'
    BY <1>t, <1>ty, <2>1, <2>2, <2>3
  <2>5. Projection'
    BY <1>1, <2>1, <2>2, RowsNotErased, ProjectionKept DEF WatcherUnchanged
  <2> QED BY <1>2, <1>p, <2>1, <2>3, <2>4, <2>5 DEF IInv
<1> QED BY <1>3, <1>4, <1>5, <1>6 DEF WatcherStep

\* The scan holds durable_writers, so no purge runs beside it.
LEMMA ScanStepKept == ASSUME IInv, ScanStep PROVE IInv'
<1> USE DEF fileVars, commandVars, ghostVars
<1>1. ScanUnchanged
  BY DEF ScanStep, ScanBegin, ScanInsertMissing, ScanEnd, ScanMarkMissing
<1>2. RevisionsBounded'
  BY <1>1 DEF IInv, RevisionsBounded, ScanUnchanged
<1>t. ASSUME location' \in [Paths -> Locations], durable' \in [Keys -> Rows],
             sessions' \in SUBSET Keys, scan' \in {"idle", "running"},
             scan_read' \in Keys \union {NoKey}
      PROVE  TypeOK'
  BY <1>t, <1>1 DEF IInv, TypeOK, ScanUnchanged
<1>ty. /\ location \in [Paths -> Locations] /\ durable \in [Keys -> Rows]
       /\ sessions \in SUBSET Keys /\ scan_read \in Keys \union {NoKey}
       /\ scan \in {"idle", "running"}
  BY DEF IInv, TypeOK
<1>3. CASE ScanBegin \/ ScanEnd
  <2>1. /\ UNCHANGED <<scan_read, location, durable, sessions>> /\ scan' \in {"idle", "running"}
        /\ scan' = "running" => readiness = "ready" /\ ~Purging
        /\ scan' = "idle" => scan_read = NoKey
    BY <1>3 DEF ScanBegin, ScanEnd, Reserved
  <2>2. TypeOK'
    BY <1>t, <1>ty, <2>1
  <2>3. Control'
    BY <1>1, <2>1 DEF IInv, Control, Purging, ScanUnchanged
  <2>4. RowsExist' /\ Tombstones' /\ ReviewStands'
    BY <1>1, <2>1, LedgerKept DEF ScanUnchanged
  <2>5. Projection'
    BY <1>1, <2>1, ProjectionKept DEF ScanUnchanged
  <2> QED BY <1>2, <2>2, <2>3, <2>4, <2>5 DEF IInv
<1>4. CASE ScanInsertMissing
  <2>1. TypeOK'
    BY <1>4, <1>t, <1>ty DEF ScanInsertMissing
  <2>2. Control'
    BY <1>1, <1>4 DEF ScanInsertMissing, IInv, Control, Purging, ScanUnchanged
  <2>3. RowsExist' /\ Tombstones' /\ ReviewStands'
    BY <1>1, <1>4, LedgerKept DEF ScanInsertMissing, ScanUnchanged
  <2>4. Projection'
    BY <1>1, <1>4 DEF ScanInsertMissing, IInv, Projection, Excluded, Reviewed, ScanUnchanged
  <2> QED BY <1>2, <2>1, <2>2, <2>3, <2>4 DEF IInv
<1>5. ASSUME NEW p \in Paths, ScanMarkMissing(p) PROVE IInv'
  <2>1. /\ scan = "running" /\ location[p].key /= NoKey
        /\ location' = [location EXCEPT ![p].present = FALSE]
        /\ durable' = RefreshMissing(durable, location')
        /\ scan_read' = location[p].key /\ UNCHANGED <<scan, sessions>>
    BY <1>5 DEF ScanMarkMissing
  <2>2. location[p].key \in Keys /\ durable[location[p].key] /= NoSession
    BY <1>ty, <2>1 DEF IInv, RowsExist, Locations
  <2>3. /\ location' \in [Paths -> Locations] /\ durable' \in [Keys -> Rows]
        /\ RowsExist' /\ Tombstones'
    BY <1>1, <2>1, MissingKept DEF ScanUnchanged
  <2>4. TypeOK'
    BY <1>t, <1>ty, <2>1, <2>2, <2>3
  <2>5. Control' /\ ~Purging'
    BY <1>1, <2>1 DEF IInv, Control, Purging, ScanUnchanged
  <2>6. ReviewStands'
    BY <2>5 DEF ReviewStands, Purging
  <2>7. ~Excluded(erased, scan_read')
    BY <2>1, <2>2, RowsNotErased
  <2>8. Projection'
    BY <1>1, <2>1, <2>7 DEF IInv, Projection, Excluded, Reviewed, ScanUnchanged
  <2> QED BY <1>2, <2>3, <2>4, <2>5, <2>6, <2>8 DEF IInv
<1> QED BY <1>3, <1>4, <1>5 DEF ScanStep

\* A group is reviewed and deleted as a whole: a candidate's siblings with a row
\* are candidates too.
LEMMA ReviewedWholeGroups ==
    ASSUME IInv, purge.pc \in {"checked", "journalled"}, NEW k \in Keys, Excluded(Reviewed, k)
    PROVE  durable[k] = NoSession \/ k \in Reviewed
<1> DEFINE cutoff == purge.preview.cutoff
<1>1. purge.preview.rows = CandidateRows(cutoff)
  BY DEF IInv, ReviewStands
<1>2. \A j \in Keys : j \in Reviewed => j \in PurgeCandidates(cutoff)
  BY <1>1 DEF Reviewed, CandidateRows
<1>3. PICK t \in Reviewed : GroupOf[t] = GroupOf[k]
  BY DEF Excluded
<1>4. t \in Keys /\ t \in PurgeCandidates(cutoff)
  BY <1>2 DEF Reviewed
<1>5. \A j \in Keys : GroupOf[j] = GroupOf[t]
          => /\ durable[j].lifecycle /= "present"
             /\ durable[j].lifecycle /= "none" => durable[j].last < cutoff
  BY <1>4 DEF PurgeCandidates
<1>6. durable[k].lifecycle \in Lifecycles
  BY DEF IInv, TypeOK, Rows
<1>7. CASE durable[k].lifecycle = "none"
  BY <1>7 DEF IInv, RowsExist
<1>8. CASE durable[k].lifecycle /= "none"
  <2>1. durable[k].lifecycle \in {"retained", "superseded"}
    BY <1>3, <1>5, <1>6, <1>8 DEF Lifecycles
  <2>2. k \in PurgeCandidates(cutoff)
    BY <1>3, <1>5, <2>1 DEF PurgeCandidates
  <2>3. purge.preview.rows[k] = durable[k]
    BY <1>1, <2>2 DEF CandidateRows
  <2>4. durable[k] /= NoSession
    BY <1>8 DEF NoSession
  <2> QED BY <2>3, <2>4 DEF Reviewed
<1> QED BY <1>7, <1>8

\* A purge deletes under the locks what was reviewed, after its tombstones are
\* in the journal.
LEMMA CommandStepKept == ASSUME IInv, CommandStep PROVE IInv'
<1> USE DEF fileVars, threadVars
<1>1. CommandUnchanged
  BY DEF CommandStep, SetRetentionPolicy, SavePolicy, PreviewPurge, StorePreview, ConfirmPurge,
         PurgeCheck, PurgeJournal, PurgeFails, PurgeCommit, PurgeRemove
<1>ty. /\ policy \in Policies /\ saving \in SUBSET (Durations \union {0})
       /\ preview_read \in Previews /\ pending_purge \in Previews
       /\ purge \in [pc : PurgePCs, preview : Previews] /\ saves \in 0..MaxSaves
       /\ location \in [Paths -> Locations] /\ durable \in [Keys -> Rows]
       /\ purged \in SUBSET Keys /\ coverage \in BOOLEAN /\ loss \in Losses
       /\ journal \in Journals /\ sessions \in SUBSET Keys /\ erased \in SUBSET Keys
       /\ lost \in Days
  BY DEF IInv, TypeOK
<1>t. ASSUME policy' \in Policies, saving' \in SUBSET (Durations \union {0}),
             preview_read' \in Previews, pending_purge' \in Previews,
             purge' \in [pc : PurgePCs, preview : Previews], saves' \in 0..MaxSaves,
             location' \in [Paths -> Locations], durable' \in [Keys -> Rows],
             purged' \in SUBSET Keys, coverage' \in BOOLEAN, loss' \in Losses,
             journal' \in Journals, sessions' \in SUBSET Keys, erased' \in SUBSET Keys,
             lost' \in Days
      PROVE  TypeOK'
  BY <1>t, <1>1 DEF IInv, TypeOK, CommandUnchanged
<1>pc. \A pc \in PurgePCs :
          /\ [purge EXCEPT !.pc = pc] \in [pc : PurgePCs, preview : Previews]
          /\ [purge EXCEPT !.pc = pc].pc = pc
          /\ [purge EXCEPT !.pc = pc].preview = purge.preview
  BY <1>ty
<1>2. CASE \/ \E days \in Durations \union {0} : SetRetentionPolicy(days)
           \/ SavePolicy \/ PreviewPurge \/ StorePreview
  <2>1. LedgerUnchanged /\ UNCHANGED purge
    BY <1>2 DEF SetRetentionPolicy, SavePolicy, PreviewPurge, StorePreview
  <2>2. Control'
    BY <1>1, <2>1 DEF IInv, Control, Purging, CommandUnchanged
  <2>3. RowsExist' /\ Tombstones' /\ ReviewStands'
    BY <2>1, LedgerKept DEF LedgerUnchanged
  <2>4. Projection'
    BY <1>1, <2>1, ProjectionKept DEF LedgerUnchanged, CommandUnchanged
  <2>5. /\ policy' \in Policies /\ saving' \in SUBSET (Durations \union {0})
        /\ preview_read' \in Previews /\ pending_purge' \in Previews /\ saves' \in 0..MaxSaves
        /\ RevisionsBounded'
    <3>0. policy.revision \in Nat /\ saves \in Nat /\ MaxSaves \in Nat
          /\ policy.revision <= saves /\ (saving /= {} => saves < MaxSaves)
      BY <1>ty, SavesAssumption DEF Policies, IInv, RevisionsBounded
    <3>1. ASSUME NEW days \in Durations \union {0}, SetRetentionPolicy(days)
          PROVE  /\ policy' \in Policies /\ saving' \in SUBSET (Durations \union {0})
                 /\ preview_read' \in Previews /\ pending_purge' \in Previews
                 /\ saves' \in 0..MaxSaves /\ RevisionsBounded'
      BY <1>ty, <3>0, <3>1, IdleValues DEF SetRetentionPolicy, RevisionsBounded
    <3>2. CASE SavePolicy
      <4>1. PICK days \in saving : policy' = [days |-> days, revision |-> policy.revision + 1]
        BY <3>2 DEF SavePolicy
      <4>2. policy.revision + 1 \in 0..MaxSaves /\ saves + 1 \in 0..MaxSaves
        BY <3>0, <4>1
      <4>3. policy' \in Policies /\ policy'.revision = policy.revision + 1
        BY <1>ty, <4>1, <4>2 DEF Policies
      <4>4. UNCHANGED <<preview_read, pending_purge>> /\ saves' = saves + 1 /\ saving' = {}
        BY <3>2 DEF SavePolicy
      <4>5. RevisionsBounded'
        BY <3>0, <4>3, <4>4 DEF RevisionsBounded
      <4> QED BY <1>ty, <4>2, <4>3, <4>4, <4>5
    <3>3. CASE PreviewPurge
      <4>1. Cutoff \in Days /\ CandidateRows(Cutoff) \in [Keys -> Rows]
        BY CutoffDay, CandidateRowsTyped DEF IInv
      <4>2. preview_read' = [cutoff |-> Cutoff, policy_revision |-> policy.revision,
                             rows |-> CandidateRows(Cutoff), saves |-> saves, some |-> TRUE]
            /\ UNCHANGED <<policy, saving, pending_purge, saves>>
        BY <3>3 DEF PreviewPurge
      <4>3. preview_read' \in Previews
        BY <1>ty, <4>1, <4>2 DEF Previews, Policies
      <4> QED BY <1>ty, <3>0, <4>2, <4>3 DEF RevisionsBounded
    <3>4. CASE StorePreview
      BY <1>ty, <3>0, <3>4, IdleValues DEF StorePreview, RevisionsBounded
    <3> QED BY <1>2, <3>1, <3>2, <3>3, <3>4
  <2>6. TypeOK'
    BY <1>t, <1>ty, <2>1, <2>5 DEF LedgerUnchanged
  <2> QED BY <2>2, <2>3, <2>4, <2>5, <2>6 DEF IInv
<1>3. CASE \/ \E matches \in BOOLEAN : ConfirmPurge(matches)
           \/ PurgeCheck \/ PurgeJournal \/ PurgeFails \/ PurgeRemove
           \/ \E known \in BOOLEAN : PurgeCommit(known)
  <2>0. UNCHANGED <<policy, saving, preview_read, saves>>
    BY <1>3 DEF ConfirmPurge, PurgeCheck, PurgeJournal, PurgeFails, PurgeRemove, PurgeCommit,
                PurgeUnchanged
  <2>r. RevisionsBounded'
    BY <2>0 DEF IInv, RevisionsBounded
  <2>1. ASSUME NEW matches \in BOOLEAN, ConfirmPurge(matches) PROVE IInv'
    <3>1. LedgerUnchanged /\ purge.pc = "idle" /\ pending_purge' = NoPreview
      BY <2>1 DEF ConfirmPurge
    <3>2. /\ purge' \in [pc : PurgePCs, preview : Previews]
          /\ purge'.pc \in {"idle", "taken"}
      <4>1. [pc |-> "taken", preview |-> pending_purge] \in [pc : PurgePCs, preview : Previews]
        BY <1>ty DEF PurgePCs
      <4> QED BY <1>ty, <2>1, <3>1, <4>1 DEF ConfirmPurge
    <3>3. TypeOK'
      BY <1>t, <1>ty, <2>0, <3>1, <3>2, IdleValues DEF LedgerUnchanged
    <3>4. Control' /\ ReviewStands'
      BY <1>1, <3>2, PurgeEnds DEF IInv, Control, CommandUnchanged
    <3>5. RowsExist' /\ Tombstones'
      BY <3>1, LedgerKept DEF LedgerUnchanged
    <3>6. Projection'
      BY <1>1, <3>1 DEF IInv, Projection, Excluded, LedgerUnchanged, CommandUnchanged
    <3> QED BY <2>r, <3>3, <3>4, <3>5, <3>6 DEF IInv
  <2>2. CASE PurgeCheck
    <3>1. LedgerUnchanged /\ purge.pc = "taken" /\ readiness = "ready"
          /\ UNCHANGED pending_purge
      BY <2>2 DEF PurgeCheck
    <3>2. \/ purge' = IdlePurge
          \/ /\ purge' = [purge EXCEPT !.pc = "checked"] /\ scan = "idle"
             /\ CandidateRows(purge.preview.cutoff) = purge.preview.rows
      BY <2>2 DEF PurgeCheck
    <3>3. purge' \in [pc : PurgePCs, preview : Previews]
      BY <1>pc, <3>2, IdleValues DEF PurgePCs
    <3>4. TypeOK'
      BY <1>t, <1>ty, <2>0, <3>1, <3>3 DEF LedgerUnchanged
    <3>5. RowsExist' /\ Tombstones'
      BY <3>1, LedgerKept DEF LedgerUnchanged
    <3>6. Projection'
      BY <1>1, <3>1 DEF IInv, Projection, Excluded, LedgerUnchanged, CommandUnchanged
    <3>7. CASE purge' = IdlePurge
      <4>1. Control' /\ ReviewStands'
        BY <1>1, <3>7, PurgeEnds, IdleValues DEF IInv, Control, CommandUnchanged
      <4> QED BY <2>r, <3>4, <3>5, <3>6, <4>1 DEF IInv
    <3>8. CASE purge' = [purge EXCEPT !.pc = "checked"] /\ scan = "idle"
               /\ CandidateRows(purge.preview.cutoff) = purge.preview.rows
      <4>1. purge'.pc = "checked" /\ purge'.preview = purge.preview
        BY <1>pc, <3>8 DEF PurgePCs
      <4>2. Control'
        BY <1>1, <3>1, <3>8 DEF IInv, Control, CommandUnchanged
      <4>3. ReviewStands'
        BY <3>1, <3>8, <4>1
           DEF ReviewStands, CandidateRows, PurgeCandidates, LedgerUnchanged
      <4> QED BY <2>r, <3>4, <3>5, <3>6, <4>2, <4>3 DEF IInv
    <3> QED BY <3>2, <3>7, <3>8
  <2>3. CASE PurgeJournal
    <3>1. /\ purge.pc = "checked" /\ purge' = [purge EXCEPT !.pc = "journalled"]
          /\ UNCHANGED <<location, durable, purged, coverage, loss, sessions, erased, lost>>
          /\ UNCHANGED pending_purge
      BY <2>3 DEF PurgeJournal, PurgeUnchanged
    <3>2. purge'.pc = "journalled" /\ purge'.preview = purge.preview
          /\ purge' \in [pc : PurgePCs, preview : Previews]
      BY <1>pc, <3>1 DEF PurgePCs
    <3>3. journal' \in Journals /\ journal'.keys = journal.keys \union Reviewed
      <4>1. Reviewed \in SUBSET Keys
        BY DEF Reviewed
      <4> QED BY <1>ty, <2>3, <4>1 DEF PurgeJournal, Journals
    <3>4. TypeOK'
      BY <1>t, <1>ty, <2>0, <3>1, <3>2, <3>3
    <3>5. Control'
      BY <1>1, <3>1, <3>2 DEF IInv, Control, Purging, CommandUnchanged
    <3>6. RowsExist'
      BY <3>1 DEF IInv, RowsExist
    <3>7. \A k \in Reviewed : durable[k] /= NoSession
      BY <3>1 DEF IInv, ReviewStands, Reviewed, CandidateRows
    <3>8. Tombstones'
      BY <3>1, <3>3, <3>7 DEF IInv, Tombstones, Excluded
    <3>9. ReviewStands'
      BY <3>1, <3>2, <3>3 DEF IInv, ReviewStands, Reviewed, CandidateRows, PurgeCandidates
    <3>10. Projection'
      BY <1>1, <3>1, <3>2 DEF IInv, Projection, Excluded, CommandUnchanged
    <3> QED BY <2>r, <3>4, <3>5, <3>6, <3>8, <3>9, <3>10 DEF IInv
  <2>4. CASE PurgeFails
    <3>1. /\ purge.pc \in {"checked", "journalled"} /\ purge' = IdlePurge
          /\ UNCHANGED <<location, durable, purged, coverage, loss, sessions, erased, lost>>
          /\ UNCHANGED pending_purge
          /\ journal' = journal \/ journal' = [journal EXCEPT !.torn = TRUE]
      BY <2>4 DEF PurgeFails, PurgeUnchanged
    <3>2. journal' \in Journals /\ journal'.keys = journal.keys
      BY <1>ty, <3>1 DEF Journals
    <3>3. TypeOK'
      BY <1>t, <1>ty, <2>0, <3>1, <3>2, IdleValues
    <3>4. Control' /\ ReviewStands'
      BY <1>1, <3>1, PurgeEnds, IdleValues DEF IInv, Control, CommandUnchanged
    <3>5. RowsExist' /\ Tombstones'
      BY <3>1, <3>2, LedgerKept
    <3>6. Projection'
      BY <1>1, <3>1 DEF IInv, Projection, Excluded, CommandUnchanged
    <3> QED BY <2>r, <3>3, <3>4, <3>5, <3>6 DEF IInv
  <2>5. CASE PurgeRemove
    <3>1. /\ purge.pc = "committed" /\ purge' = IdlePurge
          /\ sessions' = {k \in sessions : ~Excluded(Reviewed, k)}
          /\ UNCHANGED <<location, durable, purged, coverage, loss, journal, erased, lost>>
          /\ UNCHANGED pending_purge
      BY <2>5 DEF PurgeRemove, PurgeUnchanged
    <3>2. TypeOK'
      BY <1>t, <1>ty, <2>0, <3>1, IdleValues
    <3>3. Control' /\ ReviewStands'
      BY <1>1, <3>1, PurgeEnds, IdleValues DEF IInv, Control, CommandUnchanged
    <3>4. RowsExist' /\ Tombstones'
      BY <3>1, LedgerKept
    <3>5. Projection'
      BY <1>1, <3>1 DEF IInv, Projection, Excluded, CommandUnchanged
    <3> QED BY <2>r, <3>2, <3>3, <3>4, <3>5 DEF IInv
  <2>6. ASSUME NEW known \in BOOLEAN, PurgeCommit(known) PROVE IInv'
    <3>1. /\ purge.pc = "journalled" /\ purge' = [purge EXCEPT !.pc = "committed"]
          /\ purged' = purged \union Reviewed /\ erased' = erased \union Reviewed
          /\ durable' = [k \in Keys |-> IF k \in Reviewed THEN NoSession ELSE durable[k]]
          /\ location' = [p \in Paths |-> IF location[p].key \in Reviewed THEN NoLocation
                                          ELSE location[p]]
          /\ lost' = Later(lost, LastReviewed)
          /\ UNCHANGED <<journal, sessions, pending_purge>>
      BY <2>6 DEF PurgeCommit, PurgeUnchanged
    <3>2. Reviewed \in SUBSET Keys
      BY DEF Reviewed
    <3>3. purge'.pc = "committed" /\ purge'.preview = purge.preview
          /\ purge' \in [pc : PurgePCs, preview : Previews]
      BY <1>pc, <3>1 DEF PurgePCs
    <3>4. coverage' \in BOOLEAN /\ loss' \in Losses
      <4>1. NewLoss(known) \in Losses
        BY NewLossTyped DEF IInv
      <4> QED BY <1>ty, <2>6, <4>1 DEF PurgeCommit
    <3>5. TypeOK'
      <4>1. lost' \in Days
        BY <1>ty, <3>1, LastReviewedDay, LaterDay DEF IInv
      <4>2. durable' \in [Keys -> Rows] /\ location' \in [Paths -> Locations]
        BY <1>ty, <3>1, IdleValues
      <4> QED BY <1>t, <1>ty, <2>0, <3>1, <3>2, <3>3, <3>4, <4>1, <4>2
    <3>6. Control'
      BY <1>1, <3>1, <3>3 DEF IInv, Control, Purging, CommandUnchanged
    <3>7. RowsExist'
      <4>1. \A k \in Keys : durable'[k].lifecycle = "none" => durable'[k] = NoSession
        BY <3>1 DEF IInv, RowsExist
      <4>2. \A p \in Paths : /\ location'[p].present => location'[p].key /= NoKey
                             /\ location'[p].key /= NoKey => /\ location[p].key \notin Reviewed
                                                            /\ location'[p] = location[p]
        BY <3>1 DEF IInv, RowsExist, NoLocation
      <4>3. \A p \in Paths : location[p].key /= NoKey => location[p].key \in Keys
        BY <1>ty DEF Locations
      <4>4. \A p \in Paths :
               location'[p].key /= NoKey => durable'[location'[p].key] /= NoSession
        <5> SUFFICES ASSUME NEW p \in Paths, location'[p].key /= NoKey
                     PROVE  durable'[location'[p].key] /= NoSession
          OBVIOUS
        <5>1. location'[p] = location[p] /\ location[p].key \in Keys \ Reviewed
              /\ durable[location[p].key] /= NoSession
          BY <4>2, <4>3 DEF IInv, RowsExist
        <5> QED BY <3>1, <5>1
      <4> QED BY <4>1, <4>2, <4>4 DEF RowsExist
    <3>8. Tombstones'
      <4>1. erased' \subseteq journal'.keys /\ erased' \subseteq purged'
        BY <3>1 DEF IInv, Tombstones, ReviewStands
      <4>2. \A k \in Keys : Excluded(purged', k) => durable'[k] = NoSession
        <5> SUFFICES ASSUME NEW k \in Keys, Excluded(purged', k), k \notin Reviewed
                     PROVE  durable[k] = NoSession
          BY <3>1
        <5>1. Excluded(purged, k) \/ Excluded(Reviewed, k)
          BY <3>1 DEF Excluded
        <5> QED BY <3>1, <5>1, ReviewedWholeGroups DEF IInv, Tombstones
      <4>3. \A k \in journal'.keys : durable'[k] = NoSession => k \in purged'
        BY <1>ty, <3>1 DEF IInv, Tombstones, Journals
      <4> QED BY <4>1, <4>2, <4>3 DEF Tombstones, Excluded
    <3>9. ReviewStands'
      BY <3>3 DEF ReviewStands
    <3>10. Projection'
      <4>1. Reviewed' = Reviewed
        BY <3>3 DEF Reviewed
      <4>2. scan_read' = NoKey
        BY <1>1, <3>1 DEF IInv, Control, Purging, CommandUnchanged
      <4>3. \A k \in sessions : ~Excluded(erased, k)
        BY <3>1 DEF IInv, Projection
      <4>4. \A k \in sessions' : Excluded(erased', k) => Excluded(Reviewed', k)
        BY <3>1, <4>1, <4>3 DEF Excluded
      <4> QED BY <3>3, <4>2, <4>4 DEF Projection, Excluded
    <3> QED BY <2>r, <3>5, <3>6, <3>7, <3>8, <3>9, <3>10 DEF IInv
  <2> QED BY <1>3, <2>1, <2>2, <2>3, <2>4, <2>5, <2>6
<1> QED BY <1>2, <1>3 DEF CommandStep

\* Opening keeps the ledger, or starts an empty one with the journal's
\* tombstones.
LEMMA OpenedKept ==
    ASSUME IInv, Opened, UNCHANGED <<journal, erased, saves, saving>>
    PROVE  /\ location' \in [Paths -> Locations] /\ durable' \in [Keys -> Rows]
           /\ purged' \in SUBSET Keys /\ policy' \in Policies
           /\ coverage' \in BOOLEAN /\ recovered' \in BOOLEAN /\ loss' \in Losses
           /\ database' = "ok"
           /\ RowsExist' /\ Tombstones' /\ RevisionsBounded'
           /\ \A k \in Keys : Excluded(erased, k) => Excluded(purged', k)
<1>ty. /\ location \in [Paths -> Locations] /\ durable \in [Keys -> Rows]
       /\ purged \in SUBSET Keys /\ policy \in Policies /\ loss \in Losses
       /\ journal.keys \in SUBSET Keys /\ saves \in 0..MaxSaves
  BY DEF IInv, TypeOK, Journals
<1>b. coverage' \in BOOLEAN /\ recovered' \in BOOLEAN /\ database' = "ok"
  BY DEF Opened
<1>1. CASE database = "moved"
  <2>1. /\ location' = [p \in Paths |-> NoLocation]
        /\ durable' = [k \in Keys |-> NoSession]
        /\ policy' = KeepAll /\ loss' = NoLoss
    BY <1>1 DEF Opened
  <2>2. purged' = journal.keys
    <3>1. purged' = {} \union {k \in journal.keys : [j \in Keys |-> NoSession][k] = NoSession}
      BY <1>1 DEF Opened
    <3> QED BY <1>ty, <3>1
  <2>3. /\ location' \in [Paths -> Locations] /\ durable' \in [Keys -> Rows]
        /\ purged' \in SUBSET Keys /\ policy' \in Policies /\ loss' \in Losses
    BY <1>ty, <2>1, <2>2, IdleValues
  <2>4. RowsExist'
    BY <2>1 DEF RowsExist, NoLocation
  <2>5. Tombstones' /\ \A k \in Keys : Excluded(erased, k) => Excluded(purged', k)
    BY <1>ty, <2>1, <2>2 DEF IInv, Tombstones, Excluded
  <2>6. RevisionsBounded'
    BY <1>ty, <2>1, SavesAssumption DEF IInv, RevisionsBounded, KeepAll
  <2> QED BY <1>b, <2>3, <2>4, <2>5, <2>6
<1>2. CASE database /= "moved"
  <2>1. UNCHANGED <<location, durable, policy, loss>>
    BY <1>2 DEF Opened
  <2>2. purged' = purged
    <3>1. purged' = purged \union {k \in journal.keys : durable[k] = NoSession}
      BY <1>2 DEF Opened
    <3> QED BY <3>1 DEF IInv, Tombstones
  <2>3. RowsExist' /\ Tombstones' /\ \A k \in Keys : Excluded(erased, k) => Excluded(purged', k)
    BY <2>1, <2>2, LedgerKept DEF IInv, Tombstones, Excluded
  <2>4. RevisionsBounded'
    BY <2>1 DEF IInv, RevisionsBounded
  <2> QED BY <1>b, <1>ty, <2>1, <2>2, <2>3, <2>4
<1> QED BY <1>1, <1>2

\* A restart keeps the database, the journal and the marker; whatever is then
\* read into memory has no tombstone.
LEMMA ProcessStepKept == ASSUME IInv, ProcessStep PROVE IInv'
<1> USE DEF fileVars, sqlVars, threadVars, commandVars
<1>1. ProcessUnchanged
  BY DEF ProcessStep, Crash, CorruptDatabase, Start, OpenHistory, OpenFails, ReopenHistory,
         AttachReopenedHistory, RecoverRefused, RecoverMark, RecoverWriteMark,
         RecoverMarkFails, RecoverMove, RecoverMoveFails, OpenUnchanged, RecoverUnchanged
<1>2. CASE Crash
  <2>1. /\ readiness' = "down" /\ recovery' = "idle" /\ sessions' = {} /\ IdleThreads
        /\ journal' = journal \/ journal' = [journal EXCEPT !.torn = TRUE]
        /\ UNCHANGED <<database, sqlVars, marker, replaced>>
        /\ crashes < MaxCrashes /\ crashes' = crashes + 1
    BY <1>2 DEF Crash
  <2>2. journal' \in Journals /\ journal'.keys = journal.keys
    BY <2>1 DEF IInv, TypeOK, Journals
  <2>3. crashes' \in 0..MaxCrashes
    BY <2>1, CrashesAssumption DEF IInv, TypeOK
  <2>4. TypeOK'
    BY <1>1, <2>1, <2>2, <2>3, IdleValues DEF IInv, TypeOK, IdleThreads, ProcessUnchanged
  <2>5. Control' /\ ReviewStands'
    BY <2>1, PurgeEnds, IdleValues DEF Control, IdleThreads
  <2>6. RowsExist' /\ Tombstones'
    BY <1>1, <2>1, <2>2, LedgerKept DEF ProcessUnchanged
  <2>7. Projection'
    BY <2>1 DEF Projection, IdleThreads
  <2>8. RevisionsBounded'
    BY <1>1, <2>1 DEF IInv, RevisionsBounded, IdleThreads, ProcessUnchanged
  <2> QED BY <2>4, <2>5, <2>6, <2>7, <2>8 DEF IInv
<1>3. ASSUME UNCHANGED <<sqlVars, journal, sessions, threadVars, commandVars, crashes>>,
             database' \in {"ok", "corrupt", "moved"}, marker' \in {"none", "torn", "written"},
             readiness' \in {"down", "pending", "unavailable"},
             recovery' \in {"idle", "reopening", "reserved", "marking", "marked"},
             recovery' /= "idle" => readiness' = "pending",
             recovery' = "marked" => marker' = "written",
             replaced' \in BOOLEAN, readiness /= "ready"
      PROVE  IInv'
  <2>1. TypeOK'
    BY <1>1, <1>3 DEF IInv, TypeOK, ProcessUnchanged
  <2>2. Control'
    BY <1>3 DEF IInv, Control, Purging
  <2>3. RowsExist' /\ Tombstones' /\ ReviewStands'
    BY <1>1, <1>3, LedgerKept DEF ProcessUnchanged
  <2>4. Projection'
    BY <1>1, <1>3, ProjectionKept DEF ProcessUnchanged
  <2>5. RevisionsBounded'
    BY <1>1, <1>3 DEF IInv, RevisionsBounded, ProcessUnchanged
  <2> QED BY <2>1, <2>2, <2>3, <2>4, <2>5 DEF IInv
<1>ty. /\ database \in {"ok", "corrupt", "moved"} /\ marker \in {"none", "torn", "written"}
       /\ readiness \in {"down", "pending", "ready", "unavailable"} /\ replaced \in BOOLEAN
       /\ recovery \in {"idle", "reopening", "reserved", "marking", "marked"}
       /\ recovery /= "idle" => readiness = "pending"
       /\ recovery = "marked" => marker = "written"
  BY DEF IInv, TypeOK, Control
<1>4. CASE \/ CorruptDatabase \/ Start \/ OpenFails
           \/ \E preserve \in BOOLEAN : ReopenHistory(preserve)
  BY <1>3, <1>4, <1>ty DEF CorruptDatabase, Start, OpenFails, ReopenHistory, OpenUnchanged
<1>5. CASE RecoverRefused \/ RecoverMark \/ RecoverWriteMark \/ RecoverMarkFails
  BY <1>3, <1>5, <1>ty
     DEF RecoverRefused, RecoverMark, RecoverWriteMark, RecoverMarkFails, RecoverUnchanged
<1>6. CASE RecoverMove \/ RecoverMoveFails
  BY <1>3, <1>6, <1>ty DEF RecoverMove, RecoverMoveFails, RecoverUnchanged
<1>7. CASE OpenHistory \/ AttachReopenedHistory
  <2>1. /\ Opened /\ OpenUnchanged /\ readiness = "pending" /\ readiness' = "ready"
        /\ recovery' = "idle" /\ sessions' \subseteq sessions \union Hydrated
    BY <1>7 DEF OpenHistory, AttachReopenedHistory
  <2>2. /\ location' \in [Paths -> Locations] /\ durable' \in [Keys -> Rows]
        /\ purged' \in SUBSET Keys /\ policy' \in Policies
        /\ coverage' \in BOOLEAN /\ recovered' \in BOOLEAN /\ loss' \in Losses
        /\ database' = "ok"
        /\ RowsExist' /\ Tombstones' /\ RevisionsBounded'
        /\ \A k \in Keys : Excluded(erased, k) => Excluded(purged', k)
    BY <1>1, <2>1, OpenedKept DEF OpenUnchanged, ProcessUnchanged
  <2>3. Hydrated \in SUBSET Keys /\ \A k \in Hydrated : ~Excluded(erased, k)
    BY <2>2 DEF Hydrated
  <2>4. TypeOK'
    BY <1>1, <2>1, <2>2, <2>3 DEF IInv, TypeOK, OpenUnchanged, ProcessUnchanged
  <2>5. ~Purging /\ scan = "idle" /\ UNCHANGED <<purge, scan, scan_read>>
    BY <2>1 DEF IInv, Control, TypeOK, OpenUnchanged
  <2>6. Control'
    BY <2>1, <2>2, <2>5 DEF IInv, Control, Purging
  <2>7. ReviewStands'
    BY <2>5 DEF ReviewStands, Purging
  <2>8. Projection'
    BY <1>1, <2>1, <2>3, <2>5, ProjectionKept DEF ProcessUnchanged
  <2> QED BY <2>2, <2>4, <2>6, <2>7, <2>8 DEF IInv
<1> QED BY <1>2, <1>4, <1>5, <1>6, <1>7 DEF ProcessStep

-----------------------------------------------------------------------------
\* The ledger, the journal and the projection agree on what was erased, at every
\* step of the watcher, the scan, the commands, crashes and recovery.
THEOREM InductiveInvariant == Spec => []IInv
<1>1. ASSUME IInv, [Next]_vars PROVE IInv'
  <2>1. CASE UNCHANGED vars
    <3> USE DEF vars, fileVars, sqlVars, commandVars, threadVars, ghostVars
    <3>1. TypeOK' /\ RevisionsBounded' /\ Control'
      BY <1>1, <2>1 DEF IInv, TypeOK, RevisionsBounded, Control, Purging
    <3>2. RowsExist' /\ Tombstones' /\ ReviewStands'
      BY <1>1, <2>1, LedgerKept
    <3>3. Projection'
      BY <1>1, <2>1, ProjectionKept
    <3> QED BY <3>1, <3>2, <3>3 DEF IInv
  <2> QED BY <1>1, <2>1, FileStepKept, WatcherStepKept, ScanStepKept, CommandStepKept,
             ProcessStepKept DEF Next
<1> QED BY <1>1, InitIInv, PTL DEF Spec

\* Every variable of the retention model keeps its type.
THEOREM TypeCorrect == Spec => []TypeOK
<1>1. IInv => TypeOK
  BY DEF IInv
<1> QED BY <1>1, InductiveInvariant, PTL

\* What a purge erased never returns to the ledger or the projection, for any
\* number of sessions, groups, paths, crashes and recoveries.
THEOREM ErasedStaysErasedHolds == Spec => []ErasedStaysErased
<1>1. IInv => ErasedStaysErased
  <2> SUFFICES ASSUME IInv, NEW k \in Keys, Excluded(erased, k)
               PROVE  /\ durable[k] = NoSession
                      /\ ~Purging => k \notin sessions
    BY DEF ErasedStaysErased
  <2>1. durable[k] = NoSession
    BY DEF IInv, Tombstones, Excluded
  <2>2. ~Purging => k \notin sessions
    BY DEF IInv, Projection, Purging
  <2> QED BY <2>1, <2>2
<1> QED BY <1>1, InductiveInvariant, PTL

-----------------------------------------------------------------------------
(* Coverage and accounting claims.                                         *)

\* A database is given up only under a written marker, a purge takes the
\* coverage flag away, and the loss bound of a proof is above all that was lost.
ClaimsInv ==
    /\ replaced => marker = "written"
    /\ database = "moved" => marker = "written"
    /\ recovery = "marking" => ~replaced /\ database /= "moved"
    /\ recovery = "marked" => ~replaced /\ database /= "moved"
    /\ erased /= {} => ~coverage
    /\ erased = {} => lost = 0
    /\ loss.revision > 0 /\ ~recovered /\ ~replaced => lost <= loss.bound

LEMMA InitClaims == Init => ClaimsInv
  BY DEF Init, ClaimsInv, NoLoss

\* A commit keeps the bound above the latest erased day.
LEMMA CommitClaims ==
    ASSUME IInv, ClaimsInv, NEW known \in BOOLEAN, PurgeCommit(known), CommandUnchanged
    PROVE  ClaimsInv'
<1>1. lost \in Nat /\ LastReviewed \in Nat /\ loss.bound \in Nat /\ loss.revision \in Nat
  <2>1. lost \in Days /\ loss.bound \in Days /\ loss.revision \in Nat
    BY DEF IInv, TypeOK, Losses
  <2>2. LastReviewed \in Days
    BY LastReviewedDay DEF IInv
  <2> QED BY <2>1, <2>2, DayAssumption DEF Days
<1>2. UNCHANGED <<replaced, marker, database, recovery, recovered>>
      /\ erased' = erased \union Reviewed /\ lost' = Later(lost, LastReviewed)
  BY DEF CommandUnchanged, PurgeCommit
<1>3. CASE Reviewed = {}
  <2>1. LastReviewed = 0
    <3>1. {0} \union {durable[k].last : k \in Reviewed} = {0}
      BY <1>3
    <3>2. Max({0}) = 0
      BY DEF Max
    <3> QED BY <3>1, <3>2 DEF LastReviewed
  <2>2. UNCHANGED <<coverage, loss, lost, erased>>
    BY <1>1, <1>2, <1>3, <2>1 DEF PurgeCommit, Later
  <2> QED BY <1>2, <2>2 DEF ClaimsInv
<1>4. CASE Reviewed /= {}
  <2>1. ~coverage' /\ loss' = NewLoss(known)
    BY <1>4 DEF PurgeCommit
  <2>2. erased' /= {}
    BY <1>2, <1>4
  <2>3. ASSUME loss'.revision > 0, ~recovered, ~replaced
        PROVE  lost' <= loss'.bound
    <3> DEFINE previous == IF purged = {} THEN NoLoss ELSE loss
    <3>1. known /\ PreviousProof
      BY <2>1, <2>3 DEF NewLoss, NoLoss
    <3>2. loss'.bound = Later(previous.bound, LastReviewed)
      BY <2>1, <3>1 DEF NewLoss
    <3>3. previous.bound \in Nat /\ lost <= previous.bound
      <4>1. CASE purged = {}
        <5>1. lost = 0 /\ previous.bound = 0
          BY <4>1 DEF IInv, Tombstones, ClaimsInv, NoLoss
        <5> QED BY <5>1
      <4>2. CASE purged /= {}
        BY <1>1, <2>3, <3>1, <4>2 DEF PreviousProof, ClaimsInv
      <4> QED BY <4>1, <4>2
    <3> HIDE DEF previous
    <3> QED BY <1>1, <1>2, <3>2, <3>3 DEF Later
  <2> QED BY <1>2, <2>1, <2>2, <2>3 DEF ClaimsInv
<1> QED BY <1>3, <1>4

\* Opening applies the marker before anything is claimed.
LEMMA OpenedClaims ==
    ASSUME IInv, ClaimsInv, Opened, recovery' = "idle",
           UNCHANGED <<marker, replaced, erased, lost>>
    PROVE  ClaimsInv'
<1>1. CASE database = "moved"
  <2>1. marker = "written"
    BY <1>1 DEF ClaimsInv
  <2>2. ~coverage' /\ recovered' /\ database' = "ok"
    BY <2>1 DEF Opened
  <2> QED BY <2>1, <2>2 DEF ClaimsInv
<1>2. CASE database /= "moved"
  <2>1. loss' = loss /\ database' = "ok"
    BY <1>2 DEF Opened
  <2>2. (coverage' => coverage) /\ (recovered => recovered')
    BY <1>2 DEF Opened
  <2> QED BY <2>1, <2>2 DEF ClaimsInv
<1> QED BY <1>1, <1>2

THEOREM ClaimsHold == Spec => []ClaimsInv
<1> USE DEF fileVars, sqlVars, commandVars, threadVars, ghostVars
<1> DEFINE claimVars == <<replaced, marker, database, recovery, recovered, erased, coverage,
                          lost, loss>>
<1>0. ASSUME ClaimsInv, UNCHANGED claimVars PROVE ClaimsInv'
  BY <1>0 DEF ClaimsInv
<1>1. ASSUME IInv, ClaimsInv, Next PROVE ClaimsInv'
  <2>1. CASE FileStep
    BY <1>0, <1>1, <2>1 DEF FileStep, NextDay, DeleteFile, WriteFile, FileUnchanged
  <2>2. CASE WatcherStep
    BY <1>0, <1>1, <2>2 DEF WatcherStep, WatcherPublish, WatcherObserve, WatcherUnpersisted,
       MarkSourceMissing, WatcherUnchanged
  <2>3. CASE ScanStep
    BY <1>0, <1>1, <2>3 DEF ScanStep, ScanBegin, ScanInsertMissing, ScanEnd, ScanMarkMissing,
       ScanUnchanged
  <2>4. ASSUME NEW known \in BOOLEAN, PurgeCommit(known) PROVE ClaimsInv'
    BY <1>1, <2>4, CommitClaims DEF PurgeCommit
  <2>5. CASE CommandStep /\ ~\E known \in BOOLEAN : PurgeCommit(known)
    BY <1>0, <1>1, <2>5 DEF CommandStep, SetRetentionPolicy, SavePolicy, PreviewPurge,
       StorePreview, ConfirmPurge, PurgeCheck, PurgeJournal, PurgeFails, PurgeRemove,
       LedgerUnchanged, CommandUnchanged
  <2>6. CASE OpenHistory \/ AttachReopenedHistory
    BY <1>1, <2>6, OpenedClaims
       DEF OpenHistory, AttachReopenedHistory, OpenUnchanged, ProcessUnchanged
  <2>7. CASE Crash \/ CorruptDatabase \/ Start \/ OpenFails
             \/ \E preserve \in BOOLEAN : ReopenHistory(preserve)
    BY <1>1, <2>7 DEF Crash, CorruptDatabase, Start, OpenFails, ReopenHistory, OpenUnchanged,
       ProcessUnchanged, ClaimsInv
  <2>8. CASE RecoverRefused \/ RecoverMark \/ RecoverWriteMark \/ RecoverMarkFails
             \/ RecoverMove \/ RecoverMoveFails
    <3>1. UNCHANGED <<recovered, erased, coverage, lost, loss>>
      BY <2>8 DEF RecoverRefused, RecoverMark, RecoverWriteMark, RecoverMarkFails, RecoverMove,
         RecoverMoveFails, RecoverUnchanged, ProcessUnchanged
    <3>2. recovery = "marked" => marker = "written"
      BY <1>1 DEF IInv, Control
    <3>3. CASE RecoverRefused
      BY <1>1, <3>1, <3>3 DEF RecoverRefused, ClaimsInv
    <3>4. CASE RecoverMark
      BY <1>1, <3>1, <3>4 DEF RecoverMark, ClaimsInv
    <3>5. CASE RecoverWriteMark
      BY <1>1, <3>1, <3>5 DEF RecoverWriteMark, ClaimsInv
    <3>6. CASE RecoverMarkFails
      BY <1>1, <3>1, <3>6 DEF RecoverMarkFails, ClaimsInv
    <3>7. CASE RecoverMove
      BY <1>1, <3>1, <3>2, <3>7 DEF RecoverMove, ClaimsInv
    <3>8. CASE RecoverMoveFails
      BY <1>1, <3>1, <3>2, <3>8 DEF RecoverMoveFails, ClaimsInv
    <3> QED BY <2>8, <3>3, <3>4, <3>5, <3>6, <3>7, <3>8
  <2> QED BY <1>1, <2>1, <2>2, <2>3, <2>4, <2>5, <2>6, <2>7, <2>8
          DEF Next, CommandStep, ProcessStep
<1>2. ASSUME IInv, ClaimsInv, [Next]_vars PROVE ClaimsInv'
  BY <1>0, <1>1, <1>2 DEF vars
<1> QED BY <1>2, InitClaims, InductiveInvariant, PTL DEF Spec

\* Complete coverage is claimed only while nothing was purged or replaced.
THEOREM CoverageIsHonestHolds == Spec => []CoverageIsHonest
<1>1. ClaimsInv => CoverageIsHonest
  BY DEF ClaimsInv, CoverageIsHonest, HasCompleteCoverage
<1> QED BY <1>1, ClaimsHold, PTL

\* A window that accounting_coverage_since claims holds no erased event, after
\* any number of purges, crashes and recoveries.
THEOREM AccountingProofCoversErasedHolds == Spec => []AccountingProofCoversErased
<1>1. IInv /\ ClaimsInv => AccountingProofCoversErased
  <2> SUFFICES ASSUME IInv, ClaimsInv, NEW from \in 1..(MaxDay + 1),
                      AccountingCoverageSince(from)
               PROVE  lost < from /\ ~replaced
    BY DEF AccountingProofCoversErased
  <2>1. ~replaced /\ ~recovered /\ marker = "none"
    BY DEF AccountingCoverageSince, ClaimsInv
  <2>2. from \in Nat /\ from > 0 /\ lost \in Nat /\ loss.bound \in Nat
    <3>1. lost \in Days /\ loss.bound \in Days
      BY DEF IInv, TypeOK, Losses
    <3> QED BY <3>1, DayAssumption DEF Days
  <2>3. CASE coverage /\ purged = {}
    <3>1. erased = {}
      BY <2>3 DEF IInv, Tombstones
    <3> QED BY <2>1, <2>2, <3>1 DEF ClaimsInv
  <2>4. CASE loss.revision > 0 /\ from > loss.bound
    BY <2>1, <2>2, <2>4 DEF ClaimsInv
  <2> QED BY <2>3, <2>4 DEF AccountingCoverageSince
<1> QED BY <1>1, InductiveInvariant, ClaimsHold, PTL

-----------------------------------------------------------------------------
(* A purge deletes what was reviewed.                                      *)

\* As many policies were saved since a preview as its revision is behind.
Counted(preview) == preview.saves + policy.revision = saves + preview.policy_revision

PreviewsCounted ==
    /\ preview_read.some => readiness = "ready" /\ Counted(preview_read)
    /\ pending_purge.some => readiness = "ready" /\ Counted(pending_purge)
    /\ purge.pc /= "idle" => readiness = "ready" /\ Counted(purge.preview)
    /\ Purging => purge.preview.policy_revision = policy.revision

LEMMA PreviewsCountedHolds == Spec => []PreviewsCounted
<1> USE DEF fileVars, sqlVars, commandVars, threadVars, ghostVars
<1> DEFINE reviewVars == <<readiness, policy, saves, preview_read, pending_purge, purge>>
<1>0. ASSUME PreviewsCounted, UNCHANGED reviewVars PROVE PreviewsCounted'
  BY <1>0 DEF PreviewsCounted, Counted, Purging
<1>i. Init => PreviewsCounted
  BY DEF Init, PreviewsCounted, NoPreview, IdlePurge, Purging
<1>n. NoPreview.some = FALSE /\ IdlePurge.pc = "idle"
  BY DEF NoPreview, IdlePurge
<1>1. ASSUME IInv, PreviewsCounted, Next PROVE PreviewsCounted'
  <2>ty. purge \in [pc : PurgePCs, preview : Previews]
    BY <1>1 DEF IInv, TypeOK
  <2>1. CASE FileStep
    BY <1>0, <1>1, <2>1 DEF FileStep, NextDay, DeleteFile, WriteFile, FileUnchanged
  <2>2. CASE WatcherStep
    BY <1>0, <1>1, <2>2 DEF WatcherStep, WatcherPublish, WatcherObserve, WatcherUnpersisted,
       MarkSourceMissing, WatcherUnchanged
  <2>3. CASE ScanStep
    BY <1>0, <1>1, <2>3 DEF ScanStep, ScanBegin, ScanInsertMissing, ScanEnd, ScanMarkMissing,
       ScanUnchanged
  <2>4. CASE \E days \in Durations \union {0} : SetRetentionPolicy(days)
    BY <1>1, <1>n, <2>4 DEF SetRetentionPolicy, CommandUnchanged, PreviewsCounted, Counted,
       Purging
  <2>5. CASE SavePolicy
    <3>1. /\ ~Purging /\ UNCHANGED <<readiness, preview_read, pending_purge, purge>>
          /\ saves' = saves + 1 /\ policy'.revision = policy.revision + 1
      BY <2>5 DEF SavePolicy, CommandUnchanged
    <3>2. policy.revision \in Nat /\ saves \in Nat
      BY <1>1, SavesAssumption DEF IInv, TypeOK, Policies
    <3>3. \A v \in Previews : v.saves \in Nat /\ v.policy_revision \in Nat
      BY SavesAssumption DEF Previews
    <3>4. preview_read \in Previews /\ pending_purge \in Previews /\ purge.preview \in Previews
      BY <1>1, <2>ty DEF IInv, TypeOK
    <3>5. /\ Counted(preview_read) => Counted(preview_read)'
          /\ Counted(pending_purge) => Counted(pending_purge)'
          /\ Counted(purge.preview) => Counted(purge.preview)'
      BY <3>1, <3>2, <3>3, <3>4 DEF Counted
    <3> QED BY <1>1, <3>1, <3>5 DEF PreviewsCounted, Purging
  <2>6. CASE PreviewPurge
    <3>1. /\ readiness = "ready" /\ preview_read'.saves = saves
          /\ preview_read'.policy_revision = policy.revision
          /\ UNCHANGED <<readiness, policy, saves, pending_purge, purge>>
      BY <2>6 DEF PreviewPurge, CommandUnchanged
    <3>2. policy.revision \in Nat /\ saves \in Nat
      BY <1>1, SavesAssumption DEF IInv, TypeOK, Policies
    <3> QED BY <1>1, <3>1, <3>2 DEF PreviewsCounted, Counted, Purging
  <2>7. CASE StorePreview
    BY <1>1, <1>n, <2>7 DEF StorePreview, CommandUnchanged, PreviewsCounted, Counted, Purging
  <2>8. ASSUME NEW matches \in BOOLEAN, ConfirmPurge(matches) PROVE PreviewsCounted'
    BY <1>1, <1>n, <2>8 DEF ConfirmPurge, CommandUnchanged, PreviewsCounted, Counted, Purging
  <2>9. CASE PurgeCheck
    <3>1. /\ UNCHANGED <<readiness, policy, saves, preview_read, pending_purge>>
          /\ purge.pc = "taken"
          /\ \/ purge' = IdlePurge
             \/ /\ purge' = [purge EXCEPT !.pc = "checked"]
                /\ policy.revision = purge.preview.policy_revision
      BY <2>9 DEF PurgeCheck, CommandUnchanged
    <3>2. [purge EXCEPT !.pc = "checked"].preview = purge.preview
      BY <2>ty
    <3> QED BY <1>1, <1>n, <3>1, <3>2 DEF PreviewsCounted, Counted, Purging
  <2>10. CASE PurgeJournal \/ PurgeFails \/ PurgeRemove
              \/ \E known \in BOOLEAN : PurgeCommit(known)
    <3>1. /\ UNCHANGED <<readiness, policy, saves, preview_read, pending_purge>>
          /\ Purging
          /\ \/ purge' = IdlePurge
             \/ \E pc \in PurgePCs : purge' = [purge EXCEPT !.pc = pc]
      BY <2>10 DEF PurgeJournal, PurgeFails, PurgeRemove, PurgeCommit, CommandUnchanged,
         PurgeUnchanged, Purging, PurgePCs
    <3>2. \A pc \in PurgePCs : [purge EXCEPT !.pc = pc].preview = purge.preview
      BY <2>ty
    <3> QED BY <1>1, <1>n, <3>1, <3>2 DEF PreviewsCounted, Counted, Purging
  <2>11. CASE Crash
    BY <1>n, <2>11 DEF Crash, IdleThreads, PreviewsCounted, Purging
  <2>12. CASE ProcessStep /\ ~Crash
    <3>1. UNCHANGED commandVars /\ readiness /= "ready"
      BY <1>1, <2>12 DEF ProcessStep, CorruptDatabase, Start, OpenHistory, OpenFails,
         ReopenHistory, AttachReopenedHistory, RecoverRefused, RecoverMark, RecoverWriteMark,
         RecoverMarkFails, RecoverMove, RecoverMoveFails, OpenUnchanged, RecoverUnchanged,
         IInv, Control
    <3> QED BY <1>1, <3>1 DEF PreviewsCounted, Purging
  <2> QED BY <1>1, <2>1, <2>2, <2>3, <2>4, <2>5, <2>6, <2>7, <2>8, <2>9, <2>10, <2>11, <2>12
          DEF Next, CommandStep
<1>2. ASSUME IInv, PreviewsCounted, [Next]_vars PROVE PreviewsCounted'
  BY <1>0, <1>1, <1>2 DEF vars
<1> QED BY <1>2, <1>i, InductiveInvariant, PTL DEF Spec

\* A purge deletes what was reviewed, unchanged and under the reviewed policy,
\* however often the policy and the ledger change in between.
THEOREM PurgeIsAsReviewedHolds == Spec => PurgeIsAsReviewed
<1> USE DEF fileVars, sqlVars, commandVars, threadVars, ghostVars
<1>1. ASSUME IInv, PreviewsCounted, Next, purge.pc = "journalled", purge'.pc = "committed"
      PROVE  /\ saves = purge.preview.saves
             /\ \A k \in Keys : durable'[k] /= durable[k] => durable[k] = purge.preview.rows[k]
  <2>1. saves = purge.preview.saves
    <3>1. Counted(purge.preview) /\ purge.preview.policy_revision = policy.revision
      BY <1>1 DEF PreviewsCounted, Purging
    <3>2. policy.revision \in Nat /\ saves \in Nat /\ purge.preview.saves \in Nat
      BY <1>1, SavesAssumption DEF IInv, TypeOK, Policies, Previews
    <3> QED BY <3>1, <3>2 DEF Counted
  <2>2. purge' /= purge
    BY <1>1
  <2>3. \E known \in BOOLEAN : PurgeCommit(known)
    <3>1. ~FileStep
      BY <2>2 DEF FileStep, NextDay, DeleteFile, WriteFile, FileUnchanged
    <3>2. ~WatcherStep
      BY <2>2 DEF WatcherStep, WatcherPublish, WatcherObserve, WatcherUnpersisted,
         MarkSourceMissing, WatcherUnchanged
    <3>3. ~ScanStep
      BY <2>2 DEF ScanStep, ScanBegin, ScanInsertMissing, ScanEnd, ScanMarkMissing, ScanUnchanged
    <3>4. ~ProcessStep
      BY <1>1, <2>2, IdleValues
         DEF ProcessStep, Crash, IdleThreads, CorruptDatabase, Start, OpenHistory, OpenFails,
             ReopenHistory, AttachReopenedHistory, RecoverRefused, RecoverMark,
             RecoverWriteMark, RecoverMarkFails, RecoverMove, RecoverMoveFails, OpenUnchanged,
             RecoverUnchanged
    <3>5. CommandStep
      BY <1>1, <3>1, <3>2, <3>3, <3>4 DEF Next
    <3> QED BY <1>1, <2>2, <3>5, IdleValues
            DEF CommandStep, SetRetentionPolicy, SavePolicy, PreviewPurge, StorePreview,
                ConfirmPurge, PurgeCheck, PurgeJournal, PurgeFails, PurgeRemove
  <2>4. \A k \in Keys : durable'[k] = IF k \in Reviewed THEN NoSession ELSE durable[k]
    BY <2>3 DEF PurgeCommit
  <2>5. \A k \in Reviewed : purge.preview.rows[k] = durable[k]
    BY <1>1 DEF IInv, ReviewStands, Reviewed, CandidateRows
  <2> QED BY <2>1, <2>4, <2>5
<1> QED BY <1>1, InductiveInvariant, PreviewsCountedHolds, PTL DEF Spec, PurgeIsAsReviewed


-----------------------------------------------------------------------------
(* The journal of exclusions.                                              *)

\* The exclusion journal can be parsed at every open: a purge that failed half
\* way, or a crash inside one, leaves at most an incomplete last line, and the
\* next purge cuts it off before it adds its own record.
THEOREM JournalStaysReadableHolds == Spec => []JournalStaysReadable
<1> USE DEF fileVars, sqlVars, commandVars, threadVars, ghostVars
<1>1. Init => JournalStaysReadable
  BY DEF Init, JournalStaysReadable
<1>2. IInv /\ JournalStaysReadable /\ [Next]_vars => JournalStaysReadable'
  <2> SUFFICES ASSUME IInv, JournalStaysReadable, [Next]_vars PROVE JournalStaysReadable'
    OBVIOUS
  <2>j. journal \in Journals
    BY DEF IInv, TypeOK
  <2>t. [journal EXCEPT !.torn = TRUE].malformed = journal.malformed
    BY <2>j DEF Journals
  <2>r. \A K : [journal EXCEPT !.keys = @ \union K, !.torn = FALSE].malformed = journal.malformed
    BY <2>j DEF Journals
  <2>s. SUFFICES ASSUME journal' /= journal PROVE JournalStaysReadable'
    BY DEF JournalStaysReadable
  <2>1. CASE PurgeJournal
    BY <2>1, <2>r DEF PurgeJournal, JournalStaysReadable
  <2>2. CASE PurgeFails
    BY <2>2, <2>t DEF PurgeFails, JournalStaysReadable
  <2>3. CASE Crash
    BY <2>3, <2>t DEF Crash, JournalStaysReadable
  <2>4. PurgeJournal \/ PurgeFails \/ Crash
    <3>1. ~FileStep
      BY <2>s DEF FileStep, NextDay, DeleteFile, WriteFile, FileUnchanged
    <3>2. ~WatcherStep
      BY <2>s DEF WatcherStep, WatcherPublish, WatcherObserve, WatcherUnpersisted,
         MarkSourceMissing, WatcherUnchanged
    <3>3. ~ScanStep
      BY <2>s DEF ScanStep, ScanBegin, ScanInsertMissing, ScanEnd, ScanMarkMissing, ScanUnchanged
    <3>4. CommandStep => PurgeJournal \/ PurgeFails
      BY <2>s DEF CommandStep, SetRetentionPolicy, SavePolicy, PreviewPurge, StorePreview,
         ConfirmPurge, PurgeCheck, PurgeCommit, PurgeRemove, CommandUnchanged, LedgerUnchanged,
         PurgeUnchanged
    <3>5. ProcessStep => Crash
      BY <2>s DEF ProcessStep, CorruptDatabase, Start, OpenHistory, OpenFails, ReopenHistory,
         AttachReopenedHistory, RecoverRefused, RecoverMark, RecoverWriteMark,
         RecoverMarkFails, RecoverMove, RecoverMoveFails, OpenUnchanged, RecoverUnchanged
    <3> QED BY <2>s, <3>1, <3>2, <3>3, <3>4, <3>5 DEF Next, vars
  <2> QED BY <2>1, <2>2, <2>3, <2>4
<1> QED BY <1>1, <1>2, InductiveInvariant, PTL DEF Spec

=============================================================================
