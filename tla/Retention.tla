----------------------------- MODULE Retention -----------------------------
(***************************************************************************)
(* Retention, purge and recovery of the durable history                    *)
(* (history_lifecycle.rs, history_recovery.rs and their callers in         *)
(* store.rs and commands.rs).                                              *)
(*                                                                         *)
(* A purge erases retained sessions for good: their tombstones go to a     *)
(* journal beside the database before the deletion commits, so that they   *)
(* outlive the database.  Time is counted in days.  A key stands for one   *)
(* session's content; keys with one provider identity and first-event      *)
(* fingerprint form a group.  The bulk scan appears only as the holder of  *)
(* durable_writers and by the one insertion it makes without a check.      *)
(***************************************************************************)
EXTENDS Naturals, FiniteSets, FiniteSetsExt

CONSTANTS
    Keys, GroupOf,  \* sessions, and the identity and fingerprint of each
    Paths,          \* source paths
    NoKey,          \* no session
    MaxDay,         \* bound on the clock
    MaxChanges,     \* bound on changes of the files
    Durations,      \* retained_days a user may choose
    MaxSaves,       \* bound on saved policies
    MaxCrashes,     \* bound on crashes of the process
    Scanning,       \* whether bulk scans run
    ArchiveMayFail  \* whether opening or writing the archive may fail

ASSUME KeysAssumption == IsFiniteSet(Keys) /\ NoKey \notin Keys
ASSUME DayAssumption == MaxDay \in Nat \ {0}
ASSUME ChangesAssumption == MaxChanges \in Nat
ASSUME DurationsAssumption == Durations \subseteq Nat \ {0}
ASSUME SavesAssumption == MaxSaves \in Nat
ASSUME CrashesAssumption == MaxCrashes \in Nat
ASSUME SwitchesAssumption == Scanning \in BOOLEAN /\ ArchiveMayFail \in BOOLEAN

VARIABLES
    today, disk, changes,        \* the clock and the transcript files
    database,                    \* "ok", "corrupt" or "moved" away
    location, durable, purged,   \* source_locations, durable_sessions, purged_sessions
    policy, coverage, recovered, loss,   \* history_meta
    journal, marker,             \* the files .exclusions.jsonl and .recovery.json
    readiness,                   \* HistoryReadiness, or "down" without a process
    recovery,                    \* reopen_history's step
    sessions,                    \* the resident projection
    watcher, scan, scan_read,    \* a session on its way into the projection
    saving, preview_read, pending_purge, purge,   \* the retention commands
    crashes,
    erased, lost, refused, replaced, saves   \* history variables of the properties

fileVars == <<today, disk, changes>>
sqlVars == <<location, durable, purged, policy, coverage, recovered, loss>>
commandVars == <<saving, preview_read, pending_purge, purge>>
threadVars == <<watcher, scan, scan_read>>
ghostVars == <<erased, lost, refused, replaced, saves>>
vars == <<fileVars, database, sqlVars, journal, marker, readiness, recovery, sessions,
          threadVars, commandVars, crashes, ghostVars>>

-----------------------------------------------------------------------------
Days == 0..MaxDay
NoFile == [key |-> NoKey, last |-> 0]
Files == [key : Keys \union {NoKey}, last : Days]
NoLocation == [key |-> NoKey, present |-> FALSE]
Locations == [key : Keys \union {NoKey}, present : BOOLEAN]
Lifecycles == {"none", "present", "retained", "superseded"}
NoSession == [lifecycle |-> "none", last |-> 0]
Rows == [lifecycle : Lifecycles, last : Days]
KeepAll == [days |-> 0, revision |-> 0]
Policies == [days : Durations \union {0}, revision : 0..MaxSaves]

\* The three accounting_loss values; revision 0 when they are absent.
NoLoss == [bound |-> 0, count |-> 0, revision |-> 0]
Losses == [bound : Days, count : Nat, revision : Nat]

\* Complete journal records as the keys they name, an incomplete last line, and
\* a complete line that cannot be read.
Journals == [keys : SUBSET Keys, torn : BOOLEAN, malformed : BOOLEAN]

\* A preview: the candidates with their content (the others as NoSession), and
\* how many policies had been saved by then.
NoPreview == [cutoff |-> 0, policy_revision |-> 0, rows |-> [k \in Keys |-> NoSession],
              saves |-> 0, some |-> FALSE]
Previews == [cutoff : Days, policy_revision : 0..MaxSaves, rows : [Keys -> Rows],
             saves : 0..MaxSaves, some : BOOLEAN]
PurgePCs == {"idle", "taken", "checked", "journalled", "committed"}
IdlePurge == [pc |-> "idle", preview |-> NoPreview]

TypeOK ==
    /\ today \in 1..MaxDay
    /\ disk \in [Paths -> Files]
    /\ changes \in 0..MaxChanges
    /\ database \in {"ok", "corrupt", "moved"}
    /\ location \in [Paths -> Locations]
    /\ durable \in [Keys -> Rows]
    /\ purged \in SUBSET Keys
    /\ policy \in Policies
    /\ coverage \in BOOLEAN
    /\ recovered \in BOOLEAN
    /\ loss \in Losses
    /\ journal \in Journals
    /\ marker \in {"none", "torn", "written"}
    /\ readiness \in {"down", "pending", "ready", "unavailable"}
    /\ recovery \in {"idle", "reopening", "reserved", "marking", "marked"}
    /\ sessions \in SUBSET Keys
    /\ watcher \in Keys \union {NoKey}
    /\ scan \in {"idle", "running"}
    /\ scan_read \in Keys \union {NoKey}
    /\ saving \in SUBSET (Durations \union {0})
    /\ preview_read \in Previews
    /\ pending_purge \in Previews
    /\ purge \in [pc : PurgePCs, preview : Previews]
    /\ crashes \in 0..MaxCrashes
    /\ erased \in SUBSET Keys
    /\ lost \in Days
    /\ refused \in Days
    /\ replaced \in BOOLEAN
    /\ saves \in 0..MaxSaves

\* A first start: no file has been seen, the ledger is empty.
Init ==
    /\ today = 1
    /\ disk = [p \in Paths |-> NoFile]
    /\ changes = 0
    /\ database = "ok"
    /\ location = [p \in Paths |-> NoLocation]
    /\ durable = [k \in Keys |-> NoSession]
    /\ purged = {}
    /\ policy = KeepAll
    /\ coverage = TRUE
    /\ recovered = FALSE
    /\ loss = NoLoss
    /\ journal = [keys |-> {}, torn |-> FALSE, malformed |-> FALSE]
    /\ marker = "none"
    /\ readiness = "pending"
    /\ recovery = "idle"
    /\ sessions = {}
    /\ watcher = NoKey
    /\ scan = "idle"
    /\ scan_read = NoKey
    /\ saving = {}
    /\ preview_read = NoPreview
    /\ pending_purge = NoPreview
    /\ purge = IdlePurge
    /\ crashes = 0
    /\ erased = {}
    /\ lost = 0
    /\ refused = 0
    /\ replaced = FALSE
    /\ saves = 0

-----------------------------------------------------------------------------
(* Shared definitions.                                                     *)

Later(a, b) == IF a > b THEN a ELSE b

\* is_excluded: by identity and fingerprint, so for the whole group.
Excluded(tombstones, k) == \E t \in tombstones : GroupOf[t] = GroupOf[k]

\* history_publication is held by the watcher's callback, one step here, and by
\* a purge from its first check to the end of the removals.
Purging == purge.pc \in {"checked", "journalled", "committed"}

\* durable_writers.rebuild: a purge and reopen_history reserve it.
Reserved == Purging \/ recovery /= "idle"

\* The exclusion cache reads the journal, which always answers once it is
\* readable; the SQL tombstones decide while the archive is ready.
MayPublishHistory(k) ==
    /\ ~journal.malformed
    /\ IF readiness = "ready" THEN ~Excluded(purged, k) ELSE ~Excluded(journal.keys, k)

HasCompleteCoverage == readiness = "ready" /\ ~journal.malformed /\ marker = "none" /\ coverage

AccountingCoverageSince(from) ==
    /\ readiness = "ready" /\ ~journal.malformed /\ marker = "none" /\ ~recovered
    /\ \/ coverage /\ purged = {}
       \/ /\ ~coverage /\ purged /= {}
          /\ loss.revision > 0 /\ loss.count = Cardinality(purged)
          /\ from > loss.bound

\* refresh_missing.
RefreshMissing(rows, places) ==
    [k \in Keys |->
        IF rows[k].lifecycle = "present"
             /\ ~\E p \in Paths : places[p] = [key |-> k, present |-> TRUE]
        THEN [rows[k] EXCEPT !.lifecycle = "retained"] ELSE rows[k]]

-----------------------------------------------------------------------------
(* The clock and the files.                                                *)

FileUnchanged ==
    UNCHANGED <<database, sqlVars, journal, marker, readiness, recovery, sessions, threadVars,
                commandVars, crashes, ghostVars>>

NextDay ==
    /\ today < MaxDay
    /\ today' = today + 1
    /\ UNCHANGED <<disk, changes>>
    /\ FileUnchanged

\* A session is started or resumed at p, on top of what was there.
WriteFile(p, k) ==
    /\ changes < MaxChanges
    /\ changes' = changes + 1
    /\ disk' = [disk EXCEPT ![p] = [key |-> k, last |-> today]]
    /\ UNCHANGED today
    /\ FileUnchanged

DeleteFile(p) ==
    /\ disk[p] /= NoFile
    /\ changes < MaxChanges
    /\ changes' = changes + 1
    /\ disk' = [disk EXCEPT ![p] = NoFile]
    /\ UNCHANGED today
    /\ FileUnchanged

-----------------------------------------------------------------------------
(* The watcher, under history_publication, and its later publication.      *)

WatcherUnchanged ==
    UNCHANGED <<fileVars, database, purged, policy, coverage, recovered, loss, journal, marker,
                readiness, recovery, scan, scan_read, commandVars, crashes, erased, lost,
                replaced, saves>>

\* observe_one_in_transaction: a tombstone refuses the source; otherwise the
\* path is the session's, and a session that lost its last path is superseded.
WatcherObserve(p) ==
    LET k == disk[p].key
        displaced == location[p].key
        places == [location EXCEPT ![p] = [key |-> k, present |-> TRUE]]
        Superseded(j) == /\ j = displaced /\ j /= k
                         /\ ~\E q \in Paths : places[q] = [key |-> j, present |-> TRUE]
    IN  /\ readiness = "ready" /\ k /= NoKey /\ ~Purging /\ watcher = NoKey
        /\ IF Excluded(purged, k)
           THEN /\ refused' = Later(refused, disk[p].last)
                /\ UNCHANGED <<location, durable, watcher>>
           ELSE /\ location' = places
                /\ durable' = [j \in Keys |->
                       CASE j = k -> [lifecycle |-> "present",
                                      last |-> Later(durable[k].last, disk[p].last)]
                         [] Superseded(j) -> [durable[j] EXCEPT !.lifecycle = "superseded"]
                         [] OTHER -> durable[j]]
                /\ watcher' = k
                /\ UNCHANGED refused
        /\ UNCHANGED sessions
        /\ WatcherUnchanged

\* Without the archive, or when it cannot be written, the live parse goes on.
WatcherUnpersisted(p) ==
    /\ readiness /= "down" /\ disk[p].key /= NoKey /\ ~Purging /\ watcher = NoKey
    /\ readiness = "ready" => ArchiveMayFail /\ ~Excluded(purged, disk[p].key)
    /\ watcher' = disk[p].key
    /\ UNCHANGED <<location, durable, sessions, refused>>
    /\ WatcherUnchanged

\* publish_watched_session takes history_publication again.
\* Mutant: it trusts the check made before the lock was released.
WatcherPublishUnchecked ==
    /\ watcher /= NoKey /\ ~Purging
    /\ sessions' = sessions \union {watcher}
    /\ watcher' = NoKey
    /\ UNCHANGED <<location, durable, refused>>
    /\ WatcherUnchanged

WatcherPublish ==
    /\ watcher /= NoKey /\ ~Purging
    /\ sessions' = IF MayPublishHistory(watcher) THEN sessions \union {watcher} ELSE sessions
    /\ watcher' = NoKey
    /\ UNCHANGED <<location, durable, refused>>
    /\ WatcherUnchanged

\* Mutant: a path the archive never saw is taken for a missing source.
MarkSourceMissingUnknown(p) ==
    /\ readiness = "ready" /\ ~Purging /\ watcher = NoKey
    /\ disk[p] = NoFile
    /\ location' = [location EXCEPT ![p].present = FALSE]
    /\ durable' = RefreshMissing(durable, location')
    /\ sessions' = sessions \union {location[p].key}
    /\ UNCHANGED <<watcher, refused>>
    /\ WatcherUnchanged

\* mark_source_missing: the archive and the projection under one lock.
MarkSourceMissing(p) ==
    LET places == [location EXCEPT ![p].present = FALSE]
    IN  /\ readiness = "ready" /\ ~Purging /\ watcher = NoKey
        /\ disk[p] = NoFile /\ location[p].present
        /\ location' = places
        /\ durable' = RefreshMissing(durable, places)
        /\ sessions' = sessions \union {location[p].key}
        /\ UNCHANGED <<watcher, refused>>
        /\ WatcherUnchanged

-----------------------------------------------------------------------------
(* The bulk scan's correction of a raced removal: outside                  *)
(* history_publication and without may_publish_history.                    *)

ScanUnchanged ==
    UNCHANGED <<fileVars, database, purged, policy, coverage, recovered, loss, journal, marker,
                readiness, recovery, watcher, commandVars, crashes, ghostVars>>

\* begin_scan_after_any_rebuild.
ScanBegin ==
    /\ Scanning /\ readiness = "ready" /\ scan = "idle" /\ ~Reserved
    /\ scan' = "running"
    /\ UNCHANGED <<scan_read, location, durable, sessions>>
    /\ ScanUnchanged

ScanMarkMissing(p) ==
    LET places == [location EXCEPT ![p].present = FALSE]
    IN  /\ scan = "running" /\ scan_read = NoKey
        /\ disk[p] = NoFile /\ location[p].key /= NoKey
        /\ location' = places
        /\ durable' = RefreshMissing(durable, places)
        /\ scan_read' = location[p].key
        /\ UNCHANGED <<scan, sessions>>
        /\ ScanUnchanged

ScanInsertMissing ==
    /\ scan_read /= NoKey
    /\ sessions' = sessions \union {scan_read}
    /\ scan_read' = NoKey
    /\ UNCHANGED <<scan, location, durable>>
    /\ ScanUnchanged

ScanEnd ==
    /\ scan = "running" /\ scan_read = NoKey
    /\ scan' = "idle"
    /\ UNCHANGED <<scan_read, location, durable, sessions>>
    /\ ScanUnchanged

-----------------------------------------------------------------------------
(* The retention commands.  Each answers on a blocking thread of its own.  *)

CommandUnchanged ==
    UNCHANGED <<fileVars, database, recovered, marker, readiness, recovery, threadVars,
                crashes, refused, replaced>>
LedgerUnchanged ==
    UNCHANGED <<location, durable, purged, coverage, loss, journal, sessions, erased, lost>>

\* set_retention_policy drops the pending preview, then saves.
SetRetentionPolicy(days) ==
    /\ readiness = "ready" /\ saving = {} /\ saves < MaxSaves
    /\ pending_purge' = NoPreview
    /\ saving' = {days}
    /\ UNCHANGED <<policy, preview_read, purge, saves>>
    /\ LedgerUnchanged /\ CommandUnchanged

\* The write waits for the connection, which a purge holds.
SavePolicy ==
    /\ saving /= {} /\ ~Purging
    /\ \E days \in saving : policy' = [days |-> days, revision |-> policy.revision + 1]
    /\ saves' = saves + 1
    /\ saving' = {}
    /\ UNCHANGED <<preview_read, pending_purge, purge>>
    /\ LedgerUnchanged /\ CommandUnchanged

\* PURGE_CANDIDATES_SQL: old enough, not present, and the same for its siblings.
PurgeCandidates(cutoff) ==
    {k \in Keys : \A j \in Keys :
        /\ j = k => durable[j].lifecycle \in {"retained", "superseded"}
        /\ GroupOf[j] = GroupOf[k]
           => durable[j].lifecycle /= "present"
              /\ (durable[j].lifecycle /= "none" => durable[j].last < cutoff)}

CandidateRows(cutoff) ==
    [k \in Keys |-> IF k \in PurgeCandidates(cutoff) THEN durable[k] ELSE NoSession]

Cutoff == IF today > policy.days THEN today - policy.days ELSE 0

\* preview_purge reads one snapshot; the command stores it afterwards.
PreviewPurge ==
    /\ readiness = "ready" /\ ~preview_read.some /\ policy.days > 0
    /\ preview_read' = [cutoff |-> Cutoff, policy_revision |-> policy.revision,
                        rows |-> CandidateRows(Cutoff), saves |-> saves, some |-> TRUE]
    /\ UNCHANGED <<policy, saving, pending_purge, purge, saves>>
    /\ LedgerUnchanged /\ CommandUnchanged

StorePreview ==
    /\ preview_read.some
    /\ pending_purge' = preview_read
    /\ preview_read' = NoPreview
    /\ UNCHANGED <<policy, saving, purge, saves>>
    /\ LedgerUnchanged /\ CommandUnchanged

\* purge_retained_history takes the preview; a wrong confirmation spends it.
ConfirmPurge(matches) ==
    /\ pending_purge.some /\ purge.pc = "idle"
    /\ pending_purge' = NoPreview
    /\ purge' = IF matches THEN [pc |-> "taken", preview |-> pending_purge] ELSE purge
    /\ UNCHANGED <<policy, saving, preview_read, saves>>
    /\ LedgerUnchanged /\ CommandUnchanged

Reviewed == {k \in Keys : purge.preview.rows[k] /= NoSession}

\* Mutant: the candidates are not read again before they are deleted.
PurgeCheckStale ==
    /\ purge.pc = "taken" /\ readiness = "ready"
    /\ purge' = IF /\ ~Reserved /\ scan = "idle"
                   /\ policy.days > 0 /\ policy.revision = purge.preview.policy_revision
                   /\ purge.preview.cutoff <= Cutoff
                THEN [purge EXCEPT !.pc = "checked"] ELSE IdlePurge
    /\ UNCHANGED <<policy, saving, preview_read, pending_purge, saves>>
    /\ LedgerUnchanged /\ CommandUnchanged

\* The reservation, the locks and the rechecks of purge_retained; any failure
\* ends the purge.
PurgeCheck ==
    /\ purge.pc = "taken" /\ readiness = "ready"
    /\ purge' = IF /\ ~Reserved /\ scan = "idle"
                   /\ policy.days > 0 /\ policy.revision = purge.preview.policy_revision
                   /\ purge.preview.cutoff <= Cutoff
                   /\ CandidateRows(purge.preview.cutoff) = purge.preview.rows
                THEN [purge EXCEPT !.pc = "checked"] ELSE IdlePurge
    /\ UNCHANGED <<policy, saving, preview_read, pending_purge, saves>>
    /\ LedgerUnchanged /\ CommandUnchanged

PurgeUnchanged ==
    UNCHANGED <<policy, saving, preview_read, pending_purge, saves>>

\* write_exclusions: an incomplete tail is cut off before the record is added.
\* Mutant: the record is appended behind the incomplete tail.
PurgeJournalBehindTail ==
    /\ purge.pc = "checked"
    /\ journal' = IF Reviewed = {} THEN journal
                  ELSE IF journal.torn
                  THEN [journal EXCEPT !.torn = FALSE, !.malformed = TRUE]
                  ELSE [journal EXCEPT !.keys = @ \union Reviewed]
    /\ purge' = [purge EXCEPT !.pc = "journalled"]
    /\ UNCHANGED <<location, durable, purged, coverage, loss, sessions, erased, lost>>
    /\ PurgeUnchanged /\ CommandUnchanged

PurgeJournal ==
    /\ purge.pc = "checked"
    /\ journal' = IF Reviewed = {} THEN journal
                  ELSE [journal EXCEPT !.keys = @ \union Reviewed, !.torn = FALSE]
    /\ purge' = [purge EXCEPT !.pc = "journalled"]
    /\ UNCHANGED <<location, durable, purged, coverage, loss, sessions, erased, lost>>
    /\ PurgeUnchanged /\ CommandUnchanged

\* The write fails half way, or the commit fails; the transaction rolls back.
PurgeFails ==
    /\ ArchiveMayFail /\ purge.pc \in {"checked", "journalled"}
    /\ journal' \in IF purge.pc = "checked" /\ Reviewed /= {}
                    THEN {journal, [journal EXCEPT !.torn = TRUE]} ELSE {journal}
    /\ purge' = IdlePurge
    /\ UNCHANGED <<location, durable, purged, coverage, loss, sessions, erased, lost>>
    /\ PurgeUnchanged /\ CommandUnchanged

\* The loss proof a purge can build on: none lost yet, or a consistent one.
PreviousProof ==
    /\ ~recovered /\ marker = "none"
    /\ \/ purged = {} /\ coverage
       \/ purged /= {} /\ loss.revision > 0 /\ loss.count = Cardinality(purged)

LastReviewed == Max({0} \union {durable[k].last : k \in Reviewed})

\* accounting_loss_bound; known is FALSE when a date cannot be read.
NewLoss(known) ==
    LET previous == IF purged = {} THEN NoLoss ELSE loss
    IN  IF known /\ PreviousProof
        THEN [bound |-> Later(previous.bound, LastReviewed),
              count |-> Cardinality(purged) + Cardinality(Reviewed),
              revision |-> previous.revision + 1]
        ELSE NoLoss

PurgeCommit(known) ==
    /\ purge.pc = "journalled"
    /\ purged' = purged \union Reviewed
    /\ durable' = [k \in Keys |-> IF k \in Reviewed THEN NoSession ELSE durable[k]]
    /\ location' = [p \in Paths |-> IF location[p].key \in Reviewed THEN NoLocation
                                    ELSE location[p]]
    /\ IF Reviewed = {} THEN UNCHANGED <<coverage, loss>>
       ELSE coverage' = FALSE /\ loss' = NewLoss(known)
    /\ purge' = [purge EXCEPT !.pc = "committed"]
    /\ erased' = erased \union Reviewed
    /\ lost' = Later(lost, LastReviewed)
    /\ UNCHANGED <<journal, sessions>>
    /\ PurgeUnchanged /\ CommandUnchanged

\* A live parse of a sibling is resident under the key of the first of its
\* group, which is among the removed ones.
PurgeRemove ==
    /\ purge.pc = "committed"
    /\ sessions' = {k \in sessions : ~Excluded(Reviewed, k)}
    /\ purge' = IdlePurge
    /\ UNCHANGED <<location, durable, purged, coverage, loss, journal, erased, lost>>
    /\ PurgeUnchanged /\ CommandUnchanged

-----------------------------------------------------------------------------
(* Crashes, restarts and recovery.                                         *)

ProcessUnchanged == UNCHANGED <<fileVars, erased, lost, refused, saves>>
IdleThreads ==
    /\ watcher' = NoKey /\ scan' = "idle" /\ scan_read' = NoKey
    /\ saving' = {} /\ preview_read' = NoPreview /\ pending_purge' = NoPreview
    /\ purge' = IdlePurge

\* A crash loses the process; a journal record it was writing stays incomplete.
Crash ==
    /\ readiness /= "down" /\ crashes < MaxCrashes
    /\ crashes' = crashes + 1
    /\ readiness' = "down" /\ recovery' = "idle" /\ sessions' = {}
    /\ IdleThreads
    /\ journal' \in IF purge.pc = "checked" /\ Reviewed /= {}
                    THEN {journal, [journal EXCEPT !.torn = TRUE]} ELSE {journal}
    /\ UNCHANGED <<database, sqlVars, marker, replaced>>
    /\ ProcessUnchanged

\* The database becomes unreadable between two runs.
CorruptDatabase ==
    /\ readiness = "down" /\ database = "ok"
    /\ database' = "corrupt"
    /\ UNCHANGED <<sqlVars, journal, marker, readiness, recovery, sessions, threadVars,
                   commandVars, crashes, replaced>>
    /\ ProcessUnchanged

Start ==
    /\ readiness = "down"
    /\ readiness' = "pending"
    /\ UNCHANGED <<database, sqlVars, journal, marker, recovery, sessions, threadVars,
                   commandVars, crashes, replaced>>
    /\ ProcessUnchanged

\* open_with_progress: a missing database is created, the marker is applied,
\* the journal's tombstones are restored for sessions that are gone.
Opened ==
    LET fresh == database = "moved"
        rows == IF fresh THEN [k \in Keys |-> NoSession] ELSE durable
    IN  /\ location' = IF fresh THEN [p \in Paths |-> NoLocation] ELSE location
        /\ durable' = rows
        /\ purged' = (IF fresh THEN {} ELSE purged)
                        \union {k \in journal.keys : rows[k] = NoSession}
        /\ policy' = IF fresh THEN KeepAll ELSE policy
        /\ coverage' = (marker = "none" /\ (fresh \/ coverage))
        /\ recovered' = (marker /= "none" \/ (~fresh /\ recovered))
        /\ loss' = IF fresh THEN NoLoss ELSE loss
        /\ database' = "ok"

\* An unreadable journal or recovery marker stops every open.
CanOpen == database /= "corrupt" /\ ~journal.malformed /\ marker /= "torn"

\* What hydrate_history publishes of the opened store.
Hydrated == {k \in Keys : durable'[k] /= NoSession /\ ~Excluded(purged', k)}

OpenUnchanged ==
    /\ UNCHANGED <<journal, marker, threadVars, commandVars, crashes, replaced>>
    /\ ProcessUnchanged

\* spawn_history_open and set_history_ready.
OpenHistory ==
    /\ readiness = "pending" /\ recovery = "idle" /\ CanOpen
    /\ Opened
    /\ readiness' = "ready"
    /\ sessions' = sessions \union Hydrated
    /\ UNCHANGED recovery
    /\ OpenUnchanged

\* Any open may fail (permissions, disk space).
OpenFails ==
    /\ ArchiveMayFail /\ readiness = "pending" /\ recovery \in {"idle", "reopening"}
    /\ readiness' = "unavailable"
    /\ recovery' = "idle"
    /\ UNCHANGED <<database, sqlVars, sessions>>
    /\ OpenUnchanged

\* reopen_history reserves durable_writers; retry_history_open goes on to open,
\* recover_history to recover_unavailable.
ReopenHistory(preserve) ==
    /\ readiness = "unavailable" /\ ~Reserved /\ scan = "idle"
    /\ readiness' = "pending"
    /\ recovery' = IF preserve THEN "reserved" ELSE "reopening"
    /\ UNCHANGED <<database, sqlVars, sessions>>
    /\ OpenUnchanged

\* attach_reopened_history: live parses stay unless they are excluded.
AttachReopenedHistory ==
    /\ readiness = "pending" /\ recovery = "reopening" /\ CanOpen
    /\ Opened
    /\ readiness' = "ready"
    /\ sessions' = {k \in sessions : ~Excluded(purged', k)} \union Hydrated
    /\ recovery' = "idle"
    /\ OpenUnchanged

RecoverUnchanged ==
    /\ UNCHANGED <<sqlVars, journal, sessions, threadVars, commandVars, crashes>>
    /\ ProcessUnchanged

\* recover_unavailable: nothing to preserve, or an earlier marker, refuses.
RecoverRefused ==
    /\ recovery = "reserved" /\ (database = "moved" \/ marker /= "none")
    /\ readiness' = "unavailable" /\ recovery' = "idle"
    /\ UNCHANGED <<database, marker, replaced>>
    /\ RecoverUnchanged

\* The marker is created and written before any file is moved.
\* Mutant: the marker waits for the move.
RecoverMarkLater ==
    /\ recovery = "reserved" /\ database /= "moved" /\ marker = "none"
    /\ recovery' = "marked"
    /\ UNCHANGED <<database, marker, readiness, replaced>>
    /\ RecoverUnchanged

RecoverMark ==
    /\ recovery = "reserved" /\ database /= "moved" /\ marker = "none"
    /\ marker' = "torn"
    /\ recovery' = "marking"
    /\ UNCHANGED <<database, readiness, replaced>>
    /\ RecoverUnchanged

RecoverWriteMark ==
    /\ recovery = "marking"
    /\ marker' = "written"
    /\ recovery' = "marked"
    /\ UNCHANGED <<database, readiness, replaced>>
    /\ RecoverUnchanged

RecoverMarkFails ==
    /\ recovery = "marking"
    /\ readiness' = "unavailable" /\ recovery' = "idle"
    /\ UNCHANGED <<database, marker, replaced>>
    /\ RecoverUnchanged

RecoverMove ==
    /\ recovery = "marked"
    /\ database' = "moved"
    /\ replaced' = TRUE
    /\ recovery' = "reopening"
    /\ UNCHANGED <<marker, readiness>>
    /\ RecoverUnchanged

\* A rename fails: the files move back and the marker goes, or neither.
RecoverMoveFails ==
    /\ recovery = "marked"
    /\ \/ marker' = "none" /\ UNCHANGED <<database, replaced>>
       \/ database' = "moved" /\ replaced' = TRUE /\ UNCHANGED marker
    /\ readiness' = "unavailable" /\ recovery' = "idle"
    /\ RecoverUnchanged

-----------------------------------------------------------------------------
FileStep ==
    \/ NextDay
    \/ \E p \in Paths : DeleteFile(p) \/ \E k \in Keys : WriteFile(p, k)

WatcherStep ==
    \/ WatcherPublish
    \/ \E p \in Paths : WatcherObserve(p) \/ WatcherUnpersisted(p) \/ MarkSourceMissing(p)

ScanStep ==
    ScanBegin \/ ScanInsertMissing \/ ScanEnd \/ (\E p \in Paths : ScanMarkMissing(p))

CommandStep ==
    \/ \E days \in Durations \union {0} : SetRetentionPolicy(days)
    \/ SavePolicy \/ PreviewPurge \/ StorePreview
    \/ \E matches \in BOOLEAN : ConfirmPurge(matches)
    \/ PurgeCheck \/ PurgeJournal \/ PurgeFails \/ PurgeRemove
    \/ \E known \in BOOLEAN : PurgeCommit(known)

ProcessStep ==
    \/ Crash \/ CorruptDatabase \/ Start \/ OpenHistory \/ OpenFails
    \/ \E preserve \in BOOLEAN : ReopenHistory(preserve)
    \/ AttachReopenedHistory \/ RecoverRefused \/ RecoverMark \/ RecoverWriteMark
    \/ RecoverMarkFails \/ RecoverMove \/ RecoverMoveFails

Next == FileStep \/ WatcherStep \/ ScanStep \/ CommandStep \/ ProcessStep

Spec == Init /\ [][Next]_vars

-----------------------------------------------------------------------------
(* Properties.                                                             *)

\* A purged group never comes back, into the ledger or the projection: not from
\* a parse that was on its way, a resumed source, a scan's correction, a crash
\* between journal and commit, or a replacement of the database.
ErasedStaysErased ==
    \A k \in Keys : Excluded(erased, k) =>
        /\ database = "ok" /\ readiness = "ready" => durable[k] = NoSession
        /\ ~Purging => k \notin sessions

\* The journal survives an interrupted write: the next purge does not turn the
\* incomplete record into one that blocks every later start.
JournalStaysReadable == ~journal.malformed

\* Complete coverage is claimed only while nothing was purged or replaced.
CoverageIsHonest == HasCompleteCoverage => erased = {} /\ ~replaced

\* An accounting claim for a window excludes every purged event and every
\* database that was given up.
AccountingProofCoversErased ==
    \A from \in 1..(MaxDay + 1) :
        AccountingCoverageSince(from) => lost < from /\ ~replaced

\* A purge deletes what was reviewed, unchanged, under the reviewed policy.
PurgeIsAsReviewed ==
    [][purge.pc = "journalled" /\ purge'.pc = "committed" =>
        /\ saves = purge.preview.saves
        /\ \A k \in Keys : durable'[k] /= durable[k]
                           => durable[k] = purge.preview.rows[k]]_vars

\* An accounting claim for a window leaves out no usage in it, that of a
\* resumed source which a tombstone refuses included.
AccountingProofCoversRefused ==
    \A from \in 1..(MaxDay + 1) : AccountingCoverageSince(from) => refused < from

\* Once usage has been purged no period is claimed to be complete.
PurgedBudgetsStayUnavailable ==
    erased /= {} => \A from \in 1..(MaxDay + 1) : ~AccountingCoverageSince(from)
=============================================================================
