----------------------------- MODULE ScanCache -----------------------------
(***************************************************************************)
(* The scan cache: one row per path with the parsed session, the size and  *)
(* time stamp and the identity of the file it was parsed from, and the     *)
(* newest scan generation that used it.  Scans overlap with each other and *)
(* with the harnesses that write the files; a rebuild, which runs alone,   *)
(* re-parses and refreshes the rows.  A path may be in the cache under two *)
(* spellings: the configured root's and the disk's.                        *)
(***************************************************************************)
EXTENDS Integers, FiniteSets, FiniteSetsExt, TLC

CONSTANTS
    Scans,          \* scans that may overlap
    Spellings,      \* keys under which the file may be cached
    DiskSpelling,   \* the one canonicalize returns
    Nothing,         \* no file, no row, nothing read
    MaxFileWrites,  \* bound: changes to the file
    MaxGeneration,  \* bound: generations
    MaxRevision     \* bound: revisions of the parsers

\* A file as it was at one moment, what a parser makes of it, and a cached row.
FileGenerations == [identity : Nat, version : Nat]
ParsedSessions == [identity : Nat, version : Nat, revision : Nat]
CachedRows == [stamp : Nat, identity : Nat, session : ParsedSessions, seen : Nat]
Handed == [before : FileGenerations \cup {Nothing}, session : ParsedSessions \cup {Nothing}]

ASSUME CacheAssumption ==
    /\ DiskSpelling \in Spellings
    /\ Nothing \notin Nat \cup Spellings \cup FileGenerations \cup ParsedSessions \cup CachedRows \cup Handed

VARIABLES
    onDisk,           \* Nothing or [identity, version]; a version is a size and a time
    rows,           \* Spellings -> Nothing or a row
    cacheMeta,         \* cache_meta: [generation, parse_version]
    build,          \* the running program: [parse_version, revision]
    scans,          \* state of each scan
    rebuild         \* state of the rebuild

cacheVars == <<onDisk, rows, cacheMeta, build, scans, rebuild>>

Idle == [at |-> "closed", generation |-> 0, key |-> DiskSpelling, before |-> Nothing,
         stamp |-> Nothing, session |-> Nothing, touched |-> {}, result |-> Nothing]

NoRebuild == [at |-> "idle", before |-> Nothing, session |-> Nothing, written |-> Nothing]

Stamp(d) == IF d = Nothing THEN Nothing ELSE d.version

\* What the parser of this build makes of a file.
Parsed(d) == [identity |-> d.identity, version |-> d.version, revision |-> build.revision]

CacheInit ==
    /\ onDisk = [identity |-> 0, version |-> 0]
    /\ rows = [k \in Spellings |-> Nothing]
    /\ cacheMeta = [generation |-> 0, parse_version |-> 0]
    /\ build = [parse_version |-> 1, revision |-> 1]
    /\ scans = [s \in Scans |-> Idle]
    /\ rebuild = NoRebuild

-----------------------------------------------------------------------------
(* The file *)

ChangeFile ==
    /\ onDisk # Nothing /\ onDisk.version < MaxFileWrites
    /\ onDisk' \in {[onDisk EXCEPT !.version = @ + 1],
                  [identity |-> onDisk.identity + 1, version |-> onDisk.version + 1], Nothing}
    /\ UNCHANGED <<rows, cacheMeta, build, scans, rebuild>>

\* A new release: a changed parser, with or without a new PARSE_VERSION.
Upgrade ==
    /\ build.revision < MaxRevision
    /\ build' \in {[parse_version |-> v, revision |-> build.revision + 1] :
                        v \in {build.parse_version, build.parse_version + 1}}
    /\ scans' = [s \in Scans |-> Idle] /\ rebuild' = NoRebuild
    /\ UNCHANGED <<onDisk, rows, cacheMeta>>

-----------------------------------------------------------------------------
(* A scan of the path *)

\* open_existing: rows of another parser version are dropped and a generation
\* is taken, in one transaction.
OpenScan(s) ==
    /\ scans[s].at = "closed" /\ rebuild.at = "idle"
    /\ cacheMeta.generation < MaxGeneration
    /\ rows' = IF cacheMeta.parse_version = build.parse_version THEN rows
               ELSE [k \in Spellings |-> Nothing]
    /\ cacheMeta' = [generation |-> cacheMeta.generation + 1, parse_version |-> build.parse_version]
    /\ \E k \in Spellings :
          scans' = [scans EXCEPT ![s] = [Idle EXCEPT !.at = "opened", !.key = k,
                                                     !.generation = cacheMeta'.generation]]
    /\ UNCHANGED <<onDisk, build, rebuild>>

\* A corrupt database is removed and opened again, from generation one.
OpenCorrupt(s) ==
    /\ \A t \in Scans : scans[t].at = "closed"
    /\ rebuild.at = "idle"
    /\ rows' = [k \in Spellings |-> Nothing]
    /\ cacheMeta' = [generation |-> 1, parse_version |-> build.parse_version]
    /\ \E k \in Spellings :
          scans' = [t \in Scans |-> IF t = s
                                     THEN [Idle EXCEPT !.at = "opened", !.key = k, !.generation = 1]
                                     ELSE Idle]
    /\ UNCHANGED <<onDisk, build, rebuild>>

Step(s, from, to, changes) ==
    /\ scans[s].at = from
    /\ scans' = [scans EXCEPT ![s] = [changes EXCEPT !.at = to]]

\* The generation, then the stamp: two looks at the file.
ObserveBefore(s) ==
    /\ Step(s, "opened", "observed", [scans[s] EXCEPT !.before = onDisk])
    /\ UNCHANGED <<onDisk, rows, cacheMeta, build, rebuild>>

ReadStamp(s) ==
    /\ Step(s, "observed", "stamped", [scans[s] EXCEPT !.stamp = Stamp(onDisk)])
    /\ UNCHANGED <<onDisk, rows, cacheMeta, build, rebuild>>

Matches(row, scan) ==
    /\ row # Nothing /\ scan.before # Nothing
    /\ row.stamp = scan.stamp /\ row.identity = scan.before.identity

\* Mutant of Seen: the last scan to touch a row leaves its mark.
SeenLast(old, generation) == generation

Seen(old, generation) == Max({old, generation})

\* lookup: a hit marks the row as seen, never as seen earlier than it was.
LookUp(s) ==
    LET scan == scans[s]
        row == rows[scan.key]
        hit == Matches(row, scan)
    IN  /\ Step(s, "stamped", "looked",
                [scan EXCEPT !.session = IF hit THEN row.session ELSE Nothing,
                             !.touched = IF hit THEN {scan.key} ELSE {}])
        /\ rows' = IF hit THEN [rows EXCEPT ![scan.key].seen = Seen(@, scan.generation)] ELSE rows
        /\ UNCHANGED <<onDisk, cacheMeta, build, rebuild>>

\* A row whose session cannot be decoded is removed and is a miss.
LookUpCorrupt(s) ==
    LET scan == scans[s]
    IN  /\ Matches(rows[scan.key], scan) /\ scan.at = "stamped"
        /\ rows' = [rows EXCEPT ![scan.key] = Nothing]
        /\ scans' = [t \in Scans |-> IF t = s THEN [scan EXCEPT !.at = "looked", !.session = Nothing]
                                     ELSE [scans[t] EXCEPT !.touched = @ \ {scan.key}]]
        /\ UNCHANGED <<onDisk, cacheMeta, build, rebuild>>

\* stable_cached_session: a hit counts only if the file is still the one that
\* was looked up; otherwise the file is looked at and parsed afresh.
ConfirmHit(s) ==
    LET scan == scans[s]
        stable == scan.session # Nothing /\ scan.before # Nothing /\ scan.before = onDisk
    IN  /\ Step(s, "looked", IF stable THEN "ready" ELSE "missed",
                IF stable THEN scan ELSE [scan EXCEPT !.before = onDisk, !.session = Nothing])
        /\ UNCHANGED <<onDisk, rows, cacheMeta, build, rebuild>>

RestampAndParse(s) ==
    /\ \/ Step(s, "missed", "restamped", [scans[s] EXCEPT !.stamp = Stamp(onDisk)])
       \/ /\ onDisk # Nothing
          /\ Step(s, "restamped", "parsed", [scans[s] EXCEPT !.session = Parsed(onDisk)])
       \/ /\ onDisk = Nothing     \* parse_file fails, or declines the file
          /\ Step(s, "restamped", "pruning", scans[s])
    /\ UNCHANGED <<onDisk, rows, cacheMeta, build, rebuild>>

\* Mutant of Unchanged: the look after the parse is left out.
NotLookedAt(before) == TRUE

\* The generation read before the parse still holds.
Unchanged(before) == before = onDisk

\* store_observed, if the generation read before the parse still holds.
Store(s) ==
    LET scan == scans[s]
        stable == scan.stamp # Nothing /\ scan.before # Nothing /\ Unchanged(scan.before)
        seen == IF rows[scan.key] = Nothing THEN 0 ELSE rows[scan.key].seen
    IN  /\ Step(s, "parsed", "ready",
                [scan EXCEPT !.touched = IF stable THEN @ \union {scan.key} ELSE @])
        /\ rows' = IF ~stable THEN rows
                   ELSE [rows EXCEPT ![scan.key] =
                            [stamp |-> scan.stamp, identity |-> scan.before.identity,
                             session |-> scan.session, seen |-> Seen(seen, scan.generation)]]
        /\ UNCHANGED <<onDisk, cacheMeta, build, rebuild>>

\* The last look: a session of another generation is not handed over.
HandOver(s) ==
    LET scan == scans[s]
        dropped == scan.before # Nothing /\ scan.before # onDisk
    IN  /\ Step(s, "ready", "pruning",
                [scan EXCEPT !.result = IF dropped THEN Nothing
                                        ELSE [before |-> scan.before, session |-> scan.session]])
        /\ UNCHANGED <<onDisk, rows, cacheMeta, build, rebuild>>

\* finish_scan: only the newest generation prunes what was not seen.
FinishScan(s) ==
    /\ scans[s].at = "pruning"
    /\ rows' = [k \in Spellings |->
                    IF /\ rows[k] # Nothing /\ rows[k].seen < scans[s].generation
                       /\ scans[s].generation = cacheMeta.generation
                    THEN Nothing ELSE rows[k]]
    /\ scans' = [scans EXCEPT ![s] = [scans[s] EXCEPT !.at = "closed"]]
    /\ UNCHANGED <<onDisk, cacheMeta, build, rebuild>>

-----------------------------------------------------------------------------
(* A rebuild of the path's session, with the scans shut out.  It opens the *)
(* cache as a scan does.                                                   *)

RebuildObserve ==
    /\ rebuild.at = "idle" /\ \A s \in Scans : scans[s].at = "closed"
    /\ onDisk # Nothing /\ cacheMeta.generation < MaxGeneration
    /\ rows' = IF cacheMeta.parse_version = build.parse_version THEN rows
               ELSE [k \in Spellings |-> Nothing]
    /\ cacheMeta' = [generation |-> cacheMeta.generation + 1, parse_version |-> build.parse_version]
    /\ rebuild' = [NoRebuild EXCEPT !.at = "observed", !.before = onDisk]
    /\ UNCHANGED <<onDisk, build, scans>>

RebuildParse ==
    /\ rebuild.at = "observed"
    /\ rebuild' = [rebuild EXCEPT !.at = "parsed",
                                  !.session = IF onDisk = Nothing THEN Nothing ELSE Parsed(onDisk)]
    /\ UNCHANGED <<onDisk, rows, cacheMeta, build, scans>>

\* record_scan_cache_refresh under the disk's spelling, or, when the file
\* changed or did not parse, a note that no row of this path is valid.
RebuildRecord ==
    LET stable == rebuild.session # Nothing /\ onDisk # Nothing /\ Unchanged(rebuild.before)
        seen == IF rows[DiskSpelling] = Nothing THEN 0 ELSE rows[DiskSpelling].seen
    IN  /\ rebuild.at = "parsed"
        /\ rebuild' = [rebuild EXCEPT !.at = "recorded",
                                      !.written = IF stable THEN DiskSpelling ELSE Nothing]
        /\ rows' = IF ~stable THEN rows
                   ELSE [rows EXCEPT ![DiskSpelling] =
                            [stamp |-> Stamp(onDisk), identity |-> onDisk.identity,
                             session |-> rebuild.session, seen |-> Seen(seen, cacheMeta.generation)]]
        /\ UNCHANGED <<onDisk, cacheMeta, build, scans>>

\* Rows of the path other than the one just written.
Outdated(k) == k # rebuild.written

\* sweep_normalized_scan_cache_duplicates
RebuildSweep ==
    /\ rebuild.at = "recorded"
    /\ rows' = [k \in Spellings |-> IF Outdated(k) THEN Nothing ELSE rows[k]]
    /\ rebuild' = [NoRebuild EXCEPT !.at = "swept"]
    /\ UNCHANGED <<onDisk, cacheMeta, build, scans>>

RebuildEnd == rebuild.at = "swept" /\ rebuild' = NoRebuild /\ UNCHANGED <<onDisk, rows, cacheMeta, build, scans>>

CacheNext ==
    \/ ChangeFile \/ Upgrade
    \/ \E s \in Scans : \/ OpenScan(s) \/ OpenCorrupt(s) \/ ObserveBefore(s) \/ ReadStamp(s)
                        \/ LookUp(s) \/ LookUpCorrupt(s) \/ ConfirmHit(s) \/ RestampAndParse(s)
                        \/ Store(s) \/ HandOver(s) \/ FinishScan(s)
    \/ RebuildObserve \/ RebuildParse \/ RebuildRecord \/ RebuildSweep \/ RebuildEnd

-----------------------------------------------------------------------------

\* A row never describes content other than what its stamp and identity say.
RowsMatchTheirStamp ==
    \A k \in Spellings : rows[k] # Nothing =>
        /\ rows[k].session.version = rows[k].stamp
        /\ rows[k].session.identity = rows[k].identity

\* A session handed over is that of the generation the scan recorded for it.
HandedOverAsRecorded ==
    \A s \in Scans :
        LET r == scans[s].result
        IN  (r # Nothing /\ r.before # Nothing) => /\ r.session.version = r.before.version
                                                 /\ r.session.identity = r.before.identity

\* The rebuild exists because rows may hold what an older parser made
\* of a file.  When its sweep is over no row of the path, under either
\* spelling, is older than the running parser.
RebuildRefreshesRows ==
    rebuild.at = "swept" => \A k \in Spellings : rows[k] # Nothing => rows[k].session.revision = build.revision

\* The file changes between the looks of a scan or of a rebuild, or another
\* scan replaces the row: still no row and no session handed over by the scan
\* is taken for content it is not of, and a rebuild leaves none of an older
\* parser's.
CacheTellsTheTruth == RowsMatchTheirStamp /\ HandedOverAsRecorded /\ RebuildRefreshesRows

\* Two scans overlap and the older one finishes last.  A row that the
\* newest scan has read or written is not pruned, by itself or by another.
NewestScanKeepsItsRows ==
    \A s \in Scans : scans[s].generation = cacheMeta.generation =>
                        \A k \in scans[s].touched : rows[k] # Nothing
=============================================================================
