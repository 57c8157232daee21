-------------------------- MODULE SchemaMigration --------------------------
(***************************************************************************)
(* The versions of the ledger's schema (migrate in history_store.rs): a    *)
(* ledger left by any release is brought to the current version, one       *)
(* transaction per version, and the app may be killed between any two.     *)
(*                                                                         *)
(* The schema is the set of tables and columns that later steps depend on. *)
(* A session is a snapshot (its quality, whether it names a server and     *)
(* whether its transcript is there) and what is derived from it: the facts *)
(* of its tool calls, which are the origins they have, the rows that count *)
(* them, those of its servers, its project, lifecycle and summary.         *)
(***************************************************************************)
EXTENDS Absent, Integers

CONSTANTS Stores,     \* durable sessions
          Latest,     \* SCHEMA_VERSION
          MaxKills    \* bound

VARIABLES
    userVersion,      \* PRAGMA user_version
    schema, kept,
    opening,          \* "closed", "migrating", "open", or "failed"
    announced, done,  \* the steps that progress reports, and those that ran
    kills

schemaVars == <<userVersion, schema, kept, opening, announced, done, kills>>

\* What each release added, in the release's own ledger.
Introduced == [
    ledger |-> 1, request_input |-> 2, tool_events |-> 3, finding_events |-> 3, dirty |-> 3,
    rollups |-> 4, event_cache |-> 5, rollup_cache |-> 5, project |-> 6, overrides |-> 6,
    event_origin |-> 7, rollup_origin |-> 7, dimensions |-> 8, last_seen |-> 9, overlay |-> 10,
    lifecycle |-> 11, summaries |-> 11, organization |-> 12, workflow |-> 13, outcome |-> 14,
    curated |-> 15, experiments |-> 16]
AsReleased(v) == {x \in DOMAIN Introduced : Introduced[x] <= v}

-----------------------------------------------------------------------------
(* What the step from version v does to the schema.                        *)

\* What the current source creates has the columns of later versions already.
Creates(v) ==
    {x \in DOMAIN Introduced : Introduced[x] = v + 1}
    \cup CASE v = 2 -> {"event_origin"}
           [] v = 3 -> {"rollup_cache", "rollup_origin"}
           [] OTHER -> {}

\* CREATE TABLE and ADD COLUMN without IF NOT EXISTS or table_has_column: an
\* error when it is there.
\* A bug: a column is added without looking whether an earlier step had it.
AddsWithoutLook(v) == IF v \in {1, 2, 4, 12, 14, 15} THEN Creates(v) ELSE {}
Unguarded(v) == IF v \in {1, 2, 12, 14, 15} THEN Creates(v) ELSE {}

ReadableSnapshot(s) == kept[s].quality = "session"

\* store_tool_event_facts, from the snapshots; their calls have no origin yet.
FactsFilled(s) == [kept[s] EXCEPT !.facts = IF ReadableSnapshot(s) THEN "unknown" ELSE @]
\* The rows of all facts, before there are origins to count.
RowsCounted(s) == [kept[s] EXCEPT !.rows = IF kept[s].facts # None THEN "uncounted" ELSE None]
\* backfill_project_identities
ProjectResolved(s) == [kept[s] EXCEPT !.project = ReadableSnapshot(s)]
\* A bug: rows that another step made are taken for complete.
KeepsCounts(s) == kept[s]
OriginsCounted(s) == [kept[s] EXCEPT !.rows = kept[s].facts]
\* store_tool_dimension_facts, and the rows of the facts.
ServersFilled(s) == [kept[s] EXCEPT !.servers = IF ReadableSnapshot(s) THEN kept[s].server ELSE None]
\* lifecycle::install_schema
LifecycleSet(s) ==
    [kept[s] EXCEPT !.lifecycle = IF kept[s].located THEN "present" ELSE "retained", !.summary = TRUE]

Filled(v, s) ==
    CASE v = 2 -> FactsFilled(s)
      [] v = 3 -> RowsCounted(s)
      [] v = 5 -> ProjectResolved(s)
      [] v = 6 -> OriginsCounted(s)
      [] v = 7 -> ServersFilled(s)
      [] v = 10 -> LifecycleSet(s)
      [] OTHER -> kept[s]

\* SQL's own JSON functions make the summaries: they fail on what is not JSON.
Succeeds(v) ==
    /\ Unguarded(v) \cap schema = {}
    /\ v = 10 => \A s \in DOMAIN kept : kept[s].quality # "broken"

-----------------------------------------------------------------------------
\* migration_step_count
MigrationStepCount(v) == IF v = 0 THEN 1 ELSE Latest - v

OpenLedger ==
    /\ opening = "closed"
    /\ opening' = IF userVersion > Latest THEN "failed" ELSE "migrating"
    /\ announced' = MigrationStepCount(userVersion) /\ done' = 0
    /\ UNCHANGED <<userVersion, schema, kept, kills>>

FreshInstall ==
    /\ opening = "migrating" /\ userVersion = 0
    /\ schema' = AsReleased(Latest) /\ userVersion' = Latest /\ done' = done + 1
    /\ UNCHANGED <<kept, opening, announced, kills>>

MigrationStep ==
    /\ opening = "migrating" /\ userVersion \in 1..(Latest - 1)
    /\ IF Succeeds(userVersion)
       THEN /\ schema' = schema \cup Creates(userVersion)
            /\ kept' = [s \in DOMAIN kept |-> Filled(userVersion, s)]
            /\ userVersion' = userVersion + 1 /\ done' = done + 1 /\ UNCHANGED opening
       ELSE opening' = "failed" /\ UNCHANGED <<userVersion, schema, kept, done>>
    /\ UNCHANGED <<announced, kills>>

Migrated ==
    /\ opening = "migrating" /\ userVersion = Latest /\ opening' = "open"
    /\ UNCHANGED <<userVersion, schema, kept, announced, done, kills>>

\* The app is killed; what was committed stays.
Kill ==
    /\ kills < MaxKills /\ kills' = kills + 1 /\ opening' = "closed"
    /\ UNCHANGED <<userVersion, schema, kept, announced, done>>

\* A session as a release stored it.  What is in a ledger from before a step
\* has nothing of it yet.  A snapshot may have been damaged since.
AsStored(v, quality, server, located) ==
    [quality |-> quality, server |-> server, located |-> located,
     facts |-> IF v < 3 THEN None ELSE IF v < 7 THEN "unknown" ELSE "core",
     rows |-> IF v < 4 THEN None ELSE IF v < 7 THEN "uncounted" ELSE "core",
     project |-> v >= 6, servers |-> IF v < 8 THEN None ELSE server,
     lifecycle |-> IF v < 11 THEN None ELSE IF located THEN "present" ELSE "retained",
     summary |-> v >= 11]

SchemaInit ==
    /\ userVersion \in 0..(Latest + 1)
    /\ schema = IF userVersion = 0 THEN {} ELSE AsReleased(userVersion)
    /\ \E quality \in [Stores -> {"session", "foreign", "broken"}], server, located \in [Stores -> BOOLEAN] :
          kept = [s \in {t \in Stores : userVersion > 0} |-> AsStored(userVersion, quality[s], server[s], located[s])]
    /\ opening = "closed" /\ announced = 0 /\ done = 0 /\ kills = 0

SchemaNext == OpenLedger \/ FreshInstall \/ MigrationStep \/ Migrated \/ Kill

-----------------------------------------------------------------------------
\* Whatever release left the ledger and wherever migrations were killed: a
\* ledger that opens has the schema of a fresh one, rows that count exactly the
\* facts there are, and of every readable session everything that is derived;
\* the steps that were reported are those that ran; and only a newer ledger, or
\* a snapshot that is not JSON in one from before the summaries, keeps it shut.
MigrationIsSound ==
    /\ opening = "open" =>
          /\ schema = AsReleased(Latest) /\ done = announced
          /\ \A s \in DOMAIN kept :
                /\ kept[s].rows = kept[s].facts
                /\ kept[s].summary /\ kept[s].lifecycle = IF kept[s].located THEN "present" ELSE "retained"
                /\ ReadableSnapshot(s) => kept[s].facts # None /\ kept[s].project /\ kept[s].servers = kept[s].server
    /\ opening = "failed" =>
          userVersion > Latest \/ (userVersion = 10 /\ \E s \in DOMAIN kept : kept[s].quality = "broken")
=============================================================================
