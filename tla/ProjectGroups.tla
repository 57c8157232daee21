---------------------------- MODULE ProjectGroups ----------------------------
(***************************************************************************)
(* Projects: what the directory of a session says (project_identity.rs),   *)
(* the user's merges, aliases and splits (history_store.rs), and the       *)
(* grouping every report shares (commands.rs, resolve_projects_from).      *)
(***************************************************************************)
EXTENDS Absent, Integers, FiniteSets

CONSTANTS Members,     \* sessions
          Directories, ProjectKeys,
          Manual       \* the key a split mints, for each session

ASSUME ProjectsAssumption ==
    /\ Directories \subseteq ProjectKeys /\ None \notin ProjectKeys
    /\ Manual \in [Members -> ProjectKeys]

VARIABLES
    disk,       \* per directory: the repository and the workspace it is in
    directory,  \* the working directory of each transcript, or None
    detected,   \* durable_sessions.project_*: the key and the directory it is for
    resident,   \* the same key, in the summaries in memory
    assigned,   \* project_session_overrides
    override    \* project_overrides: [alias, canonical]

projectVars == <<disk, directory, detected, resident, assigned, override>>

NoOverride == [alias |-> None, canonical |-> None]

ProjectInit ==
    /\ disk \in [Directories -> [repository : ProjectKeys \cup {None}, workspace : {None}]]
    /\ directory \in [Members -> Directories \cup {None}]
    /\ detected = [s \in Members |-> [key |-> None, source |-> None]]
    /\ resident = [s \in Members |-> None]
    /\ assigned = [s \in Members |-> None]
    /\ override = [k \in ProjectKeys |-> NoOverride]

-----------------------------------------------------------------------------
\* resolve_project_identity: the repository, or the nearest workspace marker, or
\* the provider's own project, or the path itself.
ResolveProjectIdentity(d) ==
    IF d = None THEN None
    ELSE IF disk[d].repository # None THEN disk[d].repository
    ELSE IF disk[d].workspace # None THEN disk[d].workspace
    ELSE d

\* apply_project_identity: the disk is asked again only when the directory of
\* the session changed.
ApplyProjectIdentity(s) ==
    LET known == detected[s].key # None /\ detected[s].source = directory[s]
        key == IF known THEN detected[s].key ELSE ResolveProjectIdentity(directory[s])
    IN  /\ detected' = [detected EXCEPT ![s] = [key |-> key, source |-> directory[s]]]
        /\ resident' = [resident EXCEPT ![s] = key]
        /\ UNCHANGED <<disk, directory, assigned, override>>

Observed(s) == detected[s].source # None \/ detected[s].key # None

ChangeDirectory(s, d) ==
    /\ directory' = [directory EXCEPT ![s] = d]
    /\ UNCHANGED <<disk, detected, resident, assigned, override>>

InitRepository(d, k) ==
    /\ disk' = [disk EXCEPT ![d].repository = k]
    /\ UNCHANGED <<directory, detected, resident, assigned, override>>

-----------------------------------------------------------------------------
(* The user's changes, each under the writer's lock.                       *)

Next1(k) == override[k].canonical

\* A bug: one step of the chain is looked at.
ReachesDirectly(start, target) == start = target \/ Next1(start) = target

\* The keys that project_key_reaches and resolve_canonical_project_key visit: the
\* start and whatever a redirect of theirs leads to; a repeated key ends the walk.
FollowsRedirects(S) == \A j \in S : Next1(j) # None => Next1(j) \in S
Chain(k) == {j \in ProjectKeys : \A S \in SUBSET ProjectKeys : k \in S /\ FollowsRedirects(S) => j \in S}
Reaches(start, target) == target \in Chain(start)

\* A bug: a merged project is counted under the next key, not the last one.
NextKey(k) == IF Next1(k) = None THEN k ELSE Next1(k)
Canonical(k) ==
    LET ends == {j \in Chain(k) : Next1(j) = None}
    IN  IF ends = {} THEN k ELSE CHOOSE j \in ends : TRUE

SetAlias(k, alias) ==
    /\ override' = [override EXCEPT ![k].alias = alias]
    /\ UNCHANGED <<disk, directory, detected, resident, assigned>>

MergeProject(source, canonical) ==
    /\ source # canonical
    /\ ~Reaches(canonical, source)
    /\ override' = [override EXCEPT ![source].canonical = canonical]
    /\ UNCHANGED <<disk, directory, detected, resident, assigned>>

UnmergeProject(k) ==
    /\ override' = [override EXCEPT ![k].canonical = None]
    /\ UNCHANGED <<disk, directory, detected, resident, assigned>>

ReassignSession(s, k) ==
    /\ Observed(s)
    /\ assigned' = [assigned EXCEPT ![s] = IF k = None THEN Manual[s] ELSE k]
    /\ UNCHANGED <<disk, directory, detected, resident, override>>

ClearReassignment(s) ==
    /\ assigned' = [assigned EXCEPT ![s] = None]
    /\ UNCHANGED <<disk, directory, detected, resident, override>>

-----------------------------------------------------------------------------
(* resolve_projects_from.                                                  *)

EffectiveRaw(s) == IF assigned[s] # None THEN assigned[s] ELSE resident[s]
RawKeys == {EffectiveRaw(s) : s \in Members} \ {None}

\* A bug: a session is also counted where it was before it was reassigned.
InBoth(s, raw) == raw \in {assigned[s], resident[s]}
InRaw(s, raw) == raw = EffectiveRaw(s)

\* session_count is the size of `counted': each session once under each raw key.
Project(k) ==
    LET members == {raw \in RawKeys : Canonical(raw) = k}
    IN  [key |-> k, members |-> members,
         counted |-> {c \in Members \X members : InRaw(c[1], c[2])},
         overridden |-> {s \in Members : assigned[s] # None /\ \E raw \in members : InRaw(s, raw)}]

Projects == {Project(Canonical(raw)) : raw \in RawKeys}

ProjectNext ==
    \/ \E s \in Members : ApplyProjectIdentity(s) \/ ClearReassignment(s)
    \/ \E s \in Members, d \in Directories \cup {None} : ChangeDirectory(s, d)
    \/ \E d \in Directories, k \in ProjectKeys : InitRepository(d, k)
    \/ \E k \in ProjectKeys : UnmergeProject(k) \/ \E alias \in {None, k} : SetAlias(k, alias)
    \/ \E source, canonical \in ProjectKeys : MergeProject(source, canonical)
    \/ \E s \in Members, k \in ProjectKeys \cup {None} : ReassignSession(s, k)

-----------------------------------------------------------------------------
\* Every session that has a project is counted in exactly one, whatever was
\* merged, split and undone in which order; a redirect chain always ends, at the
\* project its sessions are shown under, and the sessions a user moved are
\* listed there.
ProjectsPartition ==
    /\ \A k \in ProjectKeys : Next1(Canonical(k)) = None
    /\ \A p, q \in Projects : p # q => p.key # q.key /\ p.members \cap q.members = {}
    /\ \A s \in Members : Cardinality({c \in UNION {p.counted : p \in Projects} : c[1] = s})
                             = IF EffectiveRaw(s) = None THEN 0 ELSE 1
    /\ \A s \in Members : assigned[s] # None =>
          \E p \in Projects : s \in p.overridden /\ p.key = Canonical(assigned[s])
=============================================================================
