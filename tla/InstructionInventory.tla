------------------------ MODULE InstructionInventory ------------------------
(***************************************************************************)
(* The inventory of instruction files (instructions.rs): how a scan plans  *)
(* its roots, what it finds and how the files are related, and how scans,  *)
(* a settings save, a cancel and a read share what may be opened and what  *)
(* is kept for the next launch (commands.rs, store.rs).  A directory is    *)
(* the sequence of its names; a file is [dir, harness], there being one    *)
(* file name for each harness.  The limit on visited entries ends a scan   *)
(* as the one on files does and is left out.                               *)
(***************************************************************************)
EXTENDS Absent, Integers, Sequences, FiniteSetsExt, SequencesExt

CONSTANTS InstructionFiles, \* the files that may be there
          Globals,          \* the harnesses' own directories
          ObservedProjects, \* project directories of the loaded sessions
          Repositories,     \* directories that are Git work trees
          PrunedNames,      \* names that a walk does not descend into
          SettingsChoices,  \* what Settings may be: [enabled, roots], a root [dir, recursive]
          FileLimit,        \* MAX_DISCOVERED_FILES
          DepthLimit,       \* MAX_SCAN_DEPTH
          Unreadable,       \* files whose directory cannot be read, or that cannot be looked at
          MaxDiskChanges, MaxScans, MaxScanGeneration, MaxInstructionSaves  \* bounds

VARIABLES
    present,     \* the files on disk
    wish,        \* the settings in config.json
    transition,  \* config_transition is held: a save that has been written and not applied
    generation,  \* instruction_scan_generation
    allowed,     \* instruction_paths: what may be opened
    persisted,   \* instruction-inventory-v1.json: None or an inventory
    scan,        \* by scan: None or [id, settings, plan, seen, steady, truncated, done]
    diskChanges, instructionSaves,
    halted,      \* not in the code: the program ended within a save
    unsaved      \* not in the code: the last inventory could not be written

settingVars == <<wish, transition, instructionSaves>>
keptVars == <<allowed, persisted, unsaved>>
inventoryVars == <<present, settingVars, generation, keptVars, scan, diskChanges, halted>>

ASSUME ObservedAssumption == ObservedProjects \subseteq Repositories

-----------------------------------------------------------------------------
(* The roots *)

IsAncestor(dir, other) == IsPrefix(dir, other)
ScanRoot(dir, source, recursive) == [dir |-> dir, source |-> source, recursive |-> recursive]
Priority == [global |-> 3, configured |-> 2, observed |-> 1]

\* A bug: of two roots that name one directory the first decides.
KeepsFirst(dir, roots) ==
    CHOOSE r \in roots : /\ r.dir = dir
                        /\ \A s \in roots : s.dir = dir => Priority[s.source] <= Priority[r.source]
\* deduplicate_roots
Joined(dir, roots) ==
    LET same == {r \in roots : r.dir = dir}
        first == CHOOSE r \in same : \A s \in same : Priority[s.source] <= Priority[r.source]
    IN  [first EXCEPT !.recursive = \E r \in same : r.recursive]

NamedRoots(settings) ==
    {ScanRoot(d, "global", FALSE) : d \in Globals}
    \cup {ScanRoot(r.dir, "configured", r.recursive) : r \in settings.roots}
    \cup {ScanRoot(d, "observed", TRUE) : d \in ObservedProjects}

ConfiguredScanRoots(settings) ==
    LET roots == NamedRoots(settings) IN {Joined(d, roots) : d \in {r.dir : r \in roots}}

\* What a recursive root contains is walked with it.
TraversalRoots(roots) ==
    {r \in roots : ~\E other \in roots \ {r} : other.recursive /\ IsAncestor(other.dir, r.dir)}

\* instruction_paths, should_descend
Walks(root, f) ==
    IF ~root.recursive THEN f.dir = root.dir
    ELSE /\ IsAncestor(root.dir, f.dir)
         /\ Len(f.dir) - Len(root.dir) < DepthLimit
         /\ \A i \in Len(root.dir) + 1..Len(f.dir) : f.dir[i] \notin PrunedNames

Owns(root, f) == IF root.recursive THEN IsAncestor(root.dir, f.dir) ELSE f.dir = root.dir

\* A bug: the outermost root is the owner.
OutermostRoot(roots, f) ==
    CHOOSE r \in roots : Owns(r, f) /\ \A s \in roots : Owns(s, f) => Len(r.dir) <= Len(s.dir)
AttributionRoot(roots, f) ==
    CHOOSE r \in roots : Owns(r, f) /\ \A s \in roots : Owns(s, f) => Len(s.dir) <= Len(r.dir)

-----------------------------------------------------------------------------
(* What is said of the files found *)

\* inspect_file: the project of a file is its Git work tree, or its root.
ProjectScope(root, f) ==
    LET trees == {d \in Repositories : IsAncestor(d, f.dir)}
    IN  IF root.source = "global" THEN None
        ELSE IF trees = {} THEN root.dir
        ELSE CHOOSE d \in trees : \A e \in trees : Len(e) <= Len(d)

InspectFile(roots, f) ==
    LET root == AttributionRoot(roots, f)
    IN  [root |-> root, scope |-> ProjectScope(root, f)]

IsGlobal(items, f) == items[f].root.source = "global"

\* A bug: an ancestor directory is enough, in whatever project.
AnyAncestor(items, c, f) == c.harness = f.harness /\ (IsGlobal(items, c) \/ IsAncestor(c.dir, f.dir))
\* add_hierarchy
Applies(items, c, f) ==
    /\ c.harness = f.harness
    /\ \/ IsGlobal(items, c)
       \/ items[c].scope = items[f].scope /\ IsAncestor(c.dir, f.dir)

EffectiveIds(items, f) == {c \in DOMAIN items : Applies(items, c, f)}

ParentId(items, f) ==
    LET above == {c \in EffectiveIds(items, f) \ {f} : ~IsGlobal(items, c)}
    IN  IF above = {} THEN None ELSE CHOOSE c \in above : \A d \in above : Len(d.dir) <= Len(c.dir)

\* same_effective_chain: the pairs of files whose directives are compared.
SameEffectiveChain(items, f, g) ==
    /\ f.harness = g.harness
    /\ \/ IsGlobal(items, f) \/ IsGlobal(items, g)
       \/ items[f].scope = items[g].scope /\ (IsAncestor(f.dir, g.dir) \/ IsAncestor(g.dir, f.dir))

\* What is found and cannot be looked at is dropped.
InventoryOf(s) == [f \in s.seen \ Unreadable |-> InspectFile(ConfiguredScanRoots(s.settings), f)]

-----------------------------------------------------------------------------
(* Commands *)

ScanIds == 1..MaxScans
Running == {s \in ScanIds : scan[s] # None}
IsCurrent(s) == scan[s].id = generation

\* Editors and version control.
ChangeDisk ==
    /\ diskChanges < MaxDiskChanges /\ diskChanges' = diskChanges + 1
    /\ \E f \in InstructionFiles :
         /\ present' = IF f \in present THEN present \ {f} ELSE present \cup {f}
         /\ scan' = [s \in ScanIds |-> IF s \in Running THEN [scan[s] EXCEPT !.steady = @ \ {f}] ELSE None]
    /\ UNCHANGED <<settingVars, generation, keptVars, halted>>

\* set_config, which holds config_transition throughout.
SaveInstructionSettings ==
    /\ ~transition /\ transition' = TRUE
    /\ instructionSaves < MaxInstructionSaves /\ instructionSaves' = instructionSaves + 1
    /\ wish' \in SettingsChoices \ {wish}
    /\ UNCHANGED <<present, generation, keptVars, scan, diskChanges, halted>>

ApplyInstructionSettings ==
    /\ transition /\ transition' = FALSE
    /\ generation' = generation + 1 /\ allowed' = {}
    /\ persisted' = IF wish.enabled THEN persisted ELSE None
    /\ UNCHANGED <<present, wish, unsaved, scan, diskChanges, instructionSaves, halted>>

\* run_instruction_scan, for a list or behind a persisted answer to one.
BeginInstructionScan(s) ==
    /\ ~transition /\ scan[s] = None /\ generation < MaxScanGeneration
    /\ generation' = generation + 1
    /\ scan' = [scan EXCEPT ![s] =
         [id |-> generation', settings |-> wish, seen |-> {}, steady |-> present, truncated |-> FALSE,
          plan |-> IF wish.enabled THEN TraversalRoots(ConfiguredScanRoots(wish)) ELSE {}, done |-> FALSE]]
    /\ UNCHANGED <<present, settingVars, keptVars, diskChanges, halted>>

\* discover_from_roots, a root at a time and the outer ones first.
WalkRoot(s) ==
    /\ scan[s] # None /\ scan[s].plan # {} /\ IsCurrent(s)
    /\ LET plan == scan[s].plan
           root == CHOOSE r \in plan : \A other \in plan : Len(r.dir) <= Len(other.dir)
           room == FileLimit - Cardinality(scan[s].seen)
       IN  \E hidden \in SUBSET Unreadable :
             LET there == {f \in present \ hidden : Walks(root, f)}
             IN  \/ /\ Cardinality(there) <= room
                    /\ scan' = [scan EXCEPT ![s].plan = @ \ {root}, ![s].seen = @ \cup there]
                 \/ /\ Cardinality(there) > room
                    /\ \E some \in kSubset(room, there) :
                          scan' = [scan EXCEPT ![s].plan = {}, ![s].seen = @ \cup some, ![s].truncated = TRUE]
    /\ UNCHANGED <<present, settingVars, generation, keptVars, diskChanges, halted>>

\* ensure_scan_current
ScanCancelled(s) ==
    /\ scan[s] # None /\ ~IsCurrent(s) /\ ~scan[s].done
    /\ scan' = [scan EXCEPT ![s] = None]
    /\ UNCHANGED <<present, settingVars, generation, keptVars, diskChanges, halted>>

\* The last check of discover_from_roots.
FinishScan(s) ==
    /\ scan[s] # None /\ scan[s].plan = {} /\ IsCurrent(s) /\ ~scan[s].done
    /\ scan' = [scan EXCEPT ![s].done = TRUE]
    /\ UNCHANGED <<present, settingVars, generation, keptVars, diskChanges, halted>>

\* A bug: a scan that was current when it ended may publish.
WasCurrent(s) == scan[s].done
StillCurrent(s) == scan[s].id = generation

\* publish_instruction_paths_if_current, and what follows it under the lock.
PublishScan(s) ==
    /\ ~transition /\ scan[s] # None /\ scan[s].done
    /\ scan' = [scan EXCEPT ![s] = None]
    /\ \/ /\ StillCurrent(s) /\ scan[s].settings.enabled /\ allowed' = DOMAIN InventoryOf(scan[s])
          /\ \/ persisted' = InventoryOf(scan[s]) /\ unsaved' = FALSE
             \/ persisted' = persisted /\ unsaved' = TRUE
       \/ /\ StillCurrent(s) /\ ~scan[s].settings.enabled /\ allowed' = {}
          /\ persisted' = None /\ unsaved' = unsaved
       \/ ~StillCurrent(s) /\ UNCHANGED keptVars
    /\ UNCHANGED <<present, settingVars, generation, diskChanges, halted>>

CancelInstructionScan ==
    /\ Running # {} /\ generation < MaxScanGeneration /\ generation' = generation + 1
    /\ UNCHANGED <<present, settingVars, keptVars, scan, diskChanges, halted>>

\* validate_instruction_access, which holds config_transition.
MayOpen(f) == ~transition /\ wish.enabled /\ f \in allowed \cap present

RestartProgram ==
    /\ generation > 0 /\ generation' = 0
    /\ allowed' = {} /\ scan' = [s \in ScanIds |-> None]
    /\ transition' = FALSE /\ halted' = (halted \/ transition)
    /\ UNCHANGED <<present, wish, persisted, unsaved, diskChanges, instructionSaves>>

InventoryInit ==
    /\ present \in SUBSET InstructionFiles /\ wish \in SettingsChoices
    /\ transition = FALSE /\ generation = 0 /\ allowed = {} /\ persisted = None
    /\ scan = [s \in ScanIds |-> None]
    /\ diskChanges = 0 /\ instructionSaves = 0 /\ halted = FALSE /\ unsaved = FALSE

InventoryNext ==
    \/ ChangeDisk \/ SaveInstructionSettings \/ ApplyInstructionSettings
    \/ CancelInstructionScan \/ RestartProgram
    \/ \E s \in ScanIds :
         BeginInstructionScan(s) \/ WalkRoot(s) \/ ScanCancelled(s) \/ FinishScan(s) \/ PublishScan(s)

-----------------------------------------------------------------------------
\* Nothing may be opened but what a walk of the roots now in force reaches: a
\* scan that a settings save overtook leaves no path behind.
AccessFollowsSettings ==
    \A f \in InstructionFiles : MayOpen(f) => \E r \in NamedRoots(wish) : Walks(r, f)

\* What is kept for the next launch lists what may be opened, and nothing is
\* kept once the feature is off and the save that turned it off has ended.
IndexFollowsSettings ==
    /\ ~wish.enabled /\ ~transition /\ ~halted => persisted = None
    /\ persisted # None /\ allowed # {} /\ ~unsaved => DOMAIN persisted = allowed

\* A root reaches a file, and so does each recursive root that it is walked with:
\* a walk leaves out what is pruned or too deep below where it starts.
Reaches(roots, r, f) ==
    \A other \in roots : other = r \/ (other.recursive /\ IsAncestor(other.dir, r.dir)) => Walks(other, f)

\* A file that was there throughout, can be read and is reached is found, by
\* whichever of the nested roots is walked, unless the scan says it stopped short.
\* (It does not say so of files that are too deep, or that it could not read.)
ScansAreComplete ==
    \A s \in Running : scan[s].done =>
        LET roots == NamedRoots(scan[s].settings)
        IN  /\ scan[s].truncated => Cardinality(scan[s].seen) = FileLimit
            /\ ~scan[s].truncated /\ scan[s].settings.enabled =>
                 \A f \in scan[s].steady \ Unreadable :
                    (\E r \in roots : Reaches(roots, r, f)) => f \in DOMAIN InventoryOf(scan[s])

\* A harness's own file applies everywhere, whatever roots lie around it.  The
\* chain a file is shown with, its parent's chain and the pairs that are compared
\* for conflicts tell the same story.
ChainsAgree ==
    \A s \in Running : scan[s].done =>
        LET items == InventoryOf(scan[s])
            globals(f) == {c \in DOMAIN items : c.harness = f.harness /\ IsGlobal(items, c)}
        IN  \A f \in DOMAIN items :
              /\ f.dir \in Globals => IsGlobal(items, f)
              /\ EffectiveIds(items, f) = {f} \cup (IF ParentId(items, f) = None THEN globals(f)
                                                    ELSE EffectiveIds(items, ParentId(items, f)))
              /\ \A g \in DOMAIN items :
                   SameEffectiveChain(items, f, g) <=> Applies(items, f, g) \/ Applies(items, g, f)

InventoryIsSound ==
    AccessFollowsSettings /\ IndexFollowsSettings /\ ScansAreComplete /\ ChainsAgree
=============================================================================
