------------------------- MODULE HarnessTransaction -------------------------
(***************************************************************************)
(* The multi-file transaction of harness_integration.rs that installs or   *)
(* removes Odometer's completion hook in the configuration files of other  *)
(* programs, as set_config and repair_turn_receipt_integrations run it:    *)
(* plan, replace every file by an atomic exchange, save Odometer's own     *)
(* configuration, then commit or roll back.  Users and the owning programs *)
(* edit the same files at any time, by renaming a new file over the old    *)
(* one or through a handle they opened earlier.                            *)
(*                                                                         *)
(* Files are inodes, so that an exchange moves a file together with the    *)
(* handles on it.  A content is the user's text and whether it has the     *)
(* hook; the transaction changes only the hook.                            *)
(***************************************************************************)
EXTENDS Integers, Sequences

CONSTANTS Files,            \* the number of configuration files
          MaxTransactions,  \* calls of set_config or repair
          MaxEdits,         \* edits by others
          MaxFailures,      \* I/O errors
          MaxCrashes        \* process deaths

ASSUME BoundsAssumption ==
    /\ Files \in Nat \ {0}
    /\ MaxTransactions \in Nat /\ MaxEdits \in Nat
    /\ MaxFailures \in Nat /\ MaxCrashes \in Nat

VARIABLES active,    \* the inode at every configuration path
          spare,     \* the inode at every path's private temporary or recovery name
          detached,  \* the inode at the detached name of the file in work
          strays,    \* inodes under recovery names nobody works on any more
          content,   \* what every inode holds
          saved,     \* the receipts setting in Odometer's saved configuration
          tx,        \* the running transaction
          kept,      \* user texts nobody but the transaction could lose  (history)
          last,      \* the outcome of the last transaction               (history)
          begun, edits, failures, crashes

names  == <<active, spare, detached, strays>>
bounds == <<begun, edits, failures, crashes>>
vars   == <<active, spare, detached, strays, content, saved, tx, kept, last,
            begun, edits, failures, crashes>>

Paths    == 1..Files   \* in the order in which they are planned
NoFile   == 0
Texts    == 0..(MaxEdits + 1)
Contents == [text : Texts, hook : BOOLEAN]
Absent   == [text |-> -1, hook |-> FALSE]
NoPlan   == [original |-> Absent, updated |-> Absent]
Inodes   == 1..Len(content)

Current(p) == IF active[p] = NoFile THEN Absent ELSE content[active[p]]

\* Every inode that still has a name.
Named == ({active[p] : p \in Paths} \cup {spare[p] : p \in Paths}
            \cup strays \cup {detached}) \ {NoFile}

Steps == {"idle", "check_all", "next", "stage", "compare", "exchange", "reconcile",
          "install", "verify", "rollback", "swap_back", "check_displaced", "drop_displaced",
          "swap_again", "detach_new", "check_new", "drop_new", "put_back",
          "save", "commit", "detach_backup", "check_backup", "drop_backup"}

Idle == [pc |-> "idle", set |-> FALSE, want |-> FALSE, plan |-> [p \in Paths |-> NoPlan],
         todo |-> {}, applied |-> <<>>, path |-> 1]

NoOutcome == [outcome |-> "none", before |-> [p \in Paths |-> Absent],
              touched |-> {}, unrestored |-> {}]

\* A subset of the files exists; none has the hook and the setting is off.
Init ==
    /\ \E present \in SUBSET Paths :
          active = [p \in Paths |-> IF p \in present THEN p ELSE NoFile]
    /\ spare = [p \in Paths |-> NoFile]
    /\ detached = NoFile
    /\ strays = {}
    /\ content = [i \in Paths |-> [text |-> 0, hook |-> FALSE]]
    /\ saved = FALSE
    /\ tx = Idle
    /\ kept = {}
    /\ last = NoOutcome
    /\ begun = 0 /\ edits = 0 /\ failures = 0 /\ crashes = 0

-----------------------------------------------------------------------------
(* Helpers.                                                                *)

Fails == /\ failures < MaxFailures
         /\ failures' = failures + 1
         /\ UNCHANGED <<begun, edits, crashes>>

Succeeds == UNCHANGED bounds

p0 == tx.path
Plan == tx.plan[p0]

Goto(pc) == tx' = [tx EXCEPT !.pc = pc]

\* The file in work could not be restored; the roll-back goes on with the others.
Unrestored == /\ Goto("rollback")
              /\ last' = [last EXCEPT !.unrestored = @ \cup {p0}]

\* The transaction returns.  Files it leaves under private names stay there.
Return(outcome) ==
    /\ tx' = Idle
    /\ last' = [last EXCEPT !.outcome = outcome]
    /\ strays' = (strays \cup {spare[p] : p \in Paths} \cup {detached}) \ {NoFile}
    /\ spare' = [p \in Paths |-> NoFile]
    /\ detached' = NoFile

\* The two names' files change places; both must exist.
Swap(p) == /\ active' = [active EXCEPT ![p] = spare[p]]
           /\ spare' = [spare EXCEPT ![p] = active[p]]
           /\ UNCHANGED <<detached, strays>>

DropSpare(p) == /\ spare' = [spare EXCEPT ![p] = NoFile]
                /\ UNCHANGED <<active, detached, strays>>

-----------------------------------------------------------------------------
(* sync_at and apply_plans.                                                *)

\* Mutant: a configuration file that does not exist is not created.
PlanForExisting(p, want) ==
    IF Current(p) = Absent \/ Current(p).hook = want THEN NoPlan
    ELSE [original |-> Current(p), updated |-> [Current(p) EXCEPT !.hook = want]]

\* plan_json_hook_file and plan_toml_hook_file: the update keeps everything
\* but the hook; a file that is as wanted has no plan.
PlanFor(p, want) ==
    IF Current(p) = Absent
    THEN IF want THEN [original |-> Absent, updated |-> [text |-> 0, hook |-> TRUE]]
                 ELSE NoPlan
    ELSE IF Current(p).hook = want THEN NoPlan
    ELSE [original |-> Current(p), updated |-> [Current(p) EXCEPT !.hook = want]]

\* set_config changes the setting, repair applies the saved one.
Begin(set) ==
    LET want == IF set THEN ~saved ELSE saved
        plan == [p \in Paths |-> PlanFor(p, want)]
    IN  /\ tx = Idle
        /\ begun < MaxTransactions
        /\ begun' = begun + 1
        /\ tx' = [Idle EXCEPT !.pc = "check_all", !.set = set, !.want = want, !.plan = plan,
                    !.todo = {p \in Paths : plan[p] # NoPlan}]
        /\ last' = [NoOutcome EXCEPT !.before = [p \in Paths |-> Current(p)]]
        /\ UNCHANGED <<names, content, saved, kept, edits, failures, crashes>>

Unchanged(p) == Current(p) = tx.plan[p].original

\* Every source is compared with its plan before the first is written.
CheckAll ==
    /\ tx.pc = "check_all"
    /\ \/ /\ \A p \in tx.todo : Unchanged(p)
          /\ Goto("next")
          /\ UNCHANGED <<names, last>>
       \/ /\ \E p \in tx.todo : ~Unchanged(p)
          /\ Return("error")
          /\ UNCHANGED active
    /\ UNCHANGED <<content, saved, kept, bounds>>

NextPlan ==
    /\ tx.pc = "next"
    /\ \/ /\ tx.todo = {}
          /\ Goto("save")
       \/ \E p \in tx.todo :
             /\ \A q \in tx.todo : p <= q
             /\ tx' = [tx EXCEPT !.pc = "stage", !.path = p, !.todo = @ \ {p}]
    /\ UNCHANGED <<names, content, saved, kept, last, bounds>>

\* ensure_unchanged again, then the update is written to a temporary file.
Stage ==
    /\ tx.pc = "stage"
    /\ \/ /\ Unchanged(p0)
          /\ Succeeds
          /\ content' = Append(content, Plan.updated)
          /\ spare' = [spare EXCEPT ![p0] = Len(content) + 1]
          /\ Goto("compare")
       \/ /\ \/ ~Unchanged(p0) /\ Succeeds
             \/ Fails
          /\ UNCHANGED <<content, spare>>
          /\ Goto("rollback")
    /\ UNCHANGED <<active, detached, strays, saved, kept, last>>

\* The last comparison before the exchange; the temporary file is removed when
\* the configuration changed.
Compare ==
    /\ tx.pc = "compare"
    /\ \/ /\ Unchanged(p0)
          /\ Goto(IF Plan.original = Absent THEN "install" ELSE "exchange")
          /\ UNCHANGED names
       \/ /\ ~Unchanged(p0)
          /\ DropSpare(p0)
          /\ Goto("rollback")
    /\ UNCHANGED <<content, saved, kept, last, bounds>>

\* atomic_replace_existing.  An error may be reported before or after the
\* exchange took place.
Exchange ==
    /\ tx.pc = "exchange"
    /\ \/ /\ active[p0] # NoFile
          /\ Succeeds
          /\ Swap(p0)
          /\ Goto("verify")
       \/ /\ active[p0] # NoFile
          /\ Fails
          /\ Swap(p0) \/ UNCHANGED names
          /\ Goto("reconcile")
       \/ /\ active[p0] = NoFile
          /\ Succeeds
          /\ UNCHANGED names
          /\ Goto("reconcile")
    /\ UNCHANGED <<content, saved, kept, last>>

\* reconcile_failed_exchange looks at both files: an exchange that took place is
\* a success, one that did not is an error, and anything else leaves both files
\* where they are.
Reconcile ==
    LET exchanged == Current(p0) = Plan.updated /\ content[spare[p0]] = Plan.original
        untouched == Current(p0) = Plan.original /\ content[spare[p0]] = Plan.updated
    IN  /\ tx.pc = "reconcile"
        /\ \/ exchanged /\ Goto("verify") /\ UNCHANGED names
           \/ untouched /\ Goto("rollback") /\ DropSpare(p0)
           \/ ~exchanged /\ ~untouched /\ Goto("rollback") /\ UNCHANGED names
        /\ UNCHANGED <<content, saved, kept, last, bounds>>

\* Mutant: the temporary name is not given up.
InstallByLink ==
    /\ tx.pc = "install"
    /\ active[p0] = NoFile
    /\ active' = [active EXCEPT ![p0] = spare[p0]]
    /\ tx' = [tx EXCEPT !.pc = "next", !.applied = Append(@, p0)]
    /\ UNCHANGED <<spare, detached, strays, content, saved, kept, last, bounds>>

\* atomic_install_new for a configuration that did not exist: it fails when
\* somebody created the file meanwhile, and a file that cannot be synchronised
\* is removed again.
Install ==
    /\ tx.pc = "install"
    /\ \/ /\ active[p0] = NoFile
          /\ Succeeds
          /\ active' = [active EXCEPT ![p0] = spare[p0]]
          /\ tx' = [tx EXCEPT !.pc = "next", !.applied = Append(@, p0)]
       \/ /\ active[p0] = NoFile
          /\ Fails
          /\ active' = [active EXCEPT ![p0] = spare[p0]]
          /\ Goto("detach_new")
       \/ /\ \/ active[p0] # NoFile /\ Succeeds
             \/ Fails
          /\ UNCHANGED active
          /\ Goto("rollback")
    /\ spare' = [spare EXCEPT ![p0] = NoFile]
    /\ UNCHANGED <<detached, strays, content, saved, kept, last>>

\* What the exchange displaced must be what was planned for; an edit that came
\* between comparison and exchange is put back.
VerifyExchange ==
    /\ tx.pc = "verify"
    /\ \/ /\ content[spare[p0]] = Plan.original
          /\ Succeeds
          /\ tx' = [tx EXCEPT !.pc = "next", !.applied = Append(@, p0)]
       \/ /\ \/ content[spare[p0]] # Plan.original /\ Succeeds
             \/ Fails
          /\ Goto("swap_back")
    /\ UNCHANGED <<names, content, saved, kept, last>>

-----------------------------------------------------------------------------
(* restore_applied: restore_from_backup_if_unchanged, remove_if_unchanged.  *)

\* The files already replaced are restored, the latest first.
Rollback ==
    /\ tx.pc = "rollback"
    /\ \/ /\ tx.applied = <<>>
          /\ Return("error")
          /\ UNCHANGED active
       \/ /\ tx.applied # <<>>
          /\ LET p == tx.applied[Len(tx.applied)]
             IN  tx' = [tx EXCEPT !.path = p,
                          !.applied = SubSeq(@, 1, Len(@) - 1),
                          !.pc = IF tx.plan[p].original = Absent
                                 THEN "detach_new" ELSE "swap_back"]
          /\ UNCHANGED <<names, last>>
    /\ UNCHANGED <<content, saved, kept, bounds>>

SwapBack ==
    /\ tx.pc = "swap_back"
    /\ \/ /\ active[p0] # NoFile
          /\ Succeeds
          /\ Swap(p0)
          /\ Goto("check_displaced")
          /\ UNCHANGED last
       \/ /\ \/ active[p0] = NoFile /\ Succeeds
             \/ Fails
          /\ Unrestored
          /\ UNCHANGED names
    /\ UNCHANGED <<content, saved, kept>>

\* Only Odometer's own update is thrown away.
CheckDisplaced ==
    /\ tx.pc = "check_displaced"
    /\ \/ /\ content[spare[p0]] = Plan.updated
          /\ Succeeds
          /\ Goto("drop_displaced")
       \/ /\ \/ content[spare[p0]] # Plan.updated /\ Succeeds
             \/ Fails
          /\ Goto("swap_again")
    /\ UNCHANGED <<names, content, saved, kept, last>>

DropDisplaced ==
    /\ tx.pc = "drop_displaced"
    /\ \/ /\ Succeeds
          /\ DropSpare(p0)
          /\ Goto("rollback")
          /\ UNCHANGED last
       \/ /\ Fails
          /\ Unrestored
          /\ UNCHANGED names
    /\ UNCHANGED <<content, saved, kept>>

\* undo_restore_swap: a newer edit goes back to its place.
SwapAgain ==
    /\ tx.pc = "swap_again"
    /\ Unrestored
    /\ \/ /\ active[p0] # NoFile
          /\ Succeeds
          /\ Swap(p0)
       \/ /\ \/ active[p0] = NoFile /\ Succeeds
             \/ Fails
          /\ UNCHANGED names
    /\ UNCHANGED <<content, saved, kept>>

\* A file Odometer created is moved aside, read and only then removed.
DetachNew ==
    /\ tx.pc = "detach_new"
    /\ \/ /\ active[p0] # NoFile
          /\ Succeeds
          /\ detached' = active[p0]
          /\ active' = [active EXCEPT ![p0] = NoFile]
          /\ Goto("check_new")
          /\ UNCHANGED last
       \/ /\ \/ active[p0] = NoFile /\ Succeeds
             \/ Fails
          /\ Unrestored
          /\ UNCHANGED <<active, detached>>
    /\ UNCHANGED <<spare, strays, content, saved, kept>>

CheckNew ==
    /\ tx.pc = "check_new"
    /\ \/ /\ content[detached] = Plan.updated
          /\ Succeeds
          /\ Goto("drop_new")
       \/ /\ \/ content[detached] # Plan.updated /\ Succeeds
             \/ Fails
          /\ Goto("put_back")
    /\ UNCHANGED <<names, content, saved, kept, last>>

DropNew ==
    /\ tx.pc = "drop_new"
    /\ \/ /\ Succeeds
          /\ Goto("rollback")
          /\ UNCHANGED <<strays, last>>
       \/ /\ Fails
          /\ Unrestored
          /\ strays' = strays \cup {detached}
    /\ detached' = NoFile
    /\ UNCHANGED <<active, spare, content, saved, kept>>

\* restore_detached_file never overwrites what appeared at the path meanwhile.
PutBack ==
    /\ tx.pc = "put_back"
    /\ Unrestored
    /\ \/ /\ active[p0] = NoFile
          /\ Succeeds
          /\ active' = [active EXCEPT ![p0] = detached]
          /\ UNCHANGED strays
       \/ /\ \/ active[p0] # NoFile /\ Succeeds
             \/ Fails
          /\ strays' = strays \cup {detached}
          /\ UNCHANGED active
    /\ detached' = NoFile
    /\ UNCHANGED <<spare, content, saved, kept>>

-----------------------------------------------------------------------------
(* The save of Odometer's configuration, commit and finalize_backup.       *)

\* Mutant: a failed save returns its error without aborting the transaction.
SaveWithoutAbort ==
    /\ tx.pc = "save"
    /\ \/ /\ Succeeds
          /\ saved' = tx.want
          /\ Goto("commit")
          /\ UNCHANGED <<names, last>>
       \/ /\ tx.set
          /\ Fails
          /\ Return("error")
          /\ UNCHANGED <<active, saved>>
    /\ UNCHANGED <<content, kept>>

\* A failed save aborts the transaction; repair has nothing to save.
Save ==
    /\ tx.pc = "save"
    /\ \/ /\ Succeeds
          /\ saved' = tx.want
          /\ Goto("commit")
       \/ /\ tx.set
          /\ Fails
          /\ UNCHANGED saved
          /\ Goto("rollback")
    /\ UNCHANGED <<names, content, kept, last>>

Commit ==
    /\ tx.pc = "commit"
    /\ \/ /\ tx.applied = <<>>
          /\ Return("ok")
          /\ UNCHANGED active
       \/ /\ tx.applied # <<>>
          /\ LET p == Head(tx.applied)
             IN  tx' = [tx EXCEPT !.path = p, !.applied = Tail(@),
                          !.pc = IF tx.plan[p].original = Absent
                                 THEN "commit" ELSE "detach_backup"]
          /\ UNCHANGED <<names, last>>
    /\ UNCHANGED <<content, saved, kept, bounds>>

\* The backup is moved aside so that nobody can open it by its name again.
DetachBackup ==
    /\ tx.pc = "detach_backup"
    /\ \/ /\ Succeeds
          /\ detached' = spare[p0]
          /\ spare' = [spare EXCEPT ![p0] = NoFile]
          /\ Goto("check_backup")
       \/ /\ Fails
          /\ Goto("commit")
          /\ UNCHANGED <<detached, spare>>
    /\ UNCHANGED <<active, strays, content, saved, kept, last>>

\* Mutant: the backup is removed without being read again.
CheckNoBackup ==
    /\ tx.pc = "check_backup"
    /\ Goto("drop_backup")
    /\ UNCHANGED <<names, content, saved, kept, last, bounds>>

\* A backup that was edited through an old handle is kept and reported.
CheckBackup ==
    /\ tx.pc = "check_backup"
    /\ \/ /\ content[detached] = Plan.original
          /\ Succeeds
          /\ Goto("drop_backup")
          /\ UNCHANGED <<detached, strays>>
       \/ /\ \/ content[detached] # Plan.original /\ Succeeds
             \/ Fails
          /\ strays' = strays \cup {detached}
          /\ detached' = NoFile
          /\ Goto("commit")
    /\ UNCHANGED <<active, spare, content, saved, kept, last>>

DropBackup ==
    /\ tx.pc = "drop_backup"
    /\ \/ /\ Succeeds
          /\ UNCHANGED strays
       \/ /\ Fails
          /\ strays' = strays \cup {detached}
    /\ detached' = NoFile
    /\ Goto("commit")
    /\ UNCHANGED <<active, spare, content, saved, kept, last>>

-----------------------------------------------------------------------------
(* The surroundings.                                                       *)

\* The file that was read and is about to be removed: the unavoidable race.
Doomed == CASE tx.pc = "drop_displaced" -> spare[p0]
            [] tx.pc \in {"drop_new", "drop_backup"} -> detached
            [] OTHER -> NoFile

\* The temporary file nobody else has seen yet.
Unseen == IF tx.pc \in {"compare", "exchange", "install"}
             \/ (tx.pc = "reconcile" /\ content[spare[p0]] = Plan.updated) THEN spare[p0] ELSE NoFile

\* An editor saves by renaming a new file over the configuration.
EditByRename(p, hook) ==
    /\ edits < MaxEdits
    /\ edits' = edits + 1
    /\ content' = Append(content, [text |-> edits + 1, hook |-> hook])
    /\ active' = [active EXCEPT ![p] = Len(content) + 1]
    /\ kept' = (kept \ {Current(p).text}) \cup {edits + 1}
    /\ last' = [last EXCEPT !.touched = @ \cup {p}]
    /\ UNCHANGED <<spare, detached, strays, saved, tx, begun, failures, crashes>>

\* A program writes through a handle it opened earlier, wherever the file is now.
EditInPlace(i, hook) ==
    /\ edits < MaxEdits
    /\ edits' = edits + 1
    /\ content' = [content EXCEPT ![i] = [text |-> edits + 1, hook |-> hook]]
    /\ kept' = (kept \ {content[i].text}) \cup (IF i = Doomed THEN {} ELSE {edits + 1})
    /\ last' = [last EXCEPT !.touched = @ \cup
                   {p \in Paths : i \in {active[p], spare[p]}
                                  \/ (i = detached /\ p = p0)}]
    /\ UNCHANGED <<names, saved, tx, begun, failures, crashes>>

DeleteFile(p) ==
    /\ edits < MaxEdits
    /\ active[p] # NoFile
    /\ edits' = edits + 1
    /\ active' = [active EXCEPT ![p] = NoFile]
    /\ kept' = kept \ {Current(p).text}
    /\ last' = [last EXCEPT !.touched = @ \cup {p}]
    /\ UNCHANGED <<spare, detached, strays, content, saved, tx, begun, failures, crashes>>

\* The process dies; every file keeps the name it has.
Crash ==
    /\ crashes < MaxCrashes
    /\ tx # Idle
    /\ crashes' = crashes + 1
    /\ Return("crash")
    /\ UNCHANGED <<active, content, saved, kept, begun, edits, failures>>

Next ==
    \/ \E set \in BOOLEAN : Begin(set)
    \/ CheckAll \/ NextPlan \/ Stage \/ Compare
    \/ Exchange \/ Reconcile \/ Install \/ VerifyExchange
    \/ Rollback \/ SwapBack \/ CheckDisplaced \/ DropDisplaced \/ SwapAgain
    \/ DetachNew \/ CheckNew \/ DropNew \/ PutBack
    \/ Save \/ Commit \/ DetachBackup \/ CheckBackup \/ DropBackup
    \/ \E p \in Paths : DeleteFile(p) \/ \E hook \in BOOLEAN : EditByRename(p, hook)
    \/ \E i \in Named \ {Unseen}, hook \in BOOLEAN : EditInPlace(i, hook)
    \/ Crash

Spec == Init /\ [][Next]_vars

-----------------------------------------------------------------------------
(* Properties.                                                             *)

\* Every variable has its type and no inode has two names.
TypeOK ==
    /\ active \in [Paths -> Inodes \cup {NoFile}]
    /\ spare \in [Paths -> Inodes \cup {NoFile}]
    /\ detached \in Inodes \cup {NoFile}
    /\ strays \subseteq Inodes
    /\ \A i \in Inodes : content[i] \in Contents
    /\ saved \in BOOLEAN
    /\ tx.pc \in Steps
    /\ kept \subseteq Texts
    /\ \A p, q \in Paths : /\ active[p] # NoFile => active[p] \notin strays \cup {spare[q], detached}
                           /\ p # q /\ active[p] # NoFile => active[p] # active[q]

\* No edit of the user is lost (replace_if_unchanged, restore_applied and
\* finalize_backup): the text of every edit that nobody else overwrote or
\* deleted is in some file that still has a name, whatever step of the
\* transaction, failure or crash it met.
UserTextSurvives ==
    \A e \in kept : \E i \in Named : content[i].text = e

\* A setup that fails leaves nothing behind (apply_plans, abort): every file
\* that nobody else touched and whose own restoration did not fail is as it was
\* before the call, although the restoration of another file failed.
FailedSetupIsUndone ==
    tx = Idle /\ last.outcome = "error" =>
        \A p \in Paths \ (last.touched \cup last.unrestored) : Current(p) = last.before[p]

\* Hooks follow the setting (set_config, repair): after a successful call every
\* file that nobody else touched has the hook exactly when the saved setting
\* says so, and still has the user's text.
HooksFollowSetting ==
    tx = Idle /\ last.outcome = "ok" =>
        \A p \in Paths \ last.touched :
            /\ Current(p).hook = saved
            /\ last.before[p] # Absent => Current(p).text = last.before[p].text
=============================================================================
