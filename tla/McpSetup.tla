------------------------------ MODULE McpSetup ------------------------------
(***************************************************************************)
(* Setting up the MCP entry of one client (mcp_integration.rs): a preview  *)
(* is made of the configuration as it is, and applied if it still is so.   *)
(*                                                                         *)
(* A configuration is [text, entry]: everything else in the file, and the  *)
(* "odometer" entry: None, "foreign", or [options] where custom options    *)
(* are the user's.  None is a file that does not exist.                    *)
(***************************************************************************)
EXTENDS Absent, Integers, FiniteSets

CONSTANTS MaxPlans,              \* 32
          Texts,                 \* what the user writes
          MaxPreviews, MaxTexts  \* bounds

VARIABLES
    config,      \* the client's configuration file
    plans,       \* PLANS: [id, action, original, updated, expired]
    applied,     \* APPLIED for this path: None or [original, updated]
    backup,      \* what the kept backup file holds, or None
    previews,    \* NEXT_ID
    written      \* how often the user wrote

setupVars == <<config, plans, applied, backup, previews, written>>

Managed(options) == [options |-> options]
Foreign == Managed("foreign")
Owned(e) == e \notin {None, Foreign}

Entries == {Foreign, Managed("none"), Managed("custom")}
Configurations == [text : Texts \cup {None}, entry : Entries \cup {None}]
ASSUME SetupAssumption == None \notin Entries \cup Configurations

EntryOf(file) == IF file = None THEN None ELSE file.entry
TextOf(file) == IF file = None THEN None ELSE file.text

\* edit: only the entry changes; what is custom in it stays.
\* A bug: an entry that is not managed is taken over.
TakesOver(file, action) == TRUE
MayEdit(file, action) ==
    /\ EntryOf(file) # None => Owned(EntryOf(file))
    /\ action = "remove" => EntryOf(file) # None
Edited(file, action) ==
    [text |-> TextOf(file),
     entry |-> IF action = "remove" THEN None
               ELSE IF EntryOf(file) # None THEN EntryOf(file) ELSE Managed("none")]

\* A bug: the old bytes are put back over whatever came since.
MayAlwaysRestore == applied # None
MayRestore ==
    /\ applied # None /\ applied.original # None
    /\ config = applied.updated /\ backup = applied.original

Supported(action) ==
    action = "install" /\ Owned(EntryOf(config)) => EntryOf(config) = Managed("none")

\* preview_at
Preview(action) ==
    /\ previews < MaxPreviews /\ previews' = previews + 1
    /\ Supported(action)
    /\ IF action = "restore" THEN MayRestore ELSE MayEdit(config, action)
    /\ LET live == {p \in plans : ~p.expired}
           updated == IF action = "restore" THEN applied.original ELSE Edited(config, action)
       IN  /\ Cardinality(live) < MaxPlans
           /\ plans' = live \cup {[id |-> previews', action |-> action, original |-> config,
                                   updated |-> updated, expired |-> FALSE]}
    /\ UNCHANGED <<config, applied, backup, written>>

\* A bug: the file is replaced without another look at it.
Unchecked(plan) == TRUE
Unchanged(plan) == config = plan.original

\* apply: the preview is used up; the file is replaced if it has not changed,
\* its old content kept as the backup.  The replacement may fail.
Apply(plan) ==
    /\ plan \in plans /\ plans' = plans \ {plan}
    /\ \/ /\ ~plan.expired /\ Unchanged(plan)
          /\ config' = plan.updated /\ backup' = plan.original
          /\ applied' = [original |-> plan.original, updated |-> plan.updated]
       \/ UNCHANGED <<config, applied, backup>>
    /\ UNCHANGED <<previews, written>>

\* The app ends between the replacement and the note of it, or anywhere else.
Quit ==
    /\ plans' = {} /\ applied' = None /\ previews' = 0
    /\ \/ UNCHANGED <<config, backup>>
       \/ \E plan \in plans : /\ ~plan.expired /\ Unchanged(plan)
                              /\ config' = plan.updated /\ backup' = plan.original
    /\ UNCHANGED written

\* PLAN_TTL passes.
Expire == plans' = {[p EXCEPT !.expired = TRUE] : p \in plans} /\ UNCHANGED <<config, applied, backup, previews, written>>

\* The user edits the file, or the backup.
UserWrites ==
    /\ written < MaxTexts /\ written' = written + 1
    /\ \/ /\ \E t \in Texts : config' = [text |-> t, entry |-> EntryOf(config)]
          /\ UNCHANGED backup
       \/ /\ \E e \in {None, Foreign, Managed("custom")} : config' = [text |-> TextOf(config), entry |-> e]
          /\ UNCHANGED backup
       \/ backup' = None /\ UNCHANGED config
    /\ UNCHANGED <<plans, applied, previews>>

SetupInit ==
    /\ config = None /\ plans = {} /\ applied = None /\ backup = None
    /\ previews = 0 /\ written = 0

SetupNext ==
    \/ \E action \in {"install", "remove", "restore"} : Preview(action)
    \/ \E plan \in plans : Apply(plan)
    \/ Quit \/ Expire \/ UserWrites

\* Odometer changes nothing in the file but an entry of its own without the
\* user's options: not in a preview applied late, not in a restore.
OnlyTheOwnEntryChanges ==
    config' # config /\ written' = written =>
        /\ TextOf(config') = TextOf(config)
        /\ EntryOf(config) # None => Owned(EntryOf(config))
        /\ EntryOf(config') # None => Owned(EntryOf(config'))
=============================================================================
