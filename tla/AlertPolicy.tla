---------------------------- MODULE AlertPolicy ----------------------------
(***************************************************************************)
(* Soft budgets, live account rules and ambient notices: which crossing is *)
(* told, once, and which is only remembered (quota.rs, quota_store.rs,     *)
(* quota_account_alerts.rs, ambient.rs, store.rs, commands.rs).            *)
(*                                                                         *)
(* One process.  quota_evaluation serialises a check and a save of the     *)
(* settings; what a process had persisted when it stops counts as told,    *)
(* though it may never have been shown.  A tick is the minute the code     *)
(* waits between two looks at the budgets and at the retention; an hour of *)
(* the day is `clock % DayLength'.                                         *)
(* An attention signal, an incident, a stale window and a retention risk   *)
(* are conditions: [state, observed], of which a signal never resolves.    *)
(***************************************************************************)
EXTENDS Absent, Integers, Sequences, SequencesExt, FiniteSetsExt

CONSTANTS Budgets, LiveRules, Conditions, Signals, DayLength, QuietRange,
          LiveFresh,      \* minutes a live reading may be old
          LogRetention,   \* days of the log, in ticks
          MaxLog,         \* MAX_LOG_ENTRIES
          MaxClock, MaxEdits, MaxFaults  \* bounds

VARIABLES
    disk,      \* quota-v3.json: [settings, log]
    writable,  \* it can be read and saved
    stored,    \* quota_store_cache, or None
    runtime,   \* ambient::Runtime
    world,     \* what a check observes
    answer,    \* what the last check told
    told,      \* ghost: how often a key was told since it could be told again
    heard,     \* ghost: keys a check of this baseline did not find active
    clock, edits, faults

alertVars == <<disk, writable, stored, runtime, world, answer, told, heard, clock, edits, faults>>

Rules == Budgets \cup LiveRules
Keys == Rules \cup Conditions

Hour(t) == t % DayLength

InQuietHours(range, hour) ==
    /\ range # None /\ range[1] # range[2]
    /\ IF range[1] < range[2] THEN range[1] <= hour /\ hour < range[2]
                              ELSE hour >= range[1] \/ hour < range[2]

\* settings: [rules : each rule's revision or 0, on, quiet]; entries of the log.
Armed(key, at) == [key |-> key, at |-> at, told |-> FALSE]
Recent(key, at) == [key |-> key, at |-> at, told |-> TRUE]
IsArmed(log, key) == \E e \in log : e.key = key /\ ~e.told
Disarm(log, keys) == {e \in log : e.told \/ e.key \notin keys}

DefaultRuntime ==
    [initialized |-> FALSE, failed |-> FALSE, baseline |-> FALSE, last |-> None,
     quiet |-> FALSE, budgets |-> None]

\* The live rule applies to exactly one reading: of the approval it was made
\* under, recent, complete and not in the future.
CurrentWindow(s, rule) ==
    LET a == world.account
    IN  IF \/ a.busy \/ a.approval # s.rules[rule] \/ a.error
           \/ a.observed = None \/ a.observed > clock \/ clock - a.observed > LiveFresh
        THEN "unknown" ELSE a.value

\* The value of a rule as a check sees it; a rule that is off is not looked at.
CurrentValue(s, rule, due) ==
    CASE s.rules[rule] = 0 -> "unknown"
      [] rule \in LiveRules -> CurrentWindow(s, rule)
      [] OTHER -> IF due THEN world.value[rule] ELSE "unknown"

\* A bug: a reading that cannot be had counts as a drop.
ValueOrBelow(s, rule, due) ==
    IF rule \in LiveRules /\ CurrentWindow(s, rule) = "unknown" THEN "below" ELSE CurrentValue(s, rule, due)

Value(s, rule, due) == CurrentValue(s, rule, due)

\* evaluate_alerts over the given rules: the log, and the crossings to tell.
EvaluateAlerts(rules, value, on, quiet, log, now) ==
    LET crossed == {r \in rules : value[r] = "above" /\ ~IsArmed(log, r)}
    IN  [log |-> Disarm(log, {r \in rules : value[r] = "below"}) \cup {Armed(r, now) : r \in crossed},
         alerts |-> IF on /\ ~quiet THEN crossed ELSE {}]

\* evaluate_live_account_alerts: what was observed in quiet hours is consumed.
EvaluateLive(value, s, log, now) ==
    LET quiet == InQuietHours(s.quiet, Hour(now))
        observed == world.account.observed # None /\ InQuietHours(s.quiet, Hour(world.account.observed))
    IN  EvaluateAlerts(LiveRules, value, s.on /\ ~observed, quiet, log, now)

\* ambient::evaluate: an active condition is armed again by every check.
EvaluateAmbient(active, resolved, s, log, rt, now) ==
    LET telling(seen) == /\ rt.initialized /\ ~rt.failed /\ s.on
                         /\ ~InQuietHours(s.quiet, Hour(now)) /\ ~InQuietHours(s.quiet, Hour(seen))
                         /\ seen <= now
        tell(kept) == {c \in active : /\ ~IsArmed(kept, c) /\ telling(world.condition[c].observed)
                                      /\ c \in Signals => now - world.condition[c].observed <= 1}
        rearmed(kept, told_now) ==
            [log |-> Disarm(kept, active) \cup {Armed(c, now) : c \in active} \cup {Recent(c, now) : c \in told_now},
             alerts |-> told_now]
        over(kept) == rearmed(kept, tell(kept))
    IN  over(Disarm(log, resolved))

\* prune_log: by age and by number, except what live rules are armed by.
PruneLog(s, log, now) ==
    LET without(young, byAge, n) == young \ {byAge[i] : i \in 1..(IF n > Len(byAge) THEN Len(byAge) ELSE n)}
        capped(young, excess) ==
            IF excess <= 0 THEN young ELSE without(young, SetToSortSeq(young, LAMBDA d, e : d.at < e.at), excess)
        kept(live, young) == live \cup capped(young, Cardinality(live \cup young) - MaxLog)
        of(live) == kept(live, {e \in log \ live : now - e.at <= LogRetention})
    IN  of({e \in log : ~e.told /\ e.key \in LiveRules /\ s.rules[e.key] # 0})

DefaultSettings == [rules |-> [r \in Rules |-> 0], on |-> FALSE, quiet |-> None]

\* quota_store: what cannot be read is the default, and nothing is told by it.
QuotaStore == IF stored # None THEN stored
              ELSE IF writable THEN disk ELSE [settings |-> DefaultSettings, log |-> {}]

-----------------------------------------------------------------------------
AlertsInit ==
    /\ \E v \in {0, 1} :
         disk = [settings |-> [rules |-> [r \in Rules |-> v], on |-> TRUE, quiet |-> None], log |-> {}]
    /\ writable = TRUE /\ stored = None /\ runtime = DefaultRuntime
    /\ world = [value |-> [b \in Budgets |-> "below"],
                account |-> [approval |-> 1, busy |-> FALSE, error |-> FALSE, observed |-> None, value |-> "below"],
                condition |-> [c \in Conditions |-> [state |-> "unknown", observed |-> 0]]]
    /\ answer = {} /\ told = [k \in Keys |-> 0] /\ heard = {}
    /\ clock = 0 /\ edits = 0 /\ faults = 0

Observes(w) ==
    /\ world' = w
    /\ UNCHANGED <<disk, writable, stored, runtime, answer, told, heard, clock, edits, faults>>

\* The ledger, the transcripts, the providers and the live account move.
BudgetMoves == \E b \in Budgets, v \in {"below", "above", "unknown"} :
    v # world.value[b] /\ Observes([world EXCEPT !.value[b] = v])
AccountIsPolled == \E v \in {"below", "above"} :
    Observes([world EXCEPT !.account.observed = clock, !.account.value = v, !.account.error = FALSE])
AccountFails == ~world.account.error /\ Observes([world EXCEPT !.account.error = TRUE])
ConditionChanges == \E c \in Conditions, st \in {"active", "resolved", "unknown"} :
    /\ st # world.condition[c].state
    /\ c \in Signals => st = "active"
    /\ Observes([world EXCEPT !.condition[c] = [state |-> st, observed |-> clock]])

\* The clock advances, by more than the check's interval when the host sleeps.
ClockMoves == \E d \in {1, 2} :
    /\ clock + d <= MaxClock
    /\ clock' = clock + d
    /\ UNCHANGED <<disk, writable, stored, runtime, world, answer, told, heard, edits, faults>>

DiskFails ==
    /\ writable' = ~writable
    /\ faults' = IF writable THEN faults + 1 ELSE faults
    /\ faults' <= MaxFaults
    /\ UNCHANGED <<disk, stored, runtime, world, answer, told, heard, clock, edits>>

\* After a pause of the host, or quiet hours, a check is a baseline again.
Resumed(rt, s) ==
    \/ rt.last # None /\ clock - rt.last > 1
    \/ rt.quiet /\ ~InQuietHours(s.quiet, Hour(clock))

BudgetsDue(rt) == rt.budgets = None \/ clock - rt.budgets >= 1 \/ rt.failed

\* A bug: a pause is not noticed.
BeginAnyway(rt, s) ==
    [rt EXCEPT !.last = clock, !.quiet = InQuietHours(s.quiet, Hour(clock)),
               !.budgets = IF BudgetsDue(rt) THEN clock ELSE @]

\* The runtime at the start of a check.
Begin(rt, s) ==
    [rt EXCEPT !.initialized = @ /\ ~Resumed(rt, s), !.last = clock,
               !.quiet = InQuietHours(s.quiet, Hour(clock)),
               !.budgets = IF BudgetsDue(rt) THEN clock ELSE @]

\* persist_quota_notification_log: the settings the check used must still hold.
Persists(store) == writable /\ disk.settings = store.settings

\* A bug: the alerts are delivered although the log could not be saved.
AnyAnswer(store, alerts) == alerts

Answer(store, alerts) == IF Persists(store) THEN alerts ELSE {}

\* What a save loses: a process that started while quota-v3.json could not be
\* read goes on with the defaults and an empty log, and saves that log once the
\* file can be read and holds the default settings.
Lost(store) == {k \in Keys : IsArmed(disk.log, k) /\ ~IsArmed(store.log, k)}

\* What a save lets go of, by its age or by the size of the log.
LetGo(full, log) == {k \in Keys : IsArmed(full, k) /\ ~IsArmed(log, k)}

\* What a check has seen back below, or resolved.
Over(s) ==
    {r \in Rules : s.rules[r] # 0 /\ (IF r \in LiveRules THEN CurrentWindow(s, r) ELSE world.value[r]) = "below"}
    \cup {c \in Conditions : world.condition[c].state = "resolved"}

ToldNow(keys, over, gone) ==
    LET counted(k) == (IF k \in over THEN 0 ELSE told[k]) + (IF k \in keys THEN 1 ELSE 0)
    IN  [k \in Keys |-> IF k \in gone /\ counted(k) = 1 THEN 0 ELSE counted(k)]

Values(s, due) == [r \in Rules |-> Value(s, r, due)]

\* The end of both checks: the log is pruned and saved with what is told.
Record(store, keys, full, log) ==
    /\ answer' = Answer(store, keys)
    /\ disk' = IF Persists(store) THEN [disk EXCEPT !.log = log] ELSE disk
    /\ stored' = IF Persists(store) THEN disk' ELSE store
    /\ told' = IF Persists(store)
               THEN ToldNow(answer', Over(store.settings) \cup Lost(store), LetGo(full, log))
               ELSE ToldNow(answer', Over(store.settings), {})
    /\ UNCHANGED <<writable, world, clock, edits, faults>>
Tell(store, keys, full) == Record(store, keys, full, PruneLog(store.settings, full, clock))

InState(st) == {c \in Conditions : world.condition[c].state = st}

Crossings(rt, budgets, live) ==
    IF rt.failed \/ rt.baseline THEN {}
    ELSE budgets.alerts \cup (IF rt.initialized THEN live.alerts ELSE {})

TellAmbient(store, ambient, crossings) ==
    Tell(store, ambient.alerts \cup crossings, ambient.log \cup {Recent(k, clock) : k \in crossings})

\* check_ambient_alerts: budgets, then live rules, then conditions.
EvaluateAll(store, s, rt, value) ==
    LET conditions(budgets, live) ==
            TellAmbient(store, EvaluateAmbient(InState("active"), InState("resolved"), s, live.log, rt, clock),
                        Crossings(rt, budgets, live))
        rules(budgets) == conditions(budgets, EvaluateLive(value, s, budgets.log, clock))
    IN  rules(EvaluateAlerts(Budgets, value, s.on, rt.quiet, store.log, clock))

CheckAmbient ==
    LET check(store, rt) ==
          /\ EvaluateAll(store, store.settings, rt, Values(store.settings, BudgetsDue(runtime)))
          /\ runtime' = [rt EXCEPT !.initialized = TRUE, !.failed = ~Persists(store), !.baseline = @ /\ ~Persists(store)]
          /\ heard' = (IF runtime.initialized /\ ~Resumed(runtime, store.settings) THEN heard ELSE {})
                       \cup (Conditions \ InState("active"))
        with(store) == check(store, Begin(runtime, store.settings))
    IN  with(QuotaStore)

\* check_quota_budgets: the same evaluation of the budgets alone.
CheckBudgets ==
    LET tell(store, budgets) == Tell(store, budgets.alerts, budgets.log)
        check(store, s) ==
          /\ \E b \in Budgets : s.rules[b] # 0
          /\ tell(store, EvaluateAlerts(Budgets, Values(s, TRUE), s.on, InQuietHours(s.quiet, Hour(clock)), store.log, clock))
        with(store) == check(store, store.settings)
    IN  with(QuotaStore) /\ UNCHANGED <<runtime, heard>>

\* A bug: an edit of one rule makes the log forget them all.
KeptAmbient(log, changed) == {e \in log : e.told \/ e.key \in Conditions}

\* What the log keeps of when rules change.
KeptLog(log, changed) == {e \in log : e.told \/ e.key \notin changed}

\* save_quota_config, over the settings the caller last saw.
SaveQuotaConfig(s) ==
    LET changed == {r \in Rules : s.rules[r] # disk.settings.rules[r]}
        policy == s.on # disk.settings.on \/ s.quiet # disk.settings.quiet \/ changed \cap LiveRules # {}
    IN  /\ writable /\ edits < MaxEdits /\ s # disk.settings
        /\ disk' = [settings |-> s, log |-> KeptLog(disk.log, changed)]
        /\ stored' = disk'
        /\ runtime' = IF policy THEN [runtime EXCEPT !.initialized = FALSE, !.baseline = TRUE, !.budgets = None]
                      ELSE runtime
        /\ told' = [k \in Keys |-> IF k \in changed THEN 0 ELSE told[k]]
        /\ edits' = edits + 1
        /\ UNCHANGED <<writable, world, answer, heard, clock, faults>>

EditSettings ==
    LET s == disk.settings IN
    \/ \E r \in Rules, v \in {0, 1, 2} : SaveQuotaConfig([s EXCEPT !.rules[r] = v])
    \/ SaveQuotaConfig([s EXCEPT !.on = ~@])
    \/ SaveQuotaConfig([s EXCEPT !.quiet = IF @ = None THEN QuietRange ELSE None])

\* The process stops, perhaps before what it persisted was delivered.
Crash ==
    /\ faults < MaxFaults
    /\ stored' = None /\ runtime' = DefaultRuntime /\ answer' = {} /\ heard' = {}
    /\ faults' = faults + 1
    /\ UNCHANGED <<disk, writable, world, told, clock, edits>>

AlertsNext ==
    \/ BudgetMoves \/ AccountIsPolled \/ AccountFails \/ ConditionChanges
    \/ ClockMoves \/ DiskFails \/ CheckAmbient \/ CheckBudgets \/ EditSettings \/ Crash

-----------------------------------------------------------------------------
\* A crossing is told again only after a check has seen the value back below or
\* the condition resolved, its rule was edited, the log has let it go by its age or
\* size, or a process that could not read quota-v3.json when it started has saved
\* its empty log over the file; never because of what is unknown, of a stop of the
\* process, of a save that failed or of an edit of something else.
ToldOnce == \A k \in Keys : told[k] <= 1

\* A start, a pause of the host, a policy edit or the end of quiet hours is no
\* occasion for news: a condition is told only if an earlier check of the same
\* baseline found it inactive, and nothing is told while a save has failed.
NoBacklog ==
    [][answer' # answer =>
         /\ answer' \cap Conditions # {} => runtime.initialized /\ ~Resumed(runtime, disk.settings)
         /\ answer' \cap Conditions \subseteq heard
         /\ runtime.failed /\ runtime' # runtime => answer' = {}]_alertVars
=============================================================================
