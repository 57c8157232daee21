---------------------------- MODULE QuotaConsent ----------------------------
(***************************************************************************)
(* Consent to poll the quota of a Codex account (quota_accounts.rs).        *)
(*                                                                         *)
(* Every running instance of the application keeps a Runtime behind a      *)
(* mutex; the consent file on disk is shared by all of them.  An operation *)
(* reloads the file first.  identify and poll release the mutex while the  *)
(* command line answers; approve and change keep it while they save, but   *)
(* another instance may save between their reload and their own save.      *)
(*                                                                         *)
(* A consent is [at, enabled]: the label is chosen once with the approval  *)
(* time `at', which no two approvals share, so equal files are equal       *)
(* functions.  The generation of the code is compared with the one a       *)
(* request captured and nothing else, so the request carries `fresh': the  *)
(* generation is still the captured one.  Time is not modelled: a poll may *)
(* be due, and a candidate expired, at any moment.                         *)
(***************************************************************************)
EXTENDS Naturals, FiniteSets, TLC

CONSTANTS Instances, Accounts, NoAccount, NoFile,
          MaxAccounts,   \* MAX_ACCOUNTS: consents a file may hold
          MaxApprovals   \* bound: approvals, each with its own time

ASSUME BoundsAssumption ==
    /\ MaxAccounts \in Nat \ {0}
    /\ MaxApprovals \in Nat \ {0}

ASSUME NamesAssumption ==
    /\ NoAccount \notin Accounts
    /\ IsFiniteSet(Accounts)

VARIABLES
    disk,      \* the consents in quota-live-v1.json
    readable,  \* read_file succeeds
    runtime,   \* Runtime of each instance
    request,   \* the identify or poll each instance has under way
    saving,    \* the approve or change that holds the mutex of each instance
    denied,    \* ghost: a pause or revoke failed and nothing was enabled since
    approvals  \* approvals begun: the clock they take their time from

vars == <<disk, readable, runtime, request, saving, denied, approvals>>

Times == 1..MaxApprovals
Consent == [at : Times, enabled : BOOLEAN]
Files == UNION {[known -> Consent] : known \in SUBSET Accounts}

\* What a poll brings back: the account, and the approval it was started under.
Reading == [account : Accounts, at : Times]
NoReading == [account |-> NoAccount, at |-> 0]

Runtimes ==
    [loaded : BOOLEAN, file : Files, durable_file : Files \cup {NoFile},
     locally_paused : BOOLEAN, configuration_error : BOOLEAN,
     candidate : Accounts \cup {NoAccount}, reading : Reading \cup {NoReading}]

Requests == [kind : {"none", "identify", "poll"}, fresh : BOOLEAN,
             account : Accounts \cup {NoAccount}, at : Times \cup {0}]
NoRequest == [kind |-> "none", fresh |-> FALSE, account |-> NoAccount, at |-> 0]

Saves == [kind : {"none", "approve", "enable", "pause", "revoke"},
          account : Accounts \cup {NoAccount}, file : Files]
NoFileYet == [a \in {} |-> [at |-> 1, enabled |-> FALSE]]
NoSave == [kind |-> "none", account |-> NoAccount, file |-> NoFileYet]

DefaultRuntime ==
    [loaded |-> FALSE, file |-> NoFileYet, durable_file |-> NoFile,
     locally_paused |-> FALSE, configuration_error |-> FALSE,
     candidate |-> NoAccount, reading |-> NoReading]

-----------------------------------------------------------------------------
Enabled(file) == {a \in DOMAIN file : file[a].enabled}

\* Every consent is kept and none is enabled.
AllPaused(file) == [a \in DOMAIN file |-> [file[a] EXCEPT !.enabled = FALSE]]

\* invalidate: whatever was observed under the consent that is left behind.
Invalidate(rt) == [rt EXCEPT !.reading = NoReading, !.candidate = NoAccount]

\* Whether load finds something that ends the present generation.
Invalidates(rt) ==
    IF readable THEN ~rt.loaded \/ rt.durable_file /= disk
                ELSE ~rt.loaded \/ ~rt.configuration_error

\* load, without its first and its last line.
Reread(rt) ==
    IF Invalidates(rt)
    THEN IF readable
         THEN [Invalidate(rt) EXCEPT !.file = disk, !.durable_file = disk]
         ELSE [Invalidate(rt) EXCEPT !.file = AllPaused(rt.file)]
    ELSE rt

\* A bug: the local denial is forgotten.
EnforceNothing(rt) == rt

\* enforce_local_pause
EnforceLocalPause(rt) ==
    [rt EXCEPT !.file = IF rt.locally_paused THEN AllPaused(rt.file) ELSE rt.file]

\* load: the runtime after the consent file was read again.
Load(rt) == EnforceLocalPause(
    [Reread(rt) EXCEPT !.configuration_error = ~readable, !.loaded = TRUE])

\* The generation a request captured is left behind by a load that invalidates.
Renewed(i) ==
    [request[i] EXCEPT !.fresh = request[i].fresh /\ ~Invalidates(runtime[i])]

\* The mutex of the instance is free.
Unlocked(i) == saving[i].kind = "none"
Busy(i) == request[i].kind /= "none"

-----------------------------------------------------------------------------
Init ==
    /\ disk \in {NoFileYet} \cup {[a \in {b} |-> [at |-> 1, enabled |-> TRUE]] : b \in Accounts}
    /\ approvals = Cardinality(DOMAIN disk)
    /\ readable = TRUE
    /\ runtime = [i \in Instances |-> DefaultRuntime]
    /\ request = [i \in Instances |-> NoRequest]
    /\ saving = [i \in Instances |-> NoSave]
    /\ denied = [i \in Instances |-> FALSE]

\* status, and every other operation that returns early after its load:
\* identify while busy, approve without a candidate, change of an unknown
\* account, a poll that is not due.
Status(i) ==
    /\ Unlocked(i)
    /\ runtime' = [runtime EXCEPT ![i] = Load(@)]
    /\ request' = [request EXCEPT ![i] = Renewed(i)]
    /\ UNCHANGED <<disk, readable, saving, denied, approvals>>

\* The readings status hands out: the reading of an account that is enabled.
Shown(rt) == {a \in Enabled(rt.file) : rt.reading.account = a}

-----------------------------------------------------------------------------
\* identify, up to the release of the mutex.
IdentifyBegin(i) ==
    LET rt == Load(runtime[i]) IN
    /\ Unlocked(i)
    /\ ~rt.configuration_error
    /\ ~Busy(i)
    /\ runtime' = [runtime EXCEPT ![i] = [rt EXCEPT !.candidate = NoAccount]]
    /\ request' = [request EXCEPT ![i] = [NoRequest EXCEPT !.kind = "identify", !.fresh = TRUE]]
    /\ UNCHANGED <<disk, readable, saving, denied, approvals>>

\* identify after the command line answered: `found' is NoAccount on an error.
IdentifyEnd(i, found) ==
    LET rt == Load(runtime[i]) IN
    /\ Unlocked(i)
    /\ request[i].kind = "identify"
    /\ runtime' = [runtime EXCEPT ![i] =
                     IF Renewed(i).fresh /\ found /= NoAccount
                     THEN [rt EXCEPT !.candidate = found] ELSE rt]
    /\ request' = [request EXCEPT ![i] = NoRequest]
    /\ UNCHANGED <<disk, readable, saving, denied, approvals>>

-----------------------------------------------------------------------------
\* poll, up to the release of the mutex.
PollBegin(i) ==
    LET rt == Load(runtime[i]) IN
    /\ Unlocked(i)
    /\ ~rt.configuration_error
    /\ ~Busy(i)
    /\ \E a \in Enabled(rt.file) :
          request' = [request EXCEPT ![i] =
                        [kind |-> "poll", fresh |-> TRUE, account |-> a, at |-> rt.file[a].at]]
    /\ runtime' = [runtime EXCEPT ![i] = rt]
    /\ UNCHANGED <<disk, readable, saving, denied, approvals>>

\* A bug: the answer is kept whatever happened meanwhile.
FinishReadAlways(i, rt, ok) ==
    [rt EXCEPT !.reading = IF ok THEN [account |-> request[i].account, at |-> request[i].at]
                                 ELSE NoReading]

\* A bug: an error is kept as a reading of no account.
FinishReadError(i, rt, ok) ==
    IF Renewed(i).fresh
    THEN [rt EXCEPT !.reading = [account |-> IF ok THEN request[i].account ELSE NoAccount,
                                 at |-> request[i].at]]
    ELSE rt

\* finish_read
FinishRead(i, rt, ok) ==
    IF Renewed(i).fresh
    THEN [rt EXCEPT !.reading = IF ok THEN [account |-> request[i].account, at |-> request[i].at]
                                      ELSE NoReading]
    ELSE rt

\* poll after the command line answered, with a reading of this account or an error.
PollEnd(i, ok) ==
    /\ Unlocked(i)
    /\ request[i].kind = "poll"
    /\ runtime' = [runtime EXCEPT ![i] = FinishRead(i, Load(runtime[i]), ok)]
    /\ request' = [request EXCEPT ![i] = NoRequest]
    /\ UNCHANGED <<disk, readable, saving, denied, approvals>>

-----------------------------------------------------------------------------
\* The consents approve saves: this account enabled, every other one paused.
Approved(file, a) ==
    [b \in DOMAIN file \cup {a} |->
        IF b = a THEN [at |-> approvals + 1, enabled |-> TRUE]
                 ELSE [file[b] EXCEPT !.enabled = FALSE]]

\* approve, up to the save.
ApproveBegin(i, a) ==
    LET rt == Load(runtime[i]) IN
    /\ approvals < MaxApprovals
    /\ Unlocked(i)
    /\ ~rt.configuration_error
    /\ rt.candidate = a
    /\ runtime' = [runtime EXCEPT ![i] = rt]
    /\ request' = [request EXCEPT ![i] = Renewed(i)]
    /\ saving' = [saving EXCEPT ![i] = [kind |-> "approve", account |-> a, file |-> Approved(rt.file, a)]]
    /\ approvals' = approvals + 1
    /\ UNCHANGED <<disk, readable, denied>>

\* The consents change saves.
Changed(file, a, kind) ==
    LET after == [b \in DOMAIN file |->
                    IF b = a THEN [file[b] EXCEPT !.enabled = (kind = "enable")]
                    ELSE IF kind = "enable" THEN [file[b] EXCEPT !.enabled = FALSE]
                    ELSE file[b]]
    IN  IF kind = "revoke" THEN [b \in DOMAIN file \ {a} |-> after[b]] ELSE after

\* change, up to the save: polling stops here whether the save succeeds or not.
ChangeBegin(i, a, kind) ==
    LET rt == Load(runtime[i]) IN
    /\ Unlocked(i)
    /\ ~rt.configuration_error
    /\ a \in DOMAIN rt.file
    /\ runtime' = [runtime EXCEPT ![i] = [Invalidate(rt) EXCEPT !.file = AllPaused(rt.file)]]
    /\ request' = [request EXCEPT ![i].fresh = FALSE]
    /\ saving' = [saving EXCEPT ![i] = [kind |-> kind, account |-> a, file |-> Changed(rt.file, a, kind)]]
    /\ UNCHANGED <<disk, readable, denied, approvals>>

\* validate_file: at most MAX_ACCOUNTS consents, one of them enabled.
ValidFile(file) ==
    /\ Cardinality(DOMAIN file) <= MaxAccounts
    /\ Cardinality(Enabled(file)) <= 1

\* A bug: the file is replaced without a look at what it holds now.
MaySaveBlindly(i) == ValidFile(saving[i].file)

\* save_file accepts: the file is valid and the disk holds what this instance saw.
MaySave(i) ==
    /\ ValidFile(saving[i].file)
    /\ readable
    /\ disk = runtime[i].durable_file

\* approve after a successful save.
ApproveSaved(i) ==
    /\ saving[i].kind = "approve"
    /\ MaySave(i)
    /\ disk' = saving[i].file
    /\ runtime' = [runtime EXCEPT ![i] =
         [Invalidate(@) EXCEPT !.durable_file = saving[i].file, !.file = saving[i].file,
                               !.locally_paused = FALSE]]
    /\ request' = [request EXCEPT ![i].fresh = FALSE]
    /\ denied' = [denied EXCEPT ![i] = FALSE]
    /\ saving' = [saving EXCEPT ![i] = NoSave]
    /\ UNCHANGED <<readable, approvals>>

\* approve whose save was refused or failed: nothing else changes.
ApproveRefused(i) ==
    /\ saving[i].kind = "approve"
    /\ saving' = [saving EXCEPT ![i] = NoSave]
    /\ UNCHANGED <<disk, readable, runtime, request, denied, approvals>>

\* change after a successful save: only an enable lifts the local pause.
ChangeSaved(i) ==
    /\ saving[i].kind \in {"enable", "pause", "revoke"}
    /\ MaySave(i)
    /\ disk' = saving[i].file
    /\ runtime' = [runtime EXCEPT ![i] = EnforceLocalPause(
         [runtime[i] EXCEPT !.durable_file = saving[i].file, !.file = saving[i].file,
             !.locally_paused = runtime[i].locally_paused /\ saving[i].kind /= "enable"])]
    /\ denied' = [denied EXCEPT ![i] = @ /\ saving[i].kind /= "enable"]
    /\ saving' = [saving EXCEPT ![i] = NoSave]
    /\ UNCHANGED <<readable, request, approvals>>

\* change whose save was refused or failed: a local denial.
ChangeRefused(i) ==
    /\ saving[i].kind \in {"enable", "pause", "revoke"}
    /\ runtime' = [runtime EXCEPT ![i].locally_paused = TRUE]
    /\ denied' = [denied EXCEPT ![i] = @ \/ saving[i].kind /= "enable"]
    /\ saving' = [saving EXCEPT ![i] = NoSave]
    /\ UNCHANGED <<disk, readable, request, approvals>>

-----------------------------------------------------------------------------
\* The file becomes unreadable, or readable again with what it held.
Break ==
    /\ readable
    /\ readable' = FALSE
    /\ UNCHANGED <<disk, runtime, request, saving, denied, approvals>>

Mend ==
    /\ ~readable
    /\ readable' = TRUE
    /\ UNCHANGED <<disk, runtime, request, saving, denied, approvals>>

\* The instance is closed or killed at any point and started again.
Restart(i) ==
    /\ runtime' = [runtime EXCEPT ![i] = DefaultRuntime]
    /\ request' = [request EXCEPT ![i] = NoRequest]
    /\ saving' = [saving EXCEPT ![i] = NoSave]
    /\ denied' = [denied EXCEPT ![i] = FALSE]
    /\ UNCHANGED <<disk, readable, approvals>>

Next ==
    \/ \E i \in Instances :
          \/ Status(i)
          \/ IdentifyBegin(i)
          \/ \E a \in Accounts \cup {NoAccount} : IdentifyEnd(i, a)
          \/ PollBegin(i)
          \/ \E ok \in BOOLEAN : PollEnd(i, ok)
          \/ \E a \in Accounts : ApproveBegin(i, a)
          \/ \E a \in Accounts, kind \in {"enable", "pause", "revoke"} : ChangeBegin(i, a, kind)
          \/ ApproveSaved(i)
          \/ ApproveRefused(i)
          \/ ChangeSaved(i)
          \/ ChangeRefused(i)
          \/ Restart(i)
    \/ Break
    \/ Mend

Spec == Init /\ [][Next]_vars

-----------------------------------------------------------------------------
TypeOK ==
    /\ disk \in Files
    /\ readable \in BOOLEAN
    /\ runtime \in [Instances -> Runtimes]
    /\ request \in [Instances -> Requests]
    /\ saving \in [Instances -> Saves]
    /\ denied \in [Instances -> BOOLEAN]
    /\ approvals \in 0..MaxApprovals

\* What a status would hand out now was polled under the very approval that
\* the file on disk holds, enabled: no instance shows a reading after another
\* one paused or revoked the account, nor the reading of an earlier approval
\* after a new one, however long the request was under way
\* (quota_accounts.rs:236, 282 and 500).
ShownHasConsent ==
    \A i \in Instances : Unlocked(i) =>
        LET rt == Load(runtime[i]) IN
        \A a \in Shown(rt) :
            readable /\ a \in Enabled(disk) /\ disk[a].at = rt.reading.at

\* A save cannot restore what another instance took away: an account is
\* enabled on disk, or enters the file, only by the approval or the enabling of
\* that account, and only its approval gives it a new approval time
\* (save_file, quota_accounts.rs:200).
NothingIsRestored ==
    [][\A a \in DOMAIN disk' :
         \/ a \in DOMAIN disk /\ disk'[a].at = disk[a].at
            /\ (disk'[a].enabled => disk[a].enabled \/ \E i \in Instances :
                   ChangeSaved(i) /\ saving[i].kind = "enable" /\ saving[i].account = a)
         \/ \E i \in Instances : ApproveSaved(i) /\ saving[i].account = a]_vars

\* After a pause or a revoke that could not be saved, this instance has no
\* account it would poll or show, whatever other instances save and however
\* often the file is read again (change, quota_accounts.rs:454).
FailedDenialHolds ==
    \A i \in Instances : denied[i] =>
        /\ Enabled(Load(runtime[i]).file) = {}
        /\ request[i].kind = "poll" => ~request[i].fresh

\* "Enable/disable is account-scoped" (quota_accounts.rs:408): a saved pause or
\* revoke leaves the durable consent of the other accounts as it was.
ChangeIsAccountScoped ==
    [][\A i \in Instances :
         (ChangeSaved(i) /\ saving[i].kind \in {"pause", "revoke"}) =>
            \A b \in DOMAIN disk \ {saving[i].account} :
               b \in DOMAIN disk' /\ disk'[b] = disk[b]]_vars

\* Instances are interchangeable, and so are accounts.
Symmetry == Permutations(Instances) \cup Permutations(Accounts)
=============================================================================
