--------------------------- MODULE ActionExecutor ---------------------------
(***************************************************************************)
(* The journalled file replacement of action_executor.rs: apply, batch,    *)
(* undo and recover over target files that other programs also edit, with  *)
(* I/O failures and crashes at every step.  One executor runs at a time;   *)
(* its production gate is closed, so no second caller exists.              *)
(*                                                                         *)
(* A hash stands for the bytes it is of: contents are compared as values.  *)
(* The events of one transaction share the fields of its record, so a      *)
(* journal is the set of its event suffixes and one record.                *)
(***************************************************************************)
EXTENDS Integers, Sequences, FiniteSets, TLC

CONSTANTS Targets,      \* the files adapters may resolve
          Contents,     \* what a file can hold
          NoContent,    \* an absent or incomplete backup
          MaxIds,       \* transactions begun
          MaxItems,     \* items of one batch (16 in the code)
          MaxEdits,     \* edits by other programs
          MaxFailures,  \* I/O errors
          MaxCrashes    \* process deaths

ASSUME BoundsAssumption ==
    /\ MaxIds \in Nat /\ MaxItems \in Nat \ {0}
    /\ MaxEdits \in Nat /\ MaxFailures \in Nat /\ MaxCrashes \in Nat
    /\ NoContent \notin Contents

VARIABLES file,     \* contents of every target
          backup,   \* the backup file of every transaction
          events,   \* the journal events published for every transaction
          record,   \* the arguments of every transaction, which its events repeat
          next,     \* the next id (action_id)
          call,     \* the running call
          wrote,    \* who wrote each target last, and how   (history)
          touched,  \* transactions whose target was edited since they read it (history)
          batch,    \* the last batch's outcome              (history)
          edits, failures, crashes

journal == <<backup, events>>
history == <<wrote, touched, batch>>
bounds  == <<edits, failures, crashes>>
vars    == <<file, backup, events, record, next, call, wrote, touched, batch,
             edits, failures, crashes>>

Ids      == 1..MaxIds
Suffixes == {"prepared", "applied", "aborted", "conflict", "undo-conflict", "undone"}
Items    == [target : Targets, before : Contents, after : Contents]
Batches  == UNION {[1..n -> Items] : n \in 1..MaxItems}

\* apply_transaction, apply_batch_transaction with its two roll-back stages,
\* undo_transaction and recover_transaction.
Tasks == {"none", "apply", "batch", "attempt", "unwind", "undo", "recover"}
Steps == {"idle", "read", "backup", "prepare", "revalidate", "replace",
          "verify", "publish", "rollback", "recover", "undo check",
          "undo replace", "undo verify", "undo publish"}

Idle == [pc |-> "idle", task |-> "none", id |-> 0, items |-> <<>>,
         done |-> <<>>, raced |-> FALSE]

NoBatch == [outcome |-> "none", ids |-> {}, unrestored |-> {}]

Init ==
    /\ file \in [Targets -> Contents]
    /\ backup = [i \in Ids |-> NoContent]
    /\ events = [i \in Ids |-> {}]
    /\ record = [i \in Ids |-> <<>>]
    /\ next = 1
    /\ call = Idle
    /\ wrote = [t \in Targets |-> [by |-> 0, how |-> "edit"]]
    /\ touched = {}
    /\ batch = NoBatch
    /\ edits = 0 /\ failures = 0 /\ crashes = 0

-----------------------------------------------------------------------------
(* The journal.                                                            *)

Prepared == {i \in Ids : "prepared" \in events[i]}

\* A journal that validate_journal accepts.
ValidJournal(ev) ==
    /\ "prepared" \in ev
    /\ ~({"aborted", "conflict"} \subseteq ev)
    /\ "applied" \in ev => ev \cap {"aborted", "conflict"} = {}
    /\ "applied" \notin ev => ev \cap {"undo-conflict", "undone"} = {}

\* write_event refuses an event that exists or that makes the journal invalid.
MayPublish(i, suffix) ==
    /\ events[i] # {} => ValidJournal(events[i])
    /\ suffix \notin events[i]
    /\ ValidJournal(events[i] \cup {suffix})

\* The event is written whole or not at all: it is staged, synchronised and
\* renamed into place.
Publish(i, suffix) == events' = [events EXCEPT ![i] = @ \cup {suffix}]

BackupIsExact(i) == backup[i] = record[i].before

\* An I/O error.  It counts against the bound.
Fails == /\ failures < MaxFailures
         /\ failures' = failures + 1
         /\ UNCHANGED <<edits, crashes>>

Succeeds == UNCHANGED bounds

-----------------------------------------------------------------------------
(* How a call goes on after one of its transactions ended.                 *)

Target == record[call.id].target
Item   == record[call.id]

\* The next transaction that a failing batch rolls back, latest first, or the
\* return of the batch's error.
UnwindFrom(done) ==
    IF done = <<>>
    THEN Idle
    ELSE [call EXCEPT !.pc = "undo check", !.task = "unwind", !.id = done[Len(done)],
                      !.done = SubSeq(done, 1, Len(done) - 1)]

\* The transaction ended as the caller wanted.
Ends ==
    /\ call' = IF call.task \in {"attempt", "unwind"} THEN UnwindFrom(call.done) ELSE Idle
    /\ UNCHANGED batch

\* The transaction returned an error: a batch rolls back, a roll-back goes on
\* with the remaining transactions, everything else returns the error.
Errs ==
    \/ /\ call.task = "batch"
       /\ call' = [call EXCEPT !.pc = "rollback", !.task = "attempt"]
       /\ batch' = [batch EXCEPT !.outcome = "error"]
    \/ /\ call.task \in {"attempt", "unwind"}
       /\ call' = UnwindFrom(call.done)
       /\ batch' = [batch EXCEPT !.unrestored = @ \cup {call.id}]
    \/ /\ call.task \in {"apply", "undo", "recover"}
       /\ call' = Idle
       /\ UNCHANGED batch

Goto(pc) == /\ call' = [call EXCEPT !.pc = pc]
            /\ UNCHANGED batch

\* Mutant: the id is taken without advancing the counter.
BeginItemReusesId(task, items, done) ==
    /\ next <= MaxIds
    /\ record' = [record EXCEPT ![next] = Head(items)]
    /\ next' = next
    /\ touched' = touched \ {next}
    /\ call' = [pc |-> "read", task |-> task, id |-> next, items |-> Tail(items),
                done |-> done, raced |-> FALSE]

\* An item is begun with a fresh id.
BeginItem(task, items, done) ==
    /\ next <= MaxIds
    /\ record' = [record EXCEPT ![next] = Head(items)]
    /\ next' = next + 1
    /\ touched' = touched \ {next}
    /\ call' = [pc |-> "read", task |-> task, id |-> next, items |-> Tail(items),
                done |-> done, raced |-> FALSE]

-----------------------------------------------------------------------------
(* apply_transaction_with_id.                                              *)

\* A single apply.
Apply ==
    /\ call = Idle
    /\ \E item \in Items : BeginItem("apply", <<item>>, <<>>)
    /\ batch' = NoBatch
    /\ UNCHANGED <<file, journal, wrote, bounds>>

ApplyBatch ==
    /\ call = Idle
    /\ \E items \in Batches :
          /\ next + Len(items) - 1 <= MaxIds
          /\ BeginItem("batch", items, <<>>)
    /\ batch' = [NoBatch EXCEPT !.ids = {next}]
    /\ UNCHANGED <<file, journal, wrote, bounds>>

\* The target must hold what the caller expects; nothing is written otherwise.
ReadTarget ==
    /\ call.pc = "read"
    /\ \/ /\ file[Target] = Item.before
          /\ Goto("backup")
          /\ Succeeds
       \/ /\ file[Target] # Item.before
          /\ Errs
          /\ Succeeds
       \/ /\ Fails
          /\ Errs
    /\ UNCHANGED <<file, journal, record, next, wrote, touched>>

\* The bytes read are kept in a new private file and synchronised.
WriteBackup ==
    /\ call.pc = "backup"
    /\ \/ /\ Succeeds
          /\ backup' = [backup EXCEPT ![call.id] = Item.before]
          /\ Goto("prepare")
       \/ /\ Fails
          /\ UNCHANGED backup
          /\ Errs
    /\ UNCHANGED <<file, events, record, next, wrote, touched>>

\* Publishes an event and goes on, or fails before or after the rename.
PublishThen(suffix, Then) ==
    \/ /\ MayPublish(call.id, suffix)
       /\ Publish(call.id, suffix)
       /\ Succeeds
       /\ Then
    \/ /\ MayPublish(call.id, suffix)
       /\ Fails
       /\ \/ Publish(call.id, suffix)
          \/ UNCHANGED events
       /\ Errs
    \/ /\ ~MayPublish(call.id, suffix)
       /\ Succeeds
       /\ UNCHANGED events
       /\ Errs

PublishPrepared ==
    /\ call.pc = "prepare"
    /\ PublishThen("prepared", Goto("revalidate"))
    /\ UNCHANGED <<file, backup, record, next, wrote, touched>>

\* Mutant: the target is not read again before its replacement.
RevalidateNothing ==
    /\ call.pc = "revalidate"
    /\ call' = [call EXCEPT !.pc = "replace", !.raced = FALSE]
    /\ UNCHANGED <<file, journal, record, next, wrote, touched, batch, bounds>>

\* The second check of the target, right before its replacement.  A changed
\* target is recorded as a conflict.
Revalidate ==
    /\ call.pc = "revalidate"
    /\ \/ /\ file[Target] = Item.before
          /\ call' = [call EXCEPT !.pc = "replace", !.raced = FALSE]
          /\ Succeeds
          /\ UNCHANGED <<events, batch>>
       \/ /\ file[Target] # Item.before
          /\ PublishThen("conflict", Errs)
       \/ /\ Fails
          /\ Errs
          /\ UNCHANGED events
    /\ UNCHANGED <<file, backup, record, next, wrote, touched>>

\* atomic_replace: a staged file is renamed over the target.
AtomicReplace(content, how) ==
    /\ file' = [file EXCEPT ![Target] = content]
    /\ wrote' = [wrote EXCEPT ![Target] = [by |-> call.id, how |-> how]]

Replace ==
    /\ call.pc = "replace"
    /\ \/ /\ AtomicReplace(Item.after, "apply")
          /\ Goto("verify")
          /\ Succeeds
       \/ /\ Fails
          /\ Errs
          /\ UNCHANGED <<file, wrote>>
    /\ UNCHANGED <<journal, record, next, touched>>

\* The target is read back; what is not the replacement is somebody's edit.
Verify ==
    /\ call.pc = "verify"
    /\ \/ /\ file[Target] = Item.after
          /\ Goto("publish")
          /\ Succeeds
       \/ /\ file[Target] # Item.after
          /\ Errs
          /\ Succeeds
       \/ /\ Fails
          /\ Errs
    /\ UNCHANGED <<file, journal, record, next, wrote, touched>>

\* apply_batch_using goes on with the next item; the last one ends the call.
Applied ==
    \/ /\ call.items = <<>>
       /\ call' = Idle
       /\ batch' = IF call.task = "batch" THEN [batch EXCEPT !.outcome = "ok"] ELSE batch
       /\ UNCHANGED <<record, next, touched>>
    \/ /\ call.items # <<>>
       /\ BeginItem("batch", call.items, Append(call.done, call.id))
       /\ batch' = [batch EXCEPT !.ids = @ \cup {next}]

PublishApplied ==
    /\ call.pc = "publish"
    /\ \/ /\ MayPublish(call.id, "applied")
          /\ Publish(call.id, "applied")
          /\ Succeeds
          /\ Applied
       \/ /\ PublishThen("applied", FALSE)
          /\ UNCHANGED <<record, next, touched>>
    /\ UNCHANGED <<file, backup, wrote>>

-----------------------------------------------------------------------------
(* recover_transaction and rollback_failed_attempt.                        *)

\* Mutant: a journal without an applied event is taken for one that wrote nothing.
DecisionFromJournal(i) ==
    LET ev == events[i]
    IN  IF ~ValidJournal(ev) \/ ~BackupIsExact(i) THEN "invalid"
        ELSE IF "undone" \in ev THEN "undone"
        ELSE IF ev \cap {"conflict", "undo-conflict"} # {} THEN "conflict"
        ELSE IF "applied" \in ev THEN "applied"
        ELSE "aborted"

\* What recovery decides from the journal and the target.
Decision(i) ==
    LET ev == events[i]
        current == file[record[i].target]
    IN  IF ~ValidJournal(ev) \/ ~BackupIsExact(i) THEN "invalid"
        ELSE IF "undone" \in ev THEN "undone"
        ELSE IF ev \cap {"conflict", "undo-conflict"} # {} THEN "conflict"
        ELSE IF "aborted" \in ev THEN "aborted"
        ELSE IF current = record[i].before
             THEN IF "applied" \in ev THEN "undone" ELSE "aborted"
        ELSE IF current = record[i].after THEN "applied"
        ELSE "conflict"

\* Recovery ends the call, except that a failed batch item that turns out to
\* be applied is undone.
Recovered(decision) ==
    IF call.task = "attempt" /\ decision = "applied" THEN Goto("undo check") ELSE Ends

RecoverStep ==
    LET decision == Decision(call.id)
    IN  /\ call.pc = "recover"
        /\ \/ /\ decision \in {"invalid", "conflict"}
              /\ Errs
              /\ Succeeds
              /\ UNCHANGED events
           \/ /\ decision \in events[call.id] \ {"conflict"}
              /\ Recovered(decision)
              /\ Succeeds
              /\ UNCHANGED events
           \/ /\ decision \in Suffixes \ ({"conflict"} \cup events[call.id])
              /\ PublishThen(decision, Recovered(decision))
           \/ /\ Fails
              /\ Errs
              /\ UNCHANGED events
        /\ UNCHANGED <<file, backup, record, next, wrote, touched>>

\* Mutant: an error is taken to mean that nothing was written.
RollbackAssumesNoWrite ==
    /\ call.pc = "rollback"
    /\ Ends
    /\ UNCHANGED <<file, journal, record, next, wrote, touched, bounds>>

\* A failed item without a journal wrote nothing; any other is reconciled
\* before the earlier items are unwound.
RollbackFailedAttempt ==
    /\ call.pc = "rollback"
    /\ \/ /\ IF events[call.id] = {} THEN Ends ELSE Goto("recover")
          /\ Succeeds
       \/ /\ Fails
          /\ Errs
    /\ UNCHANGED <<file, journal, record, next, wrote, touched>>

Recover(i) ==
    /\ call = Idle
    /\ call' = [Idle EXCEPT !.pc = "recover", !.task = "recover", !.id = i]
    /\ batch' = NoBatch
    /\ UNCHANGED <<file, journal, record, next, wrote, touched, bounds>>

-----------------------------------------------------------------------------
(* undo_transaction.                                                       *)

Undo(i) ==
    /\ call = Idle
    /\ call' = [Idle EXCEPT !.pc = "undo check", !.task = "undo", !.id = i]
    /\ batch' = NoBatch
    /\ UNCHANGED <<file, journal, record, next, wrote, touched, bounds>>

\* Only an applied transaction whose backup is exact and whose target is as
\* the transaction left it is undone; an edited target is a recorded conflict.
UndoCheck ==
    LET ev == events[call.id]
        mayUndo == /\ ValidJournal(ev)
                   /\ "applied" \in ev /\ "undone" \notin ev
                   /\ BackupIsExact(call.id)
    IN  /\ call.pc = "undo check"
        /\ \/ /\ ~mayUndo
              /\ Errs
              /\ Succeeds
              /\ UNCHANGED events
           \/ /\ mayUndo /\ file[Target] = Item.after
              /\ call' = [call EXCEPT !.pc = "undo replace", !.raced = FALSE]
              /\ Succeeds
              /\ UNCHANGED <<events, batch>>
           \/ /\ mayUndo /\ file[Target] # Item.after
              /\ PublishThen("undo-conflict", Errs)
           \/ /\ Fails
              /\ Errs
              /\ UNCHANGED events
        /\ UNCHANGED <<file, backup, record, next, wrote, touched>>

UndoReplace ==
    /\ call.pc = "undo replace"
    /\ \/ /\ AtomicReplace(backup[call.id], "undo")
          /\ Goto("undo verify")
          /\ Succeeds
       \/ /\ Fails
          /\ Errs
          /\ UNCHANGED <<file, wrote>>
    /\ UNCHANGED <<journal, record, next, touched>>

UndoVerify ==
    /\ call.pc = "undo verify"
    /\ \/ /\ file[Target] = Item.before
          /\ Goto("undo publish")
          /\ Succeeds
       \/ /\ file[Target] # Item.before
          /\ Errs
          /\ Succeeds
       \/ /\ Fails
          /\ Errs
    /\ UNCHANGED <<file, journal, record, next, wrote, touched>>

PublishUndone ==
    /\ call.pc = "undo publish"
    /\ PublishThen("undone", Ends)
    /\ UNCHANGED <<file, backup, record, next, wrote, touched>>

-----------------------------------------------------------------------------
(* The surroundings.                                                       *)

\* Another program replaces a target.
Edit(t, content) ==
    /\ edits < MaxEdits
    /\ file[t] # content
    /\ file' = [file EXCEPT ![t] = content]
    /\ wrote' = [wrote EXCEPT ![t] = [by |-> 0, how |-> "edit"]]
    /\ touched' = touched \cup {i \in 1..(next - 1) : record[i].target = t}
    /\ call' = [call EXCEPT !.raced = @ \/ (call # Idle /\ Target = t)]
    /\ edits' = edits + 1
    /\ UNCHANGED <<journal, record, next, batch, failures, crashes>>

\* The process dies in the middle of a call.  What was synchronised stays; a
\* batch has no record of its own.
Crash ==
    /\ crashes < MaxCrashes
    /\ call # Idle
    /\ call' = Idle
    /\ batch' = NoBatch
    /\ crashes' = crashes + 1
    /\ UNCHANGED <<file, journal, record, next, wrote, touched, edits, failures>>

Next ==
    \/ Apply \/ ApplyBatch
    \/ ReadTarget \/ WriteBackup \/ PublishPrepared \/ Revalidate
    \/ Replace \/ Verify \/ PublishApplied
    \/ RollbackFailedAttempt \/ RecoverStep
    \/ UndoCheck \/ UndoReplace \/ UndoVerify \/ PublishUndone
    \/ \E i \in Prepared : Undo(i) \/ Recover(i)
    \/ \E t \in Targets, c \in Contents : Edit(t, c)
    \/ Crash

Spec == Init /\ [][Next]_vars

-----------------------------------------------------------------------------
(* Properties.                                                             *)

\* Every variable has its type; journal events exist only for begun ids.
TypeOK ==
    /\ file \in [Targets -> Contents]
    /\ backup \in [Ids -> Contents \cup {NoContent}]
    /\ events \in [Ids -> SUBSET Suffixes]
    /\ record \in [Ids -> Items \cup {<<>>}]
    /\ next \in 1..(MaxIds + 1)
    /\ call.pc \in Steps /\ call.task \in Tasks /\ call.id \in Ids \cup {0}
    /\ \A i \in Ids : events[i] # {} => i < next

\* A batch is all or nothing (apply_batch_using): after an error every target
\* is as it was before the batch's first item, after success as its last item
\* left it, unless somebody edited the target meanwhile or its own roll-back
\* failed; a failed roll-back of one target does not excuse another.
BatchIsAllOrNothing ==
    \A t \in Targets :
        LET mine == {i \in batch.ids \cap Prepared : record[i].target = t}
            first == CHOOSE i \in mine : \A j \in mine : i <= j
            last  == CHOOSE i \in mine : \A j \in mine : i >= j
        IN  (call = Idle /\ mine # {} /\ mine \cap (touched \cup batch.unrestored) = {})
            => /\ batch.outcome = "error" => file[t] = record[first].before
               /\ batch.outcome = "ok" => file[t] = record[last].after

\* The journal never denies what was done (recover_transaction): between calls
\* a target that a transaction replaced is not journalled as aborted, in
\* conflict or undone, and one that an undo restored was journalled as applied;
\* either way recovery finds an exact backup and one of the two contents.
JournalTellsTheTruth ==
    \A t \in Targets :
        LET i == wrote[t].by
        IN  (call = Idle /\ wrote[t].how # "edit" /\ record[i].before # record[i].after)
            => /\ BackupIsExact(i)
               /\ wrote[t].how = "apply" =>
                    /\ file[t] = record[i].after
                    /\ events[i] \cap {"aborted", "conflict", "undone"} = {}
               /\ wrote[t].how = "undo" =>
                    /\ file[t] = record[i].before
                    /\ "applied" \in events[i]

\* An edit is lost only in the race the contract document admits: a replacement
\* (atomic_replace) hits what its last check saw, or an edit made after it.
EditsAreChecked ==
    [][\A t \in Targets :
          (wrote'[t] # wrote[t] /\ wrote'[t].how # "edit" /\ ~call.raced)
          => file[t] = IF wrote'[t].how = "apply" THEN Item.before ELSE Item.after]_vars

\* An interrupted undo can be reconciled (recover_transaction): while the target
\* is still what the undo restored, recovery does not report a conflict.
InterruptedUndoIsReconciled ==
    \A t \in Targets :
        (call = Idle /\ wrote[t].how = "undo") => Decision(wrote[t].by) # "conflict"

\* Targets and contents are interchangeable.
Symmetry == Permutations(Targets) \cup Permutations(Contents)
=============================================================================
