------------------------ MODULE ActionExecutor_proofs ------------------------
(***************************************************************************)
(* Proofs, for all targets, contents and bounds, of what the journalled    *)
(* executor of module ActionExecutor promises: the journal tells the       *)
(* truth, a batch is all or nothing, and an edit is lost only in the race  *)
(* between the last check of a target and its replacement.                 *)
(***************************************************************************)
EXTENDS ActionExecutor, WellFoundedInduction, TLAPS

Calls == [pc : Steps, task : Tasks, id : Ids \cup {0}, items : Seq(Items),
          done : Seq(Ids), raced : BOOLEAN]

BatchRecords == [outcome : {"none", "error", "ok"}, ids : SUBSET Ids, unrestored : SUBSET Ids]

Forward  == {"read", "backup", "prepare", "revalidate", "replace", "verify", "publish"}
Undoing  == {"undo check", "undo replace", "undo verify", "undo publish"}
Batching == {"batch", "attempt", "unwind"}

\* The transactions begun so far.
Begun == 1..(next - 1)

\* The items the batch has applied and not yet begun to roll back.
Elements(s) == {s[n] : n \in 1..Len(s)}
Applieds    == Elements(call.done)

\* What is kept has its type, and only begun transactions have a journal.
Stored ==
    /\ file \in [Targets -> Contents]
    /\ backup \in [Ids -> Contents \cup {NoContent}]
    /\ events \in [Ids -> SUBSET Suffixes]
    /\ record \in [Ids -> Items \cup {<<>>}]
    /\ next \in 1..(MaxIds + 1)
    /\ wrote \in [Targets -> [by : Ids \cup {0}, how : {"edit", "apply", "undo"}]]
    /\ touched \in SUBSET Ids
    /\ \A i \in Begun : record[i] \in Items
    /\ \A i \in Ids : events[i] # {} => i \in Begun

\* Which task takes which step, and that every call works on begun transactions.
Called ==
    /\ call \in Calls /\ batch \in BatchRecords
    /\ call.pc = "idle" => call = Idle
    /\ call.pc # "idle" => call.id \in Begun
    /\ call.pc \in Forward => call.task \in {"apply", "batch"}
    /\ call.pc = "rollback" => call.task = "attempt"
    /\ call.pc = "recover" => call.task \in {"attempt", "recover"}
    /\ call.pc \in Undoing => call.task \in {"attempt", "unwind", "undo"}
    /\ Applieds \subseteq Begun

\* Every journal is valid and has an exact backup; where the running call's
\* transaction stands follows from the step it is at.
Journals ==
    /\ \A i \in Ids : events[i] # {} => ValidJournal(events[i]) /\ BackupIsExact(i)
    /\ call.pc \in {"read", "backup", "prepare"} => events[call.id] = {}
    /\ call.pc = "prepare" => BackupIsExact(call.id)
    /\ call.pc \in {"revalidate", "replace", "verify", "publish"}
       => events[call.id] = {"prepared"}
    /\ call.pc \in {"undo replace", "undo verify", "undo publish"}
       => "applied" \in events[call.id]
    /\ call.task = "attempt" /\ call.pc \in {"rollback", "recover"}
       => events[call.id] \cap {"aborted", "undone"} = {}

\* What the last writer of a target did to it, and what its journal may say.
Writes ==
    /\ \A t \in Targets : wrote[t].how # "edit" =>
          LET i == wrote[t].by
          IN  /\ i \in Begun /\ record[i].target = t /\ events[i] # {}
              /\ wrote[t].how = "apply" =>
                    /\ file[t] = record[i].after
                    /\ record[i].before # record[i].after
                       => events[i] \cap {"aborted", "conflict", "undone"} = {}
              /\ wrote[t].how = "undo" =>
                    /\ file[t] = record[i].before
                    /\ "applied" \in events[i]
    /\ call.pc \in {"revalidate", "replace"} =>
          \A t \in Targets : wrote[t].how # "edit" => wrote[t].by # call.id
    /\ call.pc \in {"undo verify", "undo publish"} =>
          ~(wrote[Target].how = "apply" /\ wrote[Target].by = call.id)

\* Nobody edited the target since its last check, unless the call was raced.
Checked ==
    /\ call.pc = "replace" /\ ~call.raced => file[Target] = Item.before
    /\ call.pc = "undo replace" /\ ~call.raced => file[Target] = Item.after

JInv == Stored /\ Called /\ Journals /\ Writes

-----------------------------------------------------------------------------
(* The batch.                                                              *)

\* The prepared transactions of the batch over a target, and whether nobody
\* edited the target since and every roll-back of it worked.
Mine(t)  == {i \in batch.ids \cap Prepared : record[i].target = t}
Clean(t) == Mine(t) \cap (touched \cup batch.unrestored) = {}

\* With the transactions of S in effect and the others of M rolled back, a target
\* holds what the last one of S wrote, which is what the first other one found.
Holds(M, S, r, content) ==
    /\ \A i \in M \cap S : (\A j \in M \cap S : j <= i) => content = r[i].after
    /\ \A i \in M \ S : (\A j \in M \ S : i <= j) => content = r[i].before

\* Consecutive items over one target: each expects what the previous one left.
Chain(M, r) ==
    \A i, j \in M : (i < j /\ \A k \in M : k <= i \/ j <= k) => r[i].after = r[j].before

\* The sets of transactions that may be in effect at each step.
InEffect ==
    IF call.pc = "idle" THEN {IF batch.outcome = "ok" THEN batch.ids ELSE {}}
    ELSE IF call.pc \in {"read", "backup", "prepare", "revalidate", "replace",
                         "undo verify", "undo publish"}
         THEN {Applieds}
    ELSE IF call.pc \in {"verify", "publish", "undo check", "undo replace"}
         THEN {Applieds \cup {call.id}}
    ELSE {Applieds, Applieds \cup {call.id}}

\* The items' ids ascend, and the earlier ones of the batch are those still applied.
Order ==
    /\ batch.ids \subseteq Begun
    /\ \A m, n \in 1..Len(call.done) : m < n => call.done[m] < call.done[n]
    /\ call.task \notin Batching => call.done = <<>> /\ (call.pc # "idle" => batch = NoBatch)
    /\ call.task = "apply" => call.items = <<>>
    /\ call.pc # "idle" /\ call.task \in Batching =>
          /\ call.id \in batch.ids
          /\ \A i \in batch.ids : i < call.id <=> i \in Applieds
          /\ Applieds \subseteq batch.ids
          /\ call.task # "unwind" => \A i \in batch.ids : i <= call.id
          /\ batch.outcome = IF call.task = "batch" THEN "none" ELSE "error"
    /\ call.pc = "idle" /\ batch.outcome = "none" => batch.ids = {}

Chained == \A t \in Targets : Clean(t) => Chain(Mine(t), record)

\* Between its first read and its journal the item's target is unchanged, unless touched.
Expected ==
    call.task = "batch" /\ call.pc \in {"backup", "prepare"} /\ call.id \notin touched
    => file[Target] = Item.before

Levels ==
    \A t \in Targets : Clean(t) => \E S \in InEffect : Holds(Mine(t), S, record, file[t])

BInv == Order /\ Chained /\ Expected /\ Levels

IInv == JInv /\ Checked /\ BInv

-----------------------------------------------------------------------------
(* How calls go on.                                                        *)

\* The elements of a sequence without its last one.
LEMMA ElementsOfFront ==
    ASSUME NEW S, NEW s \in Seq(S), s # <<>>
    PROVE  LET d == SubSeq(s, 1, Len(s) - 1)
           IN  /\ s[Len(s)] \in S /\ d \in Seq(S)
               /\ Elements(s) = Elements(d) \cup {s[Len(s)]}
               /\ Len(d) = Len(s) - 1 /\ \A m \in 1..Len(d) : d[m] = s[m]
<1> DEFINE d == SubSeq(s, 1, Len(s) - 1)
<1>1. Len(s) \in Nat \ {0} /\ s[Len(s)] \in S
  OBVIOUS
<1>2. d \in Seq(S) /\ Len(d) = Len(s) - 1 /\ \A m \in 1..(Len(s) - 1) : d[m] = s[m]
  <2>1. d = [m \in 1..(Len(s) - 1) |-> s[m]]
    BY <1>1
  <2>2. \A m \in 1..(Len(s) - 1) : s[m] \in S
    BY <1>1
  <2>3. Len(s) - 1 \in Nat
    BY <1>1
  <2> HIDE DEF d
  <2> QED BY <2>1, <2>2, <2>3
<1> HIDE DEF d
<1>3. \A m \in 1..Len(s) : m \in 1..(Len(s) - 1) \/ m = Len(s)
  BY <1>1
<1>4. Elements(s) = Elements(d) \cup {s[Len(s)]}
  BY <1>1, <1>2, <1>3 DEF Elements
<1> QED BY <1>1, <1>2, <1>4 DEF d

\* The elements of a sequence and one more.
LEMMA ElementsOfAppend ==
    ASSUME NEW S, NEW s \in Seq(S), NEW e \in S
    PROVE  /\ Append(s, e) \in Seq(S)
           /\ Elements(Append(s, e)) = Elements(s) \cup {e}
<1> DEFINE d == Append(s, e)
<1>1. d \in Seq(S) /\ Len(d) = Len(s) + 1 /\ d[Len(s) + 1] = e /\ Len(s) \in Nat
      /\ \A m \in 1..Len(s) : d[m] = s[m]
  OBVIOUS
<1>2. \A m \in 1..(Len(s) + 1) : m \in 1..Len(s) \/ m = Len(s) + 1
  BY <1>1
<1> HIDE DEF d
<1>3. Elements(d) = Elements(s) \cup {e}
  BY <1>1, <1>2 DEF Elements
<1> QED BY <1>1, <1>3 DEF d

LEMMA BegunAreIds == ASSUME Stored PROVE Begun \subseteq Ids
  BY BoundsAssumption DEF Begun, Ids, Stored

LEMMA ElementsOfEmpty == Elements(<<>>) = {}
  BY DEF Elements

\* UnwindFrom returns a call that works on the last transaction it was given,
\* or one that has returned.
LEMMA UnwindCall ==
    ASSUME Stored, Called
    PROVE  LET c == UnwindFrom(call.done)
               last == call.done[Len(call.done)]
           IN  /\ c \in Calls
               /\ call.done = <<>> => c = Idle
               /\ call.done # <<>> =>
                    /\ c.pc = "undo check" /\ c.task = "unwind"
                    /\ c.id = last /\ last \in Begun
                    /\ Applieds = Elements(c.done) \cup {last}
                    /\ Len(c.done) = Len(call.done) - 1
                    /\ \A m \in 1..Len(c.done) : c.done[m] = call.done[m]
<1>1. call \in Calls /\ call.done \in Seq(Ids)
  BY DEF Called, Calls
<1>2. CASE call.done = <<>>
  <2>1. Idle \in Calls
    BY DEF Idle, Calls, Steps, Tasks
  <2> QED BY <1>2, <2>1 DEF UnwindFrom
<1>3. CASE call.done # <<>>
  <2> DEFINE last == call.done[Len(call.done)]
             d == SubSeq(call.done, 1, Len(call.done) - 1)
  <2>1. /\ last \in Ids /\ d \in Seq(Ids) /\ Applieds = Elements(d) \cup {last}
        /\ Len(d) = Len(call.done) - 1 /\ \A m \in 1..Len(d) : d[m] = call.done[m]
    BY <1>1, <1>3, ElementsOfFront DEF Applieds
  <2>2. last \in Begun
    BY <2>1 DEF Called
  <2>3. UnwindFrom(call.done) = [call EXCEPT !.pc = "undo check", !.task = "unwind",
                                             !.id = last, !.done = d]
    BY <1>3 DEF UnwindFrom
  <2> HIDE DEF d, last
  <2>4. UnwindFrom(call.done) \in Calls
    BY <1>1, <2>1, <2>3 DEF Calls, Steps, Tasks
  <2>5. /\ UnwindFrom(call.done).pc = "undo check" /\ UnwindFrom(call.done).task = "unwind"
        /\ UnwindFrom(call.done).id = last /\ UnwindFrom(call.done).done = d
    BY <1>1, <2>3 DEF Calls
  <2> QED BY <1>3, <2>1, <2>2, <2>4, <2>5 DEF last
<1> QED BY <1>2, <1>3

\* However a transaction ends, its call goes on in order.
LEMMA Outcome ==
    ASSUME Stored, Called, Ends \/ Errs, next' = next
    PROVE  /\ Called'
           /\ call'.pc \in {"idle", "undo check", "rollback"}
           /\ call'.pc = "rollback" => call.task = "batch" /\ call'.id = call.id
<1> DEFINE c == UnwindFrom(call.done)
<1>1. call \in Calls /\ batch \in BatchRecords /\ Begun' = Begun
  BY DEF Called, Begun
<1>2. batch' \in BatchRecords
  <2>1. call.task # "none" => call.id \in Ids
    BY BegunAreIds DEF Called, Idle
  <2> QED BY <1>1, <2>1 DEF Ends, Errs, BatchRecords
<1>3. CASE call' = Idle
  <2>1. Idle \in Calls /\ Idle.pc = "idle" /\ Idle.done = <<>>
    BY DEF Idle, Calls, Steps, Tasks
  <2>2. Applieds' = {}
    BY <1>3, <2>1, ElementsOfEmpty DEF Applieds
  <2> QED BY <1>2, <1>3, <2>1, <2>2 DEF Called, Forward, Undoing
<1>4. CASE call' = c
  <2>1. CASE call.done = <<>>
    BY <1>3, <1>4, <2>1, UnwindCall
  <2>2. CASE call.done # <<>>
    <3>1. /\ call' \in Calls /\ call'.pc = "undo check" /\ call'.task = "unwind"
          /\ call'.id \in Begun /\ Applieds' \subseteq Applieds
      BY <1>4, <2>2, UnwindCall DEF Applieds
    <3> QED BY <1>1, <1>2, <3>1 DEF Called, Forward, Undoing
  <2> QED BY <2>1, <2>2
<1>5. CASE call' = [call EXCEPT !.pc = "rollback", !.task = "attempt"] /\ call.task = "batch"
  <2>1. call.pc # "idle"
    BY <1>5 DEF Called, Idle
  <2>2. /\ call' \in Calls /\ call'.pc = "rollback" /\ call'.task = "attempt"
        /\ call'.id = call.id /\ Applieds' = Applieds
    BY <1>1, <1>5 DEF Calls, Steps, Tasks, Applieds
  <2>3. Called'
    BY <1>1, <1>2, <2>1, <2>2 DEF Called, Forward, Undoing
  <2> QED BY <1>5, <2>2, <2>3
<1> QED BY <1>3, <1>4, <1>5 DEF Ends, Errs

\* So it does when it stays with its transaction.
LEMMA GotoFields ==
    ASSUME Called, NEW pc \in Steps,
           call' = [call EXCEPT !.pc = pc] \/ call' = [call EXCEPT !.pc = pc, !.raced = FALSE]
    PROVE  /\ call' \in Calls
           /\ call'.pc = pc /\ call'.task = call.task /\ call'.id = call.id
           /\ call'.done = call.done /\ call'.items = call.items /\ Applieds' = Applieds
BY DEF Called, Calls, Applieds

\* An item is begun with the next id.
LEMMA BeginFields ==
    ASSUME Stored, NEW task \in {"apply", "batch"}, NEW items \in Seq(Items), items # <<>>,
           NEW done \in Seq(Ids), Elements(done) \subseteq Begun,
           BeginItem(task, items, done), batch' \in BatchRecords
    PROVE  /\ Called'
           /\ next \in Ids /\ next' = next + 1 /\ next' \in 1..(MaxIds + 1)
           /\ record' = [record EXCEPT ![next] = Head(items)] /\ Head(items) \in Items
           /\ call'.pc = "read" /\ call'.task = task /\ call'.id = next /\ call'.done = done
           /\ Begun' = Begun \cup {next} /\ next \notin Begun
           /\ \A i \in Begun' : record'[i] \in Items
<1>1. /\ next \in Ids /\ next' = next + 1 /\ MaxIds \in Nat /\ next \in Nat \ {0}
      /\ next' \in 1..(MaxIds + 1) /\ Ids = 1..MaxIds
  BY BoundsAssumption DEF BeginItem, Stored, Ids
<1>2. Head(items) \in Items /\ Tail(items) \in Seq(Items)
  OBVIOUS
<1>3. call' \in Calls /\ call'.pc = "read" /\ call'.task = task /\ call'.id = next
      /\ call'.done = done
  BY <1>1, <1>2 DEF BeginItem, Calls, Steps, Tasks
<1>4. /\ record \in [Ids -> Items \cup {<<>>}] /\ record' = [record EXCEPT ![next] = Head(items)]
      /\ \A i \in Begun : record[i] \in Items
      /\ Begun' = Begun \cup {next} /\ next \notin Begun
  BY <1>1 DEF BeginItem, Stored, Begun
<1>5. \A i \in Begun' : record'[i] \in Items
  <2> SUFFICES ASSUME NEW i \in Begun' PROVE record'[i] \in Items
    OBVIOUS
  <2>1. i \in Ids
    BY <1>1 DEF Begun
  <2> QED BY <1>2, <1>4, <2>1
<1>6. Applieds' \subseteq Begun' /\ call'.id \in Begun'
  BY <1>3, <1>4 DEF Applieds
<1> QED BY <1>1, <1>2, <1>3, <1>4, <1>5, <1>6 DEF Called, Forward, Undoing

\* Types and control are kept by every step.
LEMMA ControlStep ==
    ASSUME Stored, Called, Journals, [Next]_vars
    PROVE  Stored' /\ Called'
<1> USE DEF journal, bounds, history
<1>i. Begun \subseteq Ids
  BY BegunAreIds
<1>g. ASSUME NEW pc \in {"backup", "prepare", "revalidate", "replace", "verify", "publish"},
             call.pc \in Forward, next' = next, UNCHANGED batch,
             call' = [call EXCEPT !.pc = pc] \/ call' = [call EXCEPT !.pc = pc, !.raced = FALSE]
      PROVE  Called'
  BY <1>g, GotoFields DEF Called, Steps, Forward, Undoing, Begun
<1>h. ASSUME NEW pc \in Undoing \cup {"recover"}, pc = "recover" => call.pc = "rollback",
             pc \in Undoing => call.pc \in Undoing \/ (call.pc = "recover" /\ call.task = "attempt"),
             next' = next, UNCHANGED batch,
             call' = [call EXCEPT !.pc = pc] \/ call' = [call EXCEPT !.pc = pc, !.raced = FALSE]
      PROVE  Called'
  BY <1>h, GotoFields DEF Called, Steps, Forward, Undoing, Begun
<1>o. ASSUME Ends \/ Errs, next' = next
      PROVE  Called'
  BY <1>o, Outcome
<1>c. ASSUME call.pc # "idle"
      PROVE  /\ call.id \in Ids /\ call.id \in Begun /\ record[call.id] \in Items
             /\ Item.before \in Contents /\ Item.after \in Contents /\ Target \in Targets
  BY <1>c, <1>i DEF Called, Stored, Items, Item, Target
<1>e. ASSUME NEW suffix \in Suffixes, call.pc # "idle", next' = next, Publish(call.id, suffix)
      PROVE  /\ events' \in [Ids -> SUBSET Suffixes]
             /\ \A i \in Ids : events'[i] # {} => i \in Begun'
  BY <1>e, <1>c DEF Publish, Stored, Begun
<1>f. ASSUME NEW content \in Contents, NEW how \in {"apply", "undo"}, call.pc # "idle",
             AtomicReplace(content, how)
      PROVE  /\ file' \in [Targets -> Contents]
             /\ wrote' \in [Targets -> [by : Ids \cup {0}, how : {"edit", "apply", "undo"}]]
  BY <1>f, <1>c DEF AtomicReplace, Stored
<1>b. ASSUME NEW task \in {"apply", "batch"}, NEW items \in Seq(Items), items # <<>>,
             NEW done \in Seq(Ids), Elements(done) \subseteq Begun,
             BeginItem(task, items, done), batch' \in BatchRecords,
             UNCHANGED <<file, backup, wrote>>,
             events' = events \/ (call.pc # "idle" /\ Publish(call.id, "applied"))
      PROVE  Stored' /\ Called'
  <2>1. /\ Called' /\ next \in Ids /\ next' \in 1..(MaxIds + 1)
        /\ record' = [record EXCEPT ![next] = Head(items)] /\ Head(items) \in Items
        /\ Begun' = Begun \cup {next}
        /\ \A i \in Begun' : record'[i] \in Items
    BY <1>b, BeginFields
  <2>2. /\ events' \in [Ids -> SUBSET Suffixes]
        /\ \A i \in Ids : events'[i] # {} => i \in Begun'
    <3>1. CASE events' = events
      BY <2>1, <3>1 DEF Stored
    <3>2. CASE call.pc # "idle" /\ Publish(call.id, "applied")
      BY <1>c, <2>1, <3>2 DEF Publish, Stored, Suffixes
    <3> QED BY <1>b, <3>1, <3>2
  <2>3. touched' \in SUBSET Ids
    BY <1>b DEF BeginItem, Stored
  <2> QED BY <1>b, <2>1, <2>2, <2>3 DEF Stored
<1>1. CASE Apply
  <2>1. PICK item \in Items : BeginItem("apply", <<item>>, <<>>)
    BY <1>1 DEF Apply
  <2>2. <<item>> \in Seq(Items) /\ <<item>> # <<>> /\ <<>> \in Seq(Ids)
    OBVIOUS
  <2>3. batch' \in BatchRecords /\ UNCHANGED <<file, backup, events, wrote>>
    BY <1>1 DEF Apply, NoBatch, BatchRecords
  <2> QED BY <1>b, <2>1, <2>2, <2>3, ElementsOfEmpty
<1>2. CASE ApplyBatch
  <2>1. PICK items \in Batches : BeginItem("batch", items, <<>>)
    BY <1>2 DEF ApplyBatch
  <2>2. items \in Seq(Items) /\ items # <<>> /\ <<>> \in Seq(Ids)
    BY BoundsAssumption DEF Batches
  <2>3. batch' \in BatchRecords
    <3>1. next \in Ids
      BY <2>1, BoundsAssumption DEF BeginItem, Ids, Stored
    <3> QED BY <1>2, <3>1 DEF ApplyBatch, NoBatch, BatchRecords
  <2>4. UNCHANGED <<file, backup, events, wrote>>
    BY <1>2 DEF ApplyBatch
  <2> QED BY <1>b, <2>1, <2>2, <2>3, <2>4, ElementsOfEmpty
<1>3. CASE ReadTarget
  <2>1. Called'
    BY <1>3, <1>g, <1>o DEF ReadTarget, Goto, Forward
  <2> QED BY <1>3, <2>1 DEF ReadTarget, Goto, Stored, Begun
<1>4. CASE WriteBackup
  <2>1. Called'
    BY <1>4, <1>g, <1>o DEF WriteBackup, Goto, Forward
  <2> QED BY <1>4, <2>1, <1>c DEF WriteBackup, Goto, Stored, Suffixes, Begun
<1>5. CASE PublishPrepared
  <2>1. Called'
    BY <1>5, <1>g, <1>o DEF PublishPrepared, PublishThen, Goto, Forward
  <2> QED BY <1>5, <2>1, <1>e DEF PublishPrepared, PublishThen, Goto, Stored, Suffixes, Begun
<1>6. CASE Revalidate
  <2>1. Called'
    BY <1>6, <1>g, <1>o DEF Revalidate, PublishThen, Publish, Forward
  <2> QED BY <1>6, <2>1, <1>e DEF Revalidate, PublishThen, Stored, Suffixes, Begun
<1>7. CASE Replace
  <2>1. Called'
    BY <1>7, <1>g, <1>o DEF Replace, Goto, Forward
  <2> QED BY <1>7, <2>1, <1>c, <1>f DEF Replace, Goto, Stored, Suffixes, Begun
<1>8. CASE Verify
  <2>1. Called'
    BY <1>8, <1>g, <1>o DEF Verify, Goto, Forward
  <2> QED BY <1>8, <2>1 DEF Verify, Goto, Stored, Begun
<1>9. CASE PublishApplied
  <2>1. call.pc = "publish" /\ call.pc # "idle" /\ UNCHANGED <<file, backup, wrote>>
    BY <1>9 DEF PublishApplied
  <2>2. CASE PublishThen("applied", FALSE) /\ UNCHANGED <<record, next, touched>>
    <3>1. Called'
      BY <2>2, <1>o DEF PublishThen
    <3> QED BY <1>e, <2>1, <2>2, <3>1 DEF PublishThen, Stored, Suffixes, Begun
  <2>3. CASE /\ Publish(call.id, "applied")
             /\ call' = Idle /\ batch' \in {batch, [batch EXCEPT !.outcome = "ok"]}
             /\ UNCHANGED <<record, next, touched>>
    <3>1. Idle \in Calls /\ Idle.pc = "idle" /\ Idle.done = <<>>
      BY DEF Idle, Calls, Steps, Tasks
    <3>2. Applieds' = {}
      BY <2>3, <3>1, ElementsOfEmpty DEF Applieds
    <3>3. batch' \in BatchRecords
      BY <2>3 DEF Called, BatchRecords
    <3>4. Called'
      BY <2>3, <3>1, <3>2, <3>3 DEF Called, Forward, Undoing
    <3> QED BY <1>e, <2>1, <2>3, <3>4 DEF Stored, Suffixes, Begun
  <2>4. CASE /\ Publish(call.id, "applied") /\ call.items # <<>>
             /\ BeginItem("batch", call.items, Append(call.done, call.id))
             /\ batch' = [batch EXCEPT !.ids = @ \cup {next}]
    <3>1. call.items \in Seq(Items) /\ call.done \in Seq(Ids) /\ call.id \in Ids /\ call.id \in Begun
      BY <1>c, <2>1 DEF Called, Calls
    <3>2. /\ Append(call.done, call.id) \in Seq(Ids)
          /\ Elements(Append(call.done, call.id)) \subseteq Begun
      BY <3>1, ElementsOfAppend DEF Called, Applieds
    <3>3. batch' \in BatchRecords
      <4>1. next \in Ids
        BY <2>4, BoundsAssumption DEF BeginItem, Ids, Stored
      <4> QED BY <2>4, <4>1 DEF Called, BatchRecords
    <3> QED BY <1>b, <2>1, <2>4, <3>1, <3>2, <3>3
  <2> QED BY <1>9, <2>2, <2>3, <2>4 DEF PublishApplied, Applied
<1>10. CASE RollbackFailedAttempt
  <2>1. call.pc = "rollback" /\ next' = next /\ (Ends \/ Errs \/ Goto("recover"))
    BY <1>10 DEF RollbackFailedAttempt
  <2>2. Called'
    <3>1. CASE Goto("recover")
      BY <1>h, <2>1, <3>1 DEF Goto, Undoing
    <3> QED BY <1>o, <2>1, <3>1
  <2> QED BY <1>10, <2>2 DEF RollbackFailedAttempt, Stored, Begun
<1>11. CASE RecoverStep
  <2>1. Called'
    <3>1. /\ call.pc = "recover" /\ next' = next
          /\ Ends \/ Errs \/ (call.task = "attempt" /\ Goto("undo check"))
      BY <1>11 DEF RecoverStep, Recovered, PublishThen
    <3>2. CASE call.task = "attempt" /\ Goto("undo check")
      <4>1. /\ call' = [call EXCEPT !.pc = "undo check"] /\ UNCHANGED batch
            /\ "undo check" \in Undoing
        BY <3>2 DEF Goto, Undoing
      <4> QED BY <1>h, <3>1, <3>2, <4>1
    <3> QED BY <1>o, <3>1, <3>2
  <2> QED BY <1>11, <2>1, <1>e DEF RecoverStep, Recovered, PublishThen, Goto, Stored, Suffixes, Begun
<1>12. CASE UndoCheck
  <2>1. Called'
    BY <1>12, <1>h, <1>o DEF UndoCheck, PublishThen, Publish, Undoing
  <2> QED BY <1>12, <2>1, <1>e DEF UndoCheck, PublishThen, Stored, Suffixes, Begun
<1>13. CASE UndoReplace
  <2>1. Called'
    BY <1>13, <1>h, <1>o DEF UndoReplace, Goto, Undoing
  <2>2. call.pc = "undo replace" /\ events[call.id] # {} /\ call.id \in Ids
    BY <1>13, <1>c DEF UndoReplace, Journals
  <2>3. backup[call.id] \in Contents
    BY <1>c, <2>2 DEF Journals, BackupIsExact, Item
  <2>4. CASE AtomicReplace(backup[call.id], "undo")
    BY <1>13, <1>f, <2>1, <2>2, <2>3, <2>4 DEF UndoReplace, Stored, Begun
  <2>5. CASE UNCHANGED <<file, wrote>>
    BY <1>13, <2>1, <2>5 DEF UndoReplace, Stored, Begun
  <2> QED BY <1>13, <2>4, <2>5 DEF UndoReplace
<1>14. CASE UndoVerify
  <2>1. Called'
    BY <1>14, <1>h, <1>o DEF UndoVerify, Goto, Undoing
  <2> QED BY <1>14, <2>1 DEF UndoVerify, Goto, Stored, Begun
<1>15. CASE PublishUndone
  <2>1. Called'
    BY <1>15, <1>h, <1>o DEF PublishUndone, PublishThen, Publish, Undoing
  <2> QED BY <1>15, <2>1, <1>e DEF PublishUndone, PublishThen, Stored, Suffixes, Begun
<1>16. CASE \E i \in Prepared : Undo(i) \/ Recover(i)
  <2>1. PICK i \in Prepared : Undo(i) \/ Recover(i)
    BY <1>16
  <2>2. i \in Begun
    BY DEF Prepared, Stored
  <2>3. /\ call' \in Calls /\ call'.id = i /\ call'.done = <<>>
        /\ \/ call'.pc = "undo check" /\ call'.task = "undo"
           \/ call'.pc = "recover" /\ call'.task = "recover"
    <3>1. /\ Idle \in Calls /\ Idle.done = <<>> /\ i \in Ids
      BY <1>i, <2>2 DEF Idle, Calls, Steps, Tasks
    <3>2. CASE call' = [Idle EXCEPT !.pc = "undo check", !.task = "undo", !.id = i]
      BY <3>1, <3>2 DEF Calls, Steps, Tasks
    <3>3. CASE call' = [Idle EXCEPT !.pc = "recover", !.task = "recover", !.id = i]
      BY <3>1, <3>3 DEF Calls, Steps, Tasks
    <3> QED BY <2>1, <3>2, <3>3 DEF Undo, Recover
  <2>4. Applieds' = {}
    BY <2>3, ElementsOfEmpty DEF Applieds
  <2>5. batch' \in BatchRecords /\ Begun' = Begun
    BY <2>1 DEF Undo, Recover, NoBatch, BatchRecords, Begun
  <2>6. Called'
    BY <2>2, <2>3, <2>4, <2>5 DEF Called, Forward, Undoing
  <2> QED BY <2>1, <2>6 DEF Undo, Recover, Stored, Begun
<1>17. CASE \E t \in Targets, c \in Contents : Edit(t, c)
  <2>1. PICK t \in Targets, c \in Contents : Edit(t, c)
    BY <1>17
  <2>2. /\ call' \in Calls /\ call'.pc = call.pc /\ call'.id = call.id /\ call'.task = call.task
        /\ Applieds' = Applieds /\ Begun' = Begun /\ batch' = batch
    BY <2>1 DEF Edit, Called, Calls, Applieds, Begun
  <2>3. call.pc = "idle" => call' = Idle
    <3> SUFFICES ASSUME call.pc = "idle" PROVE call' = Idle
      OBVIOUS
    <3>1. call = Idle
      BY DEF Called
    <3>2. call' = [Idle EXCEPT !.raced = @ \/ FALSE]
      BY <2>1, <3>1 DEF Edit
    <3> QED BY <3>2 DEF Idle
  <2>4. Called'
    BY <2>2, <2>3 DEF Called
  <2>5. touched' \in SUBSET Ids
    BY <1>i, <2>1 DEF Edit, Stored, Begun
  <2> QED BY <2>1, <2>2, <2>4, <2>5 DEF Edit, Stored
<1>18. CASE Crash
  <2>1. Idle \in Calls /\ Idle.pc = "idle" /\ Idle.done = <<>> /\ NoBatch \in BatchRecords
    BY DEF Idle, Calls, Steps, Tasks, NoBatch, BatchRecords
  <2>2. call' = Idle /\ Applieds' = {} /\ batch' = NoBatch
    BY <1>18, <2>1, ElementsOfEmpty DEF Crash, Applieds
  <2>3. Called'
    BY <2>1, <2>2 DEF Called, Forward, Undoing
  <2> QED BY <1>18, <2>3 DEF Crash, Stored, Begun
<1>19. CASE UNCHANGED vars
  BY <1>19 DEF vars, Stored, Called, Begun, Applieds
<1> QED BY <1>1, <1>2, <1>3, <1>4, <1>5, <1>6, <1>7, <1>8, <1>9, <1>10, <1>11, <1>12, <1>13,
           <1>14, <1>15, <1>16, <1>17, <1>18, <1>19 DEF Next

\* The journals stay valid and backed up, and where a transaction stands is known.
LEMMA JournalsStep ==
    ASSUME Stored, Called, Journals, [Next]_vars
    PROVE  Journals'
<1> USE DEF journal, bounds, history
<1> DEFINE Exact == \A i \in Ids : events[i] # {} => ValidJournal(events[i]) /\ BackupIsExact(i)
           Early == call.pc \in {"read", "backup", "prepare"}
           Late  == call.pc \in {"revalidate", "replace", "verify", "publish"}
<1>c. call.pc # "idle" => call.id \in Ids /\ call.id \in Begun
  BY BegunAreIds DEF Called
<1>p. ASSUME NEW s \in Suffixes, MayPublish(call.id, s), Publish(call.id, s), call.id \in Ids
      PROVE  /\ ValidJournal(events'[call.id]) /\ events'[call.id] = events[call.id] \cup {s}
             /\ \A i \in Ids \ {call.id} : events'[i] = events[i]
  BY <1>p DEF MayPublish, Publish, Stored
<1>x. ASSUME NEW s \in Suffixes, MayPublish(call.id, s), Publish(call.id, s), call.id \in Ids,
             BackupIsExact(call.id), UNCHANGED <<backup, record>>
      PROVE  Exact'
  BY <1>x, <1>p DEF Journals, BackupIsExact
<1>y. ASSUME UNCHANGED <<backup, record, events>>
      PROVE  Exact'
  BY <1>y DEF Journals, BackupIsExact
<1>o. ASSUME Ends \/ Errs, next' = next, Exact',
             call.task = "batch" => events'[call.id] \cap {"aborted", "undone"} = {}
      PROVE  Journals'
  <2>1. /\ call'.pc \in {"idle", "undo check", "rollback"}
        /\ call'.pc = "rollback" => call.task = "batch" /\ call'.id = call.id
    BY <1>o, Outcome
  <2> QED BY <1>o, <2>1 DEF Journals
<1>e. Early \/ Late => /\ call.pc \in Forward /\ call.id \in Ids /\ call.task \in {"apply", "batch"}
                       /\ events[call.id] \subseteq {"prepared"}
  BY <1>c DEF Journals, Forward, Called
<1>f. ASSUME Early \/ Late, Ends \/ Errs, next' = next, UNCHANGED <<backup, record, events>>
      PROVE  Journals'
  BY <1>f, <1>e, <1>y, <1>o
<1>3. CASE ReadTarget
  <2>1. Early /\ UNCHANGED <<backup, record, events>> /\ next' = next
    BY <1>3 DEF ReadTarget
  <2>2. CASE Goto("backup")
    BY <1>3, <1>y, <2>1, <2>2, GotoFields DEF Goto, Journals, Steps
  <2> QED BY <1>3, <1>f, <2>1, <2>2 DEF ReadTarget
<1>4. CASE WriteBackup
  <2>1. Early /\ UNCHANGED <<record, events>> /\ next' = next /\ call.id \in Ids
    BY <1>4, <1>e DEF WriteBackup
  <2>2. CASE backup' = [backup EXCEPT ![call.id] = Item.before] /\ Goto("prepare")
    <3>1. events[call.id] = {}
      BY <1>4 DEF WriteBackup, Journals
    <3>2. backup'[call.id] = record[call.id].before /\ \A i \in Ids \ {call.id} : backup'[i] = backup[i]
      BY <2>1, <2>2 DEF Item, Stored
    <3>3. Exact'
      BY <2>1, <3>1, <3>2 DEF Journals, BackupIsExact
    <3>4. call'.pc = "prepare" /\ call'.id = call.id
      BY <2>2, GotoFields DEF Goto, Steps
    <3> QED BY <2>1, <3>1, <3>2, <3>3, <3>4 DEF Journals, BackupIsExact
  <2>3. CASE UNCHANGED backup /\ Errs
    BY <1>f, <2>1, <2>3
  <2> QED BY <1>4, <2>2, <2>3 DEF WriteBackup
<1>5. CASE PublishPrepared
  <2>1. /\ Early /\ UNCHANGED <<record, backup>> /\ next' = next /\ call.id \in Ids
        /\ BackupIsExact(call.id) /\ events[call.id] = {}
    BY <1>5, <1>e DEF PublishPrepared, Journals
  <2>2. CASE MayPublish(call.id, "prepared") /\ Publish(call.id, "prepared")
    <3>1. Exact' /\ events'[call.id] = {"prepared"}
      BY <1>p, <1>x, <2>1, <2>2 DEF Suffixes
    <3>2. CASE Goto("revalidate")
      BY <3>1, <3>2, GotoFields DEF Goto, Journals, Steps
    <3>3. CASE Errs
      BY <1>o, <2>1, <3>1, <3>3
    <3> QED BY <1>5, <3>2, <3>3 DEF PublishPrepared, PublishThen
  <2>3. CASE UNCHANGED events /\ Errs
    BY <1>f, <2>1, <2>3
  <2> QED BY <1>5, <2>2, <2>3 DEF PublishPrepared, PublishThen
<1>6. CASE Revalidate
  <2>1. /\ Late /\ UNCHANGED <<record, backup>> /\ next' = next /\ call.id \in Ids
        /\ events[call.id] = {"prepared"} /\ BackupIsExact(call.id)
    BY <1>6, <1>e DEF Revalidate, Journals
  <2>2. CASE call' = [call EXCEPT !.pc = "replace", !.raced = FALSE] /\ UNCHANGED events
    BY <1>y, <2>1, <2>2, GotoFields DEF Journals, Steps
  <2>3. CASE MayPublish(call.id, "conflict") /\ Publish(call.id, "conflict") /\ Errs
    BY <1>p, <1>x, <1>o, <2>1, <2>3 DEF Suffixes
  <2>4. CASE UNCHANGED events /\ Errs
    BY <1>f, <2>1, <2>4
  <2> QED BY <1>6, <2>2, <2>3, <2>4 DEF Revalidate, PublishThen
<1>7. CASE Replace
  <2>1. Late /\ UNCHANGED <<backup, record, events>> /\ next' = next
    BY <1>7 DEF Replace
  <2>2. CASE Goto("verify")
    BY <1>7, <1>y, <2>1, <2>2, GotoFields DEF Goto, Journals, Steps
  <2> QED BY <1>7, <1>f, <2>1, <2>2 DEF Replace
<1>8. CASE Verify
  <2>1. Late /\ UNCHANGED <<backup, record, events>> /\ next' = next
    BY <1>8 DEF Verify
  <2>2. CASE Goto("publish")
    BY <1>8, <1>y, <2>1, <2>2, GotoFields DEF Goto, Journals, Steps
  <2> QED BY <1>8, <1>f, <2>1, <2>2 DEF Verify
<1>b. ASSUME NEW task \in {"apply", "batch"}, NEW items \in Seq(Items), items # <<>>,
             NEW done, call' \in Calls, BeginItem(task, items, done), UNCHANGED backup,
             \/ UNCHANGED events
             \/ /\ MayPublish(call.id, "applied") /\ Publish(call.id, "applied")
                /\ call.id \in Ids /\ call.id \in Begun /\ BackupIsExact(call.id)
      PROVE  Journals'
  <2>1. /\ next \in Ids /\ call'.pc = "read" /\ call'.id = next /\ next \notin Begun
        /\ \A i \in Begun : record'[i] = record[i]
    BY <1>b, BegunAreIds DEF BeginItem, Stored, Begun, Ids
  <2>2. events[next] = {} /\ events'[next] = {}
    <3>1. events[next] = {}
      BY <2>1 DEF Stored
    <3> QED BY <1>b, <1>p, <2>1, <3>1 DEF Suffixes
  <2>3. \A i \in Ids : events'[i] # {} => ValidJournal(events'[i]) /\ BackupIsExact(i)'
    <3> SUFFICES ASSUME NEW i \in Ids, events'[i] # {}
                 PROVE  ValidJournal(events'[i]) /\ BackupIsExact(i)'
      OBVIOUS
    <3>1. i \in Begun /\ BackupIsExact(i) /\ ValidJournal(events'[i])
      BY <1>b, <1>p, <2>2 DEF Journals, Suffixes, Stored
    <3> QED BY <1>b, <2>1, <3>1 DEF BackupIsExact
  <2> QED BY <2>1, <2>2, <2>3 DEF Journals
<1>1. CASE Apply
  <2>1. PICK item \in Items : BeginItem("apply", <<item>>, <<>>)
    BY <1>1 DEF Apply
  <2>2. <<item>> \in Seq(Items) /\ <<item>> # <<>> /\ UNCHANGED <<backup, events>>
    BY <1>1 DEF Apply
  <2>3. call' \in Calls
    BY <1>1, ControlStep DEF Next, Called
  <2> QED BY <1>b, <2>1, <2>2, <2>3
<1>2. CASE ApplyBatch
  <2>1. PICK items \in Batches : BeginItem("batch", items, <<>>)
    BY <1>2 DEF ApplyBatch
  <2>2. items \in Seq(Items) /\ items # <<>> /\ UNCHANGED <<backup, events>>
    BY <1>2, BoundsAssumption DEF ApplyBatch, Batches
  <2>3. call' \in Calls
    BY <1>2, ControlStep DEF Next, Called
  <2> QED BY <1>b, <2>1, <2>2, <2>3
<1>9. CASE PublishApplied
  <2>1. /\ Late /\ UNCHANGED backup /\ call.id \in Ids /\ call.id \in Begun /\ call.task \in {"apply", "batch"}
        /\ events[call.id] = {"prepared"} /\ BackupIsExact(call.id)
    BY <1>9, <1>c, <1>e DEF PublishApplied, Journals
  <2>2. CASE PublishThen("applied", FALSE) /\ UNCHANGED <<record, next>>
    <3>1. CASE MayPublish(call.id, "applied") /\ Publish(call.id, "applied") /\ Errs
      BY <1>p, <1>x, <1>o, <2>1, <2>2, <3>1 DEF Suffixes
    <3>2. CASE UNCHANGED events /\ Errs
      BY <1>f, <2>1, <2>2, <3>2
    <3> QED BY <2>2, <3>1, <3>2 DEF PublishThen
  <2>3. CASE /\ MayPublish(call.id, "applied") /\ Publish(call.id, "applied")
             /\ call' = Idle /\ UNCHANGED <<record, next>>
    <3>1. Exact' /\ call'.pc = "idle"
      BY <1>x, <2>1, <2>3 DEF Suffixes, Idle
    <3> QED BY <3>1 DEF Journals
  <2>4. CASE /\ MayPublish(call.id, "applied") /\ Publish(call.id, "applied")
             /\ call.items # <<>>
             /\ BeginItem("batch", call.items, Append(call.done, call.id))
    <3>1. call.items \in Seq(Items)
      BY DEF Called, Calls
    <3>2. call' \in Calls
      BY <1>9, ControlStep DEF Next, Called
    <3> QED BY <1>b, <2>1, <2>4, <3>1, <3>2
  <2> QED BY <1>9, <2>2, <2>3, <2>4 DEF PublishApplied, Applied
<1>10. CASE RollbackFailedAttempt
  <2>1. /\ UNCHANGED <<record, events, backup>> /\ next' = next /\ call.task = "attempt"
        /\ events[call.id] \cap {"aborted", "undone"} = {}
    BY <1>10 DEF RollbackFailedAttempt, Called, Journals
  <2>2. CASE Goto("recover")
    BY <1>y, <2>1, <2>2, GotoFields DEF Goto, Journals, Steps
  <2>3. CASE Ends \/ Errs
    BY <1>y, <1>o, <2>1, <2>3
  <2> QED BY <1>10, <2>2, <2>3 DEF RollbackFailedAttempt
<1>11. CASE RecoverStep
  <2> DEFINE decision == Decision(call.id)
  <2>1. /\ UNCHANGED <<record, backup>> /\ next' = next /\ call.id \in Ids
        /\ call.task \in {"attempt", "recover"}
    BY <1>11, <1>c DEF RecoverStep, Called
  <2>o. ASSUME Exact', Ends \/ Errs PROVE Journals'
    BY <1>o, <2>1, <2>o
  <2>2. CASE UNCHANGED events /\ (Ends \/ Errs)
    BY <1>y, <2>o, <2>1, <2>2
  <2>3. CASE /\ decision \in Suffixes
             /\ MayPublish(call.id, decision) /\ Publish(call.id, decision)
             /\ \/ Ends \/ Errs
                \/ decision = "applied" /\ Goto("undo check")
    <3>1. BackupIsExact(call.id)
      BY <2>3 DEF Decision, Suffixes
    <3>2. Exact' /\ events'[call.id] = events[call.id] \cup {decision}
      BY <1>p, <1>x, <2>1, <2>3, <3>1
    <3>3. CASE Goto("undo check")
      BY <3>2, <3>3, GotoFields DEF Goto, Journals, Steps
    <3> QED BY <2>o, <2>3, <3>2, <3>3
  <2>4. CASE UNCHANGED events /\ Goto("undo check")
    BY <1>y, <2>1, <2>4, GotoFields DEF Goto, Journals, Steps
  <2> QED BY <1>11, <2>2, <2>3, <2>4 DEF RecoverStep, Recovered, PublishThen
<1>12. CASE UndoCheck
  <2>1. /\ UNCHANGED <<record, backup>> /\ next' = next /\ call.id \in Ids
        /\ call.task \in {"attempt", "unwind", "undo"}
    BY <1>12, <1>c DEF UndoCheck, Called, Undoing
  <2>o. ASSUME Exact', Ends \/ Errs PROVE Journals'
    BY <1>o, <2>1, <2>o
  <2>2. CASE UNCHANGED events /\ Errs
    BY <1>y, <2>o, <2>1, <2>2
  <2>3. CASE /\ "applied" \in events[call.id]
             /\ call' = [call EXCEPT !.pc = "undo replace", !.raced = FALSE] /\ UNCHANGED events
    BY <1>y, <2>1, <2>3, GotoFields DEF Journals, Steps
  <2>4. CASE /\ BackupIsExact(call.id)
             /\ MayPublish(call.id, "undo-conflict") /\ Publish(call.id, "undo-conflict") /\ Errs
    BY <1>x, <2>o, <2>1, <2>4 DEF Suffixes
  <2> QED BY <1>12, <2>2, <2>3, <2>4 DEF UndoCheck, PublishThen
<1>13. CASE UndoReplace
  <2>1. /\ UNCHANGED <<record, backup, events>> /\ next' = next /\ "applied" \in events[call.id]
        /\ call.task \in {"attempt", "unwind", "undo"}
    BY <1>13 DEF UndoReplace, Journals, Called, Undoing
  <2>2. CASE Goto("undo verify")
    BY <1>y, <2>1, <2>2, GotoFields DEF Goto, Journals, Steps
  <2>3. CASE Errs
    BY <1>y, <1>o, <2>1, <2>3
  <2> QED BY <1>13, <2>2, <2>3 DEF UndoReplace
<1>14. CASE UndoVerify
  <2>1. /\ UNCHANGED <<record, backup, events>> /\ next' = next /\ "applied" \in events[call.id]
        /\ call.task \in {"attempt", "unwind", "undo"}
    BY <1>14 DEF UndoVerify, Journals, Called, Undoing
  <2>2. CASE Goto("undo publish")
    BY <1>y, <2>1, <2>2, GotoFields DEF Goto, Journals, Steps
  <2>3. CASE Errs
    BY <1>y, <1>o, <2>1, <2>3
  <2> QED BY <1>14, <2>2, <2>3 DEF UndoVerify
<1>15. CASE PublishUndone
  <2>1. /\ UNCHANGED <<record, backup>> /\ next' = next /\ call.id \in Ids
        /\ call.task \in {"attempt", "unwind", "undo"} /\ BackupIsExact(call.id)
    BY <1>15, <1>c DEF PublishUndone, Called, Undoing, Journals
  <2>o. ASSUME Exact', Ends \/ Errs PROVE Journals'
    BY <1>o, <2>1, <2>o
  <2>2. CASE MayPublish(call.id, "undone") /\ Publish(call.id, "undone") /\ (Ends \/ Errs)
    BY <1>x, <2>o, <2>1, <2>2 DEF Suffixes
  <2>3. CASE UNCHANGED events /\ Errs
    BY <1>y, <2>o, <2>1, <2>3
  <2> QED BY <1>15, <2>2, <2>3 DEF PublishUndone, PublishThen
<1>16. CASE \E i \in Prepared : Undo(i) \/ Recover(i)
  <2>1. PICK i \in Prepared : Undo(i) \/ Recover(i)
    BY <1>16
  <2>2. UNCHANGED <<record, backup, events>>
    BY <2>1 DEF Undo, Recover
  <2>3. call'.pc = "undo check" \/ (call'.pc = "recover" /\ call'.task = "recover")
    BY <2>1 DEF Undo, Recover, Idle
  <2> QED BY <1>y, <2>2, <2>3 DEF Journals
<1>17. CASE \E t \in Targets, c \in Contents : Edit(t, c)
  <2>1. PICK t \in Targets, c \in Contents : Edit(t, c)
    BY <1>17
  <2>2. call'.pc = call.pc /\ call'.id = call.id /\ call'.task = call.task
        /\ UNCHANGED <<record, backup, events>>
    BY <2>1 DEF Edit, Called, Calls
  <2> QED BY <1>y, <2>2 DEF Journals, BackupIsExact
<1>18. CASE Crash
  BY <1>18, <1>y DEF Crash, Journals, Idle
<1>19. CASE UNCHANGED vars
  BY <1>19 DEF vars, Journals, BackupIsExact
<1> QED BY <1>1, <1>2, <1>3, <1>4, <1>5, <1>6, <1>7, <1>8, <1>9, <1>10, <1>11, <1>12, <1>13,
           <1>14, <1>15, <1>16, <1>17, <1>18, <1>19 DEF Next

\* What the last writer of a target did stays what its journal may say.
LEMMA WritesStep ==
    ASSUME JInv, [Next]_vars
    PROVE  Writes'
<1> USE DEF journal, bounds, history
<1> DEFINE Denied == {"aborted", "conflict", "undone"}
           Told == \A t \in Targets : wrote[t].how # "edit" =>
              LET i == wrote[t].by
              IN  /\ i \in Begun /\ record[i].target = t /\ events[i] # {}
                  /\ wrote[t].how = "apply" =>
                        /\ file[t] = record[i].after
                        /\ record[i].before # record[i].after => events[i] \cap Denied = {}
                  /\ wrote[t].how = "undo" =>
                        /\ file[t] = record[i].before
                        /\ "applied" \in events[i]
           Kept == \A i \in Begun : i \in Begun' /\ record'[i] = record[i]
<1>1. Stored /\ Called /\ Journals /\ Told
  BY DEF JInv, Writes
<1>2. Begun \subseteq Ids /\ (call.pc # "idle" => call.id \in Ids /\ call.id \in Begun)
  BY <1>1, BegunAreIds DEF Called
<1>3. UNCHANGED <<next, record>> => Kept
  BY DEF Begun
<1>u. ASSUME UNCHANGED <<file, wrote, events>>, Kept PROVE Told'
  BY <1>1, <1>u
<1>p. ASSUME NEW s \in Suffixes, UNCHANGED <<file, wrote>>, Kept, Publish(call.id, s), call.id \in Ids,
             \/ s \notin Denied
             \/ \A t \in Targets : ~(wrote[t].how = "apply" /\ wrote[t].by = call.id /\ Target = t
                                     /\ file[t] = Item.after /\ Item.before # Item.after)
      PROVE  Told'
  <2> SUFFICES ASSUME NEW t \in Targets, wrote[t].how # "edit"
               PROVE  LET i == wrote[t].by
                      IN  /\ i \in Begun' /\ record'[i].target = t /\ events'[i] # {}
                          /\ wrote[t].how = "apply" =>
                                /\ file[t] = record'[i].after
                                /\ record'[i].before # record'[i].after => events'[i] \cap Denied = {}
                          /\ wrote[t].how = "undo" =>
                                /\ file[t] = record'[i].before
                                /\ "applied" \in events'[i]
    BY <1>p
  <2> DEFINE i == wrote[t].by
  <2>1. i \in Begun /\ i \in Ids /\ i \in Begun' /\ record'[i] = record[i]
    BY <1>1, <1>2, <1>p
  <2>2. events'[i] = IF i = call.id THEN events[i] \cup {s} ELSE events[i]
    BY <1>1, <1>p, <2>1 DEF Publish, Stored
  <2> QED BY <1>1, <1>p, <2>1, <2>2 DEF Target, Item
<1>o. ASSUME Told', call'.pc \notin {"revalidate", "replace", "undo verify", "undo publish"}
      PROVE  Writes'
  BY <1>o DEF Writes
<1>e. ASSUME Ends \/ Errs, next' = next
      PROVE  call'.pc \notin {"revalidate", "replace", "undo verify", "undo publish"}
  BY <1>1, <1>e, Outcome
<1>b. ASSUME NEW task, NEW items, NEW done, BeginItem(task, items, done)
      PROVE  Kept /\ call'.pc = "read"
  BY <1>1, <1>b DEF BeginItem, Stored, Begun
<1>f. ASSUME UNCHANGED <<file, wrote, events, record, next>>, Ends \/ Errs
      PROVE  Writes'
  BY <1>3, <1>e, <1>f, <1>o, <1>u
<1>g. ASSUME UNCHANGED <<file, wrote, events, record, next>>,
             NEW pc \in {"backup", "verify", "publish", "recover", "undo check", "undo replace"},
             call' = [call EXCEPT !.pc = pc] \/ call' = [call EXCEPT !.pc = pc, !.raced = FALSE]
      PROVE  Writes'
  BY <1>1, <1>3, <1>g, <1>o, <1>u, GotoFields DEF Steps
<1>4. CASE Apply
  BY <1>4, <1>b, <1>o, <1>u DEF Apply
<1>5. CASE ApplyBatch
  BY <1>5, <1>b, <1>o, <1>u DEF ApplyBatch
<1>6. CASE ReadTarget
  BY <1>6, <1>f, <1>g DEF ReadTarget, Goto
<1>7. CASE WriteBackup
  <2>1. CASE Errs
    BY <1>7, <1>f, <2>1 DEF WriteBackup
  <2>2. CASE Goto("prepare")
    BY <1>1, <1>3, <1>7, <1>o, <1>u, <2>2, GotoFields DEF WriteBackup, Goto, Steps
  <2> QED BY <1>7, <2>1, <2>2 DEF WriteBackup
<1>8. CASE PublishPrepared
  <2>1. /\ UNCHANGED <<file, wrote, record, next>> /\ call.id \in Ids /\ Kept
        /\ events[call.id] = {}
    BY <1>1, <1>2, <1>3, <1>8 DEF PublishPrepared, Journals
  <2>2. CASE UNCHANGED events /\ Errs
    BY <1>f, <2>1, <2>2
  <2>3. CASE Publish(call.id, "prepared") /\ Errs
    BY <1>e, <1>o, <1>p, <2>1, <2>3 DEF Suffixes
  <2>4. CASE Publish(call.id, "prepared") /\ Goto("revalidate")
    <3>1. Told'
      BY <1>p, <2>1, <2>4 DEF Suffixes
    <3>2. call'.pc = "revalidate" /\ call'.id = call.id
      BY <1>1, <2>4, GotoFields DEF Goto, Steps
    <3>3. \A t \in Targets : wrote[t].how # "edit" => wrote[t].by # call.id
      BY <1>1, <2>1
    <3> QED BY <2>1, <3>1, <3>2, <3>3 DEF Writes
  <2> QED BY <1>8, <2>2, <2>3, <2>4 DEF PublishPrepared, PublishThen
<1>9. CASE Revalidate
  <2>1. /\ UNCHANGED <<file, wrote, record, next>> /\ call.id \in Ids /\ Kept
        /\ \A t \in Targets : wrote[t].how # "edit" => wrote[t].by # call.id
    BY <1>2, <1>3, <1>9 DEF Revalidate, JInv, Writes
  <2>2. CASE UNCHANGED events /\ Errs
    BY <1>f, <2>1, <2>2
  <2>3. CASE Publish(call.id, "conflict") /\ Errs
    BY <1>e, <1>o, <1>p, <2>1, <2>3 DEF Suffixes
  <2>4. CASE UNCHANGED events /\ call' = [call EXCEPT !.pc = "replace", !.raced = FALSE]
    <3>1. call'.pc = "replace" /\ call'.id = call.id
      BY <1>1, <2>4, GotoFields DEF Steps
    <3> QED BY <1>u, <2>1, <2>4, <3>1 DEF Writes
  <2> QED BY <1>9, <2>2, <2>3, <2>4 DEF Revalidate, PublishThen
<1>10. CASE Replace
  <2>1. CASE UNCHANGED <<file, wrote>> /\ Errs
    BY <1>10, <1>f, <2>1 DEF Replace
  <2>2. CASE AtomicReplace(Item.after, "apply") /\ Goto("verify")
    <3>1. /\ Kept /\ call.id \in Begun /\ events[call.id] = {"prepared"} /\ UNCHANGED events
      BY <1>1, <1>2, <1>3, <1>10 DEF Replace, Journals
    <3>2. Target \in Targets /\ record[call.id].target = Target /\ Item = record[call.id]
      BY <1>1, <3>1 DEF Stored, Target, Items, Item
    <3>3. /\ wrote'[Target] = [by |-> call.id, how |-> "apply"] /\ file'[Target] = record[call.id].after
          /\ \A t \in Targets \ {Target} : wrote'[t] = wrote[t] /\ file'[t] = file[t]
      BY <1>1, <2>2, <3>2 DEF AtomicReplace, Stored
    <3>4. Told'
      BY <1>1, <3>1, <3>2, <3>3
    <3> QED BY <1>1, <1>o, <2>2, <3>4, GotoFields DEF Goto, Steps
  <2> QED BY <1>10, <2>1, <2>2 DEF Replace
<1>11. CASE Verify
  BY <1>11, <1>f, <1>g DEF Verify, Goto
<1>12. CASE PublishApplied
  <2>1. UNCHANGED <<file, wrote>> /\ call.id \in Ids /\ call.pc = "publish"
    BY <1>2, <1>12 DEF PublishApplied
  <2>2. CASE UNCHANGED <<events, record, next>> /\ Errs
    BY <1>f, <2>1, <2>2
  <2>3. CASE Publish(call.id, "applied") /\ Errs /\ UNCHANGED <<record, next>>
    BY <1>3, <1>e, <1>o, <1>p, <2>1, <2>3 DEF Suffixes
  <2>4. CASE Publish(call.id, "applied") /\ Applied
    <3>1. Kept /\ call'.pc \in {"idle", "read"}
      BY <1>3, <1>b, <2>4 DEF Applied, Idle
    <3> QED BY <1>o, <1>p, <2>1, <2>4, <3>1 DEF Suffixes
  <2> QED BY <1>12, <2>2, <2>3, <2>4 DEF PublishApplied, PublishThen
<1>13. CASE RollbackFailedAttempt
  BY <1>13, <1>f, <1>g DEF RollbackFailedAttempt, Goto
<1>14. CASE RecoverStep
  <2> DEFINE decision == Decision(call.id)
  <2>1. UNCHANGED <<file, wrote, record, next>> /\ call.id \in Ids /\ Kept
    BY <1>2, <1>3, <1>14 DEF RecoverStep
  <2>2. CASE UNCHANGED events /\ (Ends \/ Errs \/ Goto("undo check"))
    BY <1>f, <1>g, <2>1, <2>2 DEF Goto
  <2>3. CASE /\ decision \in Suffixes \ ({"conflict"} \cup events[call.id])
             /\ Publish(call.id, decision)
             /\ Ends \/ Errs \/ Goto("undo check")
    <3>1. \/ decision \notin Denied
          \/ \A t \in Targets : ~(wrote[t].how = "apply" /\ wrote[t].by = call.id /\ Target = t
                                  /\ file[t] = Item.after /\ Item.before # Item.after)
      BY <2>3 DEF Decision, Target, Item
    <3>2. Told'
      BY <1>p, <2>1, <2>3, <3>1
    <3> QED BY <1>1, <1>e, <1>o, <2>1, <2>3, <3>2, GotoFields DEF Goto, Steps
  <2> QED BY <1>14, <2>2, <2>3 DEF RecoverStep, Recovered, PublishThen
<1>15. CASE UndoCheck
  <2>1. UNCHANGED <<file, wrote, record, next>> /\ call.id \in Ids /\ Kept
    BY <1>2, <1>3, <1>15 DEF UndoCheck
  <2>2. CASE UNCHANGED events /\ Errs
    BY <1>f, <2>1, <2>2
  <2>3. CASE Publish(call.id, "undo-conflict") /\ Errs
    BY <1>e, <1>o, <1>p, <2>1, <2>3 DEF Suffixes
  <2>4. CASE UNCHANGED events /\ call' = [call EXCEPT !.pc = "undo replace", !.raced = FALSE]
    BY <1>g, <2>1, <2>4
  <2> QED BY <1>15, <2>2, <2>3, <2>4 DEF UndoCheck, PublishThen
<1>16. CASE UndoReplace
  <2>1. CASE UNCHANGED <<file, wrote>> /\ Errs
    BY <1>16, <1>f, <2>1 DEF UndoReplace
  <2>2. CASE AtomicReplace(backup[call.id], "undo") /\ Goto("undo verify")
    <3>1. /\ Kept /\ call.id \in Begun /\ "applied" \in events[call.id] /\ UNCHANGED <<events, record>>
          /\ backup[call.id] = record[call.id].before
      BY <1>1, <1>2, <1>3, <1>16 DEF UndoReplace, Journals, BackupIsExact
    <3>2. Target \in Targets /\ record[call.id].target = Target
      BY <1>1, <3>1 DEF Stored, Target, Items
    <3>3. /\ wrote'[Target] = [by |-> call.id, how |-> "undo"] /\ file'[Target] = record[call.id].before
          /\ \A t \in Targets \ {Target} : wrote'[t] = wrote[t] /\ file'[t] = file[t]
      <4>1. /\ file' = [file EXCEPT ![Target] = backup[call.id]]
            /\ wrote' = [wrote EXCEPT ![Target] = [by |-> call.id, how |-> "undo"]]
        BY <2>2 DEF AtomicReplace
      <4>2. DOMAIN file = Targets /\ DOMAIN wrote = Targets
        BY <1>1 DEF Stored
      <4>3. file \in [Targets -> Contents] /\ wrote = [t \in Targets |-> wrote[t]]
        BY <1>1 DEF Stored
      <4> QED BY <3>1, <3>2, <4>1, <4>2, <4>3
    <3>4. Told'
      BY <1>1, <3>1, <3>2, <3>3
    <3>5. call'.pc = "undo verify" /\ call'.id = call.id
      BY <1>1, <2>2, GotoFields DEF Goto, Steps
    <3>6. Target' = Target
      BY <3>1, <3>5 DEF Target
    <3>7. ~(wrote[Target].how = "apply" /\ wrote[Target].by = call.id)'
      BY <3>3, <3>6
    <3> QED BY <3>4, <3>5, <3>7 DEF Writes
  <2> QED BY <1>16, <2>1, <2>2 DEF UndoReplace
<1>17. CASE UndoVerify
  <2>1. CASE Errs
    BY <1>17, <1>f, <2>1 DEF UndoVerify
  <2>2. CASE Goto("undo publish")
    <3>1. /\ call'.pc = "undo publish" /\ call'.id = call.id /\ UNCHANGED <<file, wrote, events, record, next>>
      BY <1>1, <1>17, <2>2, GotoFields DEF UndoVerify, Goto, Steps
    <3>2. Target' = Target
      BY <3>1 DEF Target
    <3>3. ~(wrote[Target].how = "apply" /\ wrote[Target].by = call.id)
      BY <1>17 DEF UndoVerify, JInv, Writes
    <3> QED BY <1>3, <1>u, <3>1, <3>2, <3>3 DEF Writes
  <2> QED BY <1>17, <2>1, <2>2 DEF UndoVerify
<1>18. CASE PublishUndone
  <2>1. /\ UNCHANGED <<file, wrote, record, next>> /\ call.id \in Ids /\ Kept
        /\ ~(wrote[Target].how = "apply" /\ wrote[Target].by = call.id)
    BY <1>2, <1>3, <1>18 DEF PublishUndone, JInv, Writes
  <2>2. CASE UNCHANGED events /\ Errs
    BY <1>f, <2>1, <2>2
  <2>3. CASE Publish(call.id, "undone") /\ (Ends \/ Errs)
    BY <1>e, <1>o, <1>p, <2>1, <2>3 DEF Suffixes
  <2> QED BY <1>18, <2>2, <2>3 DEF PublishUndone, PublishThen
<1>19. CASE \E i \in Prepared : Undo(i) \/ Recover(i)
  <2>1. call'.pc \in {"undo check", "recover"} /\ UNCHANGED <<file, wrote, events, record, next>>
    BY <1>19 DEF Undo, Recover, Idle
  <2> QED BY <1>3, <1>o, <1>u, <2>1
<1>20. CASE \E t \in Targets, c \in Contents : Edit(t, c)
  <2>1. PICK t \in Targets, c \in Contents : Edit(t, c)
    BY <1>20
  <2>2. /\ wrote'[t].how = "edit"
        /\ \A u \in Targets \ {t} : wrote'[u] = wrote[u] /\ file'[u] = file[u]
        /\ UNCHANGED <<events, record, next>>
    BY <1>1, <2>1 DEF Edit, Stored
  <2>3. Told'
    BY <1>1, <1>3, <2>2
  <2>4. call'.pc = call.pc /\ call'.id = call.id
    BY <1>1, <2>1 DEF Edit, Called, Calls
  <2>5. call.pc # "idle" => Target' = Target /\ Target \in Targets
    BY <1>1, <1>2, <2>2, <2>4 DEF Target, Stored, Items
  <2>6. (call.pc \in {"undo verify", "undo publish"} =>
            ~(wrote[Target].how = "apply" /\ wrote[Target].by = call.id))'
    <3> SUFFICES ASSUME call'.pc \in {"undo verify", "undo publish"}
                 PROVE  ~(wrote'[Target'].how = "apply" /\ wrote'[Target'].by = call'.id)
      OBVIOUS
    <3>1. ~(wrote[Target].how = "apply" /\ wrote[Target].by = call.id)
      BY <2>4 DEF JInv, Writes
    <3>2. Target' = Target /\ Target \in Targets
      BY <2>4, <2>5
    <3> QED BY <2>2, <2>4, <3>1, <3>2
  <2>7. (call.pc \in {"revalidate", "replace"} =>
            \A u \in Targets : wrote[u].how # "edit" => wrote[u].by # call.id)'
    BY <2>2, <2>4 DEF JInv, Writes
  <2> QED BY <2>3, <2>6, <2>7 DEF Writes
<1>21. CASE Crash
  <2>1. call'.pc = "idle" /\ UNCHANGED <<file, wrote, events, record, next>>
    BY <1>21 DEF Crash, Idle
  <2> QED BY <1>3, <1>o, <1>u, <2>1
<1>22. CASE UNCHANGED vars
  BY <1>22 DEF vars, JInv, Writes, Begun, Target
<1> QED BY <1>4, <1>5, <1>6, <1>7, <1>8, <1>9, <1>10, <1>11, <1>12, <1>13, <1>14, <1>15,
           <1>16, <1>17, <1>18, <1>19, <1>20, <1>21, <1>22 DEF JInv, Next

\* What the last check of the target saw is still there, unless the call was raced.
LEMMA CheckedStep ==
    ASSUME JInv, Checked, [Next]_vars
    PROVE  Checked'
<1> USE DEF journal, bounds, history
<1>1. Stored /\ Called
  BY DEF JInv
<1>o. ASSUME Ends \/ Errs, next' = next
      PROVE  Checked'
  BY <1>1, <1>o, Outcome DEF Checked
<1>g. ASSUME NEW pc \in Steps \ {"replace", "undo replace"}, Goto(pc)
      PROVE  Checked'
  BY <1>1, <1>g, GotoFields DEF Goto, Checked
<1>n. ASSUME call'.pc \notin {"replace", "undo replace"}
      PROVE  Checked'
  BY <1>n DEF Checked
<1>2. CASE Apply
  BY <1>2, <1>n DEF Apply, BeginItem
<1>3. CASE ApplyBatch
  BY <1>3, <1>n DEF ApplyBatch, BeginItem
<1>4. CASE ReadTarget
  BY <1>4, <1>o, <1>g DEF ReadTarget, Steps
<1>5. CASE WriteBackup
  BY <1>5, <1>o, <1>g DEF WriteBackup, Steps
<1>6. CASE PublishPrepared
  BY <1>6, <1>o, <1>g DEF PublishPrepared, PublishThen, Steps
<1>7. CASE Revalidate
  <2>1. CASE Errs
    BY <1>7, <1>o, <2>1 DEF Revalidate
  <2>2. CASE file[Target] = Item.before /\ call' = [call EXCEPT !.pc = "replace", !.raced = FALSE]
    <3>1. call'.pc = "replace" /\ call'.id = call.id /\ UNCHANGED <<file, record>>
      BY <1>1, <1>7, <2>2, GotoFields DEF Revalidate, Steps
    <3>2. Target' = Target /\ Item' = Item
      BY <3>1 DEF Target, Item
    <3> QED BY <2>2, <3>1, <3>2 DEF Checked
  <2> QED BY <1>7, <2>1, <2>2 DEF Revalidate, PublishThen
<1>8. CASE Replace
  BY <1>8, <1>o, <1>g DEF Replace, Steps
<1>9. CASE Verify
  BY <1>9, <1>o, <1>g DEF Verify, Steps
<1>10. CASE PublishApplied
  <2>1. CASE Applied
    <3>1. CASE call' = Idle
      BY <1>n, <3>1 DEF Idle
    <3>2. CASE BeginItem("batch", call.items, Append(call.done, call.id))
      BY <1>n, <3>2 DEF BeginItem
    <3> QED BY <2>1, <3>1, <3>2 DEF Applied
  <2>2. CASE PublishThen("applied", FALSE) /\ UNCHANGED next
    BY <1>o, <2>2 DEF PublishThen
  <2> QED BY <1>10, <2>1, <2>2 DEF PublishApplied
<1>11. CASE RollbackFailedAttempt
  BY <1>11, <1>o, <1>g DEF RollbackFailedAttempt, Steps
<1>12. CASE RecoverStep
  BY <1>12, <1>o, <1>g DEF RecoverStep, Recovered, PublishThen, Steps
<1>13. CASE UndoCheck
  <2>1. CASE Errs
    BY <1>13, <1>o, <2>1 DEF UndoCheck
  <2>2. CASE file[Target] = Item.after /\ call' = [call EXCEPT !.pc = "undo replace", !.raced = FALSE]
    <3>1. call'.pc = "undo replace" /\ call'.id = call.id /\ UNCHANGED <<file, record>>
      BY <1>1, <1>13, <2>2, GotoFields DEF UndoCheck, Steps
    <3>2. Target' = Target /\ Item' = Item
      BY <3>1 DEF Target, Item
    <3> QED BY <2>2, <3>1, <3>2 DEF Checked
  <2> QED BY <1>13, <2>1, <2>2 DEF UndoCheck, PublishThen
<1>14. CASE UndoReplace
  BY <1>14, <1>o, <1>g DEF UndoReplace, Steps
<1>15. CASE UndoVerify
  BY <1>15, <1>o, <1>g DEF UndoVerify, Steps
<1>16. CASE PublishUndone
  BY <1>16, <1>o DEF PublishUndone, PublishThen
<1>17. CASE \E i \in Prepared : Undo(i) \/ Recover(i)
  BY <1>17, <1>n DEF Undo, Recover, Idle
<1>18. CASE \E t \in Targets, c \in Contents : Edit(t, c)
  <2>1. PICK t \in Targets, c \in Contents : Edit(t, c)
    BY <1>18
  <2> SUFFICES ASSUME call'.pc \in {"replace", "undo replace"}, ~call'.raced
               PROVE  Checked'
    BY DEF Checked
  <2>2. call'.pc = call.pc /\ call'.id = call.id
    BY <1>1, <2>1 DEF Edit, Called, Calls
  <2>3. ~call.raced /\ ~(call # Idle /\ Target = t)
    <3>1. call'.raced = (call.raced \/ (call # Idle /\ Target = t))
      BY <1>1, <2>1 DEF Edit, Called, Calls
    <3> QED BY <3>1, Zenon
  <2>4. call # Idle
    <3>1. Idle.pc = "idle"
      BY DEF Idle
    <3> QED BY <2>2, <3>1
  <2>5. UNCHANGED record /\ file' = [file EXCEPT ![t] = c]
    BY <2>1 DEF Edit
  <2>6. Target' = Target /\ Item' = Item
    BY <2>2, <2>5 DEF Target, Item
  <2>7. Target \in Targets
    BY <1>1, <2>2, BegunAreIds DEF Called, Stored, Target, Items
  <2>8. file'[Target] = file[Target]
    BY <1>1, <2>3, <2>4, <2>5, <2>7 DEF Stored
  <2> QED BY <2>2, <2>3, <2>6, <2>8 DEF Checked
<1>19. CASE Crash
  BY <1>19, <1>n DEF Crash, Idle
<1>20. CASE UNCHANGED vars
  BY <1>20 DEF vars, Checked, Target, Item
<1> QED BY <1>2, <1>3, <1>4, <1>5, <1>6, <1>7, <1>8, <1>9, <1>10, <1>11, <1>12, <1>13, <1>14,
           <1>15, <1>16, <1>17, <1>18, <1>19, <1>20 DEF Next

\* The executor starts idle, without transactions.
LEMMA JInit ==
    ASSUME Init
    PROVE  JInv /\ Checked
<1>1. next = 1 /\ next \in 1..(MaxIds + 1) /\ Begun = {}
  BY BoundsAssumption DEF Init, Begun
<1>2. Stored
  BY <1>1 DEF Init, Stored
<1>3. Idle \in Calls /\ Idle.pc = "idle" /\ Idle.done = <<>> /\ NoBatch \in BatchRecords
  BY DEF Idle, Calls, Steps, Tasks, NoBatch, BatchRecords
<1>4. call = Idle /\ Applieds = {} /\ batch = NoBatch
  BY <1>3, ElementsOfEmpty DEF Init, Applieds
<1>5. Called
  BY <1>3, <1>4 DEF Called, Forward, Undoing
<1>6. Journals /\ Writes /\ Checked
  BY <1>3, <1>4 DEF Init, Journals, Writes, Checked
<1> QED BY <1>2, <1>5, <1>6 DEF JInv

\* The journal's part of the invariant is kept by every step.
LEMMA JStep ==
    ASSUME JInv /\ Checked, [Next]_vars
    PROVE  (JInv /\ Checked)'
BY ControlStep, JournalsStep, WritesStep, CheckedStep DEF JInv

LEMMA JInvHolds == Spec => [](JInv /\ Checked)
BY JInit, JStep, PTL DEF Spec

-----------------------------------------------------------------------------
\* Every variable keeps its type, and no transaction has a journal before it is begun.
THEOREM TypeCorrect == Spec => []TypeOK
<1>1. JInv => TypeOK
  <2> SUFFICES ASSUME JInv PROVE TypeOK
    OBVIOUS
  <2>1. Stored /\ Called
    BY DEF JInv
  <2>2. \A i \in Ids : events[i] # {} => i < next
    BY <2>1 DEF Stored, Begun
  <2> QED BY <2>1, <2>2 DEF Stored, Called, Calls, TypeOK
<1> QED BY <1>1, JInvHolds, PTL

\* Between calls the journal of a target's last writer agrees with the target:
\* what was replaced is not journalled as if it had not been, and what an undo
\* restored was journalled as applied, with an exact backup.
THEOREM JournalTellsTheTruthHolds == Spec => []JournalTellsTheTruth
<1>1. JInv => JournalTellsTheTruth
  BY BegunAreIds DEF JInv, Journals, Writes, JournalTellsTheTruth
<1> QED BY <1>1, JInvHolds, PTL

\* A replacement hits what the last check of the target saw, unless the target
\* was edited between that check and the rename.
THEOREM EditsAreCheckedHolds == Spec => EditsAreChecked
<1> USE DEF journal, bounds, history
<1> DEFINE A == \A t \in Targets :
                  (wrote'[t] # wrote[t] /\ wrote'[t].how # "edit" /\ ~call.raced)
                  => file[t] = IF wrote'[t].how = "apply" THEN Item.before ELSE Item.after
<1>1. ASSUME JInv /\ Checked, [Next]_vars
      PROVE  A
  <2>1. wrote \in [Targets -> [by : Ids \cup {0}, how : {"edit", "apply", "undo"}]]
    BY <1>1 DEF JInv, Stored
  <2>2. CASE Replace
    <3>1. \A t \in Targets : wrote'[t] # wrote[t] => t = Target /\ wrote'[t].how = "apply"
      BY <2>1, <2>2 DEF Replace, AtomicReplace
    <3> QED BY <1>1, <2>2, <3>1 DEF Replace, Checked
  <2>3. CASE UndoReplace
    <3>0. wrote' = wrote \/ wrote' = [wrote EXCEPT ![Target] = [by |-> call.id, how |-> "undo"]]
      BY <2>3 DEF UndoReplace, AtomicReplace
    <3>1. \A t \in Targets : wrote'[t] # wrote[t] => t = Target /\ wrote'[t].how = "undo"
      BY <2>1, <3>0
    <3> QED BY <1>1, <2>3, <3>1 DEF UndoReplace, Checked
  <2>4. CASE \E t \in Targets, c \in Contents : Edit(t, c)
    BY <2>1, <2>4 DEF Edit
  <2>5. CASE wrote' = wrote
    BY <2>5
  <2> QED BY <1>1, <2>2, <2>3, <2>4, <2>5
       DEF Next, Apply, ApplyBatch, ReadTarget, WriteBackup, PublishPrepared, Revalidate, Verify,
           PublishApplied, RollbackFailedAttempt, RecoverStep, UndoCheck, UndoVerify,
           PublishUndone, Undo, Recover, Crash, vars
<1>2. EditsAreChecked <=> [][A]_vars
  BY DEF EditsAreChecked
<1> QED BY <1>1, <1>2, JInvHolds, PTL DEF Spec

-----------------------------------------------------------------------------
(* What is in effect of a batch.                                           *)

\* A transaction that wrote nothing makes no difference.
LEMMA HoldsWithout ==
    ASSUME NEW M, NEW S, NEW r, NEW content, NEW id, id \notin M
    PROVE  Holds(M, S \cup {id}, r, content) <=> Holds(M, S, r, content)
<1>1. M \cap (S \cup {id}) = M \cap S /\ M \ (S \cup {id}) = M \ S
  OBVIOUS
<1> QED BY <1>1 DEF Holds

\* The last transaction of the batch has written its content.
LEMMA HoldsApplied ==
    ASSUME NEW M \in SUBSET Int, NEW S, NEW r, NEW id \in M,
           \A i \in M : i <= id /\ (i < id => i \in S)
    PROVE  Holds(M, S \cup {id}, r, r[id].after)
BY DEF Holds

\* A transaction is rolled back after all the later ones.
LEMMA HoldsReverted ==
    ASSUME NEW M \in SUBSET Int, NEW S, NEW r, NEW id \in M, Chain(M, r),
           \A i \in M : i < id <=> i \in S
    PROVE  Holds(M, S, r, r[id].before)
<1>1. ASSUME NEW i \in M \cap S, \A j \in M \cap S : j <= i
      PROVE  r[id].before = r[i].after
  <2>1. i < id /\ \A k \in M : k <= i \/ id <= k
    BY <1>1
  <2> QED BY <2>1 DEF Chain
<1>2. ASSUME NEW i \in M \ S, \A j \in M \ S : i <= j
      PROVE  i = id
  BY <1>2
<1> QED BY <1>1, <1>2 DEF Holds

\* A transaction joins the batch that found what the earlier ones had left.
LEMMA HoldsJoined ==
    ASSUME NEW M \in SUBSET Int, NEW S, NEW r, NEW id \in Int, id \notin S,
           \A i \in M : i \in S /\ i < id,
           Chain(M, r), Holds(M, S, r, r[id].before)
    PROVE  Holds(M \cup {id}, S, r, r[id].before) /\ Chain(M \cup {id}, r)
<1>1. (M \cup {id}) \cap S = M \cap S /\ (M \cup {id}) \ S = {id} /\ M \cap S = M
  OBVIOUS
<1>2. Holds(M \cup {id}, S, r, r[id].before)
  BY <1>1 DEF Holds
<1>3. ASSUME NEW i \in M \cup {id}, NEW j \in M \cup {id}, i < j,
             \A k \in M \cup {id} : k <= i \/ j <= k
      PROVE  r[i].after = r[j].before
  <2>1. i \in M
    BY <1>3
  <2>2. CASE j \in M
    BY <1>3, <2>1, <2>2 DEF Chain
  <2>3. CASE j = id
    <3>1. \A k \in M \cap S : k <= i
      BY <1>3, <2>3
    <3> QED BY <1>1, <2>1, <2>3, <3>1 DEF Holds
  <2> QED BY <2>2, <2>3
<1> QED BY <1>2, <1>3 DEF Chain

-----------------------------------------------------------------------------
\* The steps that leave the batch's transactions and their targets alone.
Same ==
    /\ UNCHANGED <<file, record, next, touched>>
    /\ Prepared' = Prepared
    /\ batch'.ids = batch.ids /\ batch.unrestored \subseteq batch'.unrestored

LEMMA SameMine ==
    ASSUME Same, NEW t \in Targets
    PROVE  Mine(t)' = Mine(t) /\ (Clean(t)' => Clean(t))
BY DEF Same, Mine, Clean

\* Without a batch there is nothing to keep.
LEMMA NoBatchKept ==
    ASSUME batch' = NoBatch, call'.done = <<>>, call'.pc = "idle" \/ call'.task \notin Batching,
           call'.task = "apply" => call'.items = <<>>
    PROVE  BInv'
<1>1. batch'.ids = {} /\ batch'.outcome = "none"
  BY DEF NoBatch
<1>2. Order'
  BY <1>1 DEF Order, NoBatch
<1>3. \A t \in Targets : Mine(t)' = {}
  BY <1>1 DEF Mine
<1>4. Chained'
  BY <1>3 DEF Chained, Chain
<1>5. InEffect' # {}
  BY DEF InEffect
<1>6. Levels'
  BY <1>3, <1>5 DEF Levels, Holds
<1> QED BY <1>2, <1>4, <1>6 DEF BInv, Expected, Batching

\* A batch that fails goes on with the latest item not yet rolled back.
LEMMA Unwinds ==
    ASSUME JInv, BInv, Same, call.pc # "idle", call.task \in {"attempt", "unwind"},
           call' = UnwindFrom(call.done), batch'.outcome = batch.outcome,
           \A t \in Targets : Clean(t)' => Holds(Mine(t), Applieds, record, file[t])
    PROVE  BInv'
<1> DEFINE last == call.done[Len(call.done)]
<1>1. Stored /\ Called /\ Order /\ Chained /\ call.done \in Seq(Ids)
  BY DEF JInv, BInv, Called, Calls
<1>2. /\ batch.outcome = "error" /\ call.id \in batch.ids /\ Applieds \subseteq batch.ids
      /\ \A i \in batch.ids : i < call.id <=> i \in Applieds
      /\ batch.ids \subseteq Begun /\ Begun' = Begun /\ batch'.ids = batch.ids
      /\ \A m, n \in 1..Len(call.done) : m < n => call.done[m] < call.done[n]
  BY <1>1 DEF Order, Batching, Same, Begun
<1>3. Begun \subseteq Int
  BY DEF Begun
<1>4. Chained'
  <2> SUFFICES ASSUME NEW t \in Targets, Clean(t)' PROVE Chain(Mine(t)', record')
    BY DEF Chained
  <2> QED BY <1>1, SameMine DEF Chained, Same
<1>5. \A t \in Targets : Clean(t)' => Holds(Mine(t)', Applieds, record', file'[t])
  BY SameMine DEF Same
<1>6. CASE call.done = <<>>
  <2>1. call' = Idle
    BY <1>1, <1>6, UnwindCall
  <2>2. Applieds = {}
    BY <1>6, ElementsOfEmpty DEF Applieds
  <2>3. Order'
    BY <1>2, <2>1 DEF Order, Idle, Batching
  <2>4. InEffect' = {{}}
    BY <1>2, <2>1 DEF InEffect, Idle
  <2>5. Levels'
    BY <1>5, <2>2, <2>4 DEF Levels
  <2> QED BY <1>4, <2>1, <2>3, <2>5 DEF BInv, Expected, Idle
<1>7. CASE call.done # <<>>
  <2>1. /\ call'.pc = "undo check" /\ call'.task = "unwind" /\ call'.id = last
        /\ Applieds = Applieds' \cup {last}
        /\ Len(call'.done) = Len(call.done) - 1
        /\ \A m \in 1..Len(call'.done) : call'.done[m] = call.done[m]
    BY <1>1, <1>7, UnwindCall DEF Applieds
  <2> DEFINE n == Len(call.done)
  <2>2. n \in Nat \ {0} /\ n \in 1..n /\ last = call.done[n]
    BY <1>1, <1>7
  <2>0. Len(call'.done) = n - 1 /\ \A m \in 1..(n - 1) : call'.done[m] = call.done[m]
    BY <2>1
  <2> HIDE DEF n, last
  <2>3. last \in Applieds
    BY <2>1
  <2>4. \A i \in Applieds' : i < last /\ i \in Applieds
    <3> SUFFICES ASSUME NEW m \in 1..Len(call'.done) PROVE call'.done[m] < last
      BY <2>1 DEF Applieds, Elements
    <3>1. m \in 1..n /\ m < n /\ call'.done[m] = call.done[m]
      BY <2>0, <2>2
    <3> QED BY <1>2, <2>2, <3>1 DEF n
  <2>5. \A i \in batch.ids : i < last <=> i \in Applieds'
    <3>1. batch.ids \subseteq Int /\ last \in batch.ids /\ last < call.id
      BY <1>2, <1>3, <2>3
    <3>2. ASSUME NEW i \in batch.ids, i < last
          PROVE  i \in Applieds' /\ i # last
      <4>1. i \in Int /\ last \in Int /\ call.id \in Int /\ i < call.id /\ i # last
        BY <1>2, <3>1, <3>2
      <4> QED BY <1>2, <2>1, <3>2, <4>1
    <3> QED BY <2>4, <3>2
  <2>6. \A m, k \in 1..Len(call'.done) : m < k => call'.done[m] < call'.done[k]
    <3> SUFFICES ASSUME NEW l \in 1..(n - 1), NEW m \in 1..(n - 1), l < m
                 PROVE  call'.done[l] < call'.done[m]
      BY <2>0
    <3>1. l \in 1..n /\ m \in 1..n
      BY <2>2
    <3> QED BY <1>2, <2>0, <3>1 DEF n
  <2>7. Order'
    BY <1>2, <2>1, <2>3, <2>4, <2>5, <2>6 DEF Order, Batching
  <2>8. InEffect' = {Applieds}
    BY <2>1 DEF InEffect
  <2>9. Levels'
    BY <1>5, <2>8 DEF Levels
  <2> QED BY <1>4, <2>1, <2>7, <2>9 DEF BInv, Expected
<1> QED BY <1>6, <1>7

\* An item of a batch goes on, or fails: what is in effect stays.
LEMMA GoesOn ==
    ASSUME JInv, BInv, Same, call.pc # "idle", call.task \in Batching, call'.done = call.done,
           call'.id = call.id, call'.items = call.items, call'.pc # "idle",
           InEffect \subseteq InEffect',
           Expected',
           \/ call'.task = call.task /\ batch' = batch
           \/ call.task = "batch" /\ call'.task = "attempt" /\ batch'.outcome = "error"
    PROVE  BInv'
<1>1. Order /\ Chained /\ Levels
  BY DEF BInv
<1>2. Applieds' = Applieds /\ Begun' = Begun
  BY DEF Applieds, Same, Begun
<1>3. Order'
  BY <1>1, <1>2 DEF Order, Batching, Same
<1>4. \A t \in Targets : Mine(t)' = Mine(t) /\ (Clean(t)' => Clean(t))
  BY SameMine
<1>5. Chained' /\ Levels'
  BY <1>1, <1>4 DEF Chained, Levels, Same
<1> QED BY <1>3, <1>5 DEF BInv

\* The order of a batch that goes on with its item.
LEMMA OrderKept ==
    ASSUME Order, next' = next, batch'.ids = batch.ids, call.pc # "idle", call.task \in Batching,
           call'.done = call.done, call'.id = call.id, call'.items = call.items,
           call'.pc # "idle",
           \/ call'.task = call.task /\ batch' = batch
           \/ call.task = "batch" /\ call'.task = "attempt" /\ batch'.outcome = "error"
    PROVE  Order'
<1>1. Applieds' = Applieds /\ Begun' = Begun
  BY DEF Applieds, Begun
<1> QED BY <1>1 DEF Order, Batching

\* The earlier items of a batch that are in effect, and the running one.
LEMMA RunningItem ==
    ASSUME JInv, BInv, call.pc # "idle", call.task \in Batching
    PROVE  /\ call.id \in Ids /\ call.id \in Begun /\ call.id \notin Applieds
           /\ Item = record[call.id] /\ Target = record[call.id].target /\ Target \in Targets
           /\ \A t \in Targets :
                 /\ Mine(t) \in SUBSET Int
                 /\ call.id \in Mine(t) <=> t = Target /\ call.id \in Prepared
                 /\ \A i \in Mine(t) : i < call.id <=> i \in Applieds
                 /\ call.task # "unwind"
                    => \A i \in Mine(t) : i <= call.id /\ (i < call.id => i \in Applieds)
<1>1. Stored /\ Called /\ Order
  BY DEF JInv, BInv
<1>2. /\ call.id \in Begun /\ Begun \subseteq Ids /\ call.id \in batch.ids /\ batch.ids \subseteq Begun
      /\ \A i \in batch.ids : i < call.id <=> i \in Applieds
      /\ call.task # "unwind" => \A i \in batch.ids : i <= call.id
      /\ Applieds \subseteq batch.ids
  BY <1>1, BegunAreIds DEF Called, Order
<1>3. Ids \subseteq Int
  BY DEF Ids
<1>4. record[call.id] \in Items
  BY <1>1, <1>2 DEF Stored
<1>5. ~(call.id < call.id)
  <2>1. call.id \in Int
    BY <1>2, <1>3
  <2> QED BY <2>1
<1> QED BY <1>2, <1>3, <1>4, <1>5 DEF Mine, Item, Target, Items

\* Whether the running item is in effect makes no difference to the other targets.
LEMMA WithoutItem ==
    ASSUME NEW t \in Targets, Clean(t), Levels, call.id \notin Mine(t),
           InEffect \subseteq {Applieds, Applieds \cup {call.id}}
    PROVE  /\ Holds(Mine(t), Applieds, record, file[t])
           /\ Holds(Mine(t), Applieds \cup {call.id}, record, file[t])
<1>1. PICK S \in InEffect : Holds(Mine(t), S, record, file[t])
  BY DEF Levels
<1> QED BY <1>1, HoldsWithout

\* Every step keeps what is known of the batch.
LEMMA BatchStep ==
    ASSUME JInv, BInv, [Next]_vars
    PROVE  BInv'
<1> USE DEF journal, bounds, history
<1>1. Stored /\ Called /\ Journals /\ Order /\ Chained /\ Expected /\ Levels
  BY DEF JInv, BInv
<1> DEFINE Steady == UNCHANGED <<file, record, next, touched>> /\ Prepared' = Prepared
           Going(pc) == \/ call' = [call EXCEPT !.pc = pc]
                        \/ call' = [call EXCEPT !.pc = pc, !.raced = FALSE]
           Ran == call.pc # "idle" /\ call.task \in Batching
           Either == InEffect \subseteq {Applieds, Applieds \cup {call.id}}
<1>e. ASSUME UNCHANGED events
      PROVE  Prepared' = Prepared
  BY <1>e DEF Prepared
<1>p. ASSUME NEW s, Publish(call.id, s), s = "prepared" => FALSE
      PROVE  Prepared' = Prepared
  BY <1>1, <1>p DEF Prepared, Publish, Stored
<1>i. call.pc # "idle" => Either
  BY DEF InEffect
\* A call without a batch goes on or ends.
<1>n. ASSUME call.pc # "idle", call.task \notin Batching,
             \/ Ends \/ Errs
             \/ \E pc \in Steps : Going(pc) /\ UNCHANGED batch
      PROVE  BInv'
  <2>1. batch = NoBatch /\ call.done = <<>> /\ (call.task = "apply" => call.items = <<>>)
    BY <1>1, <1>n DEF Order
  <2>2. CASE Ends \/ Errs
    <3>1. call' = Idle /\ batch' = batch
      BY <1>n, <2>2 DEF Ends, Errs, Batching
    <3> QED BY <2>1, <3>1, NoBatchKept DEF Idle
  <2>3. CASE \E pc \in Steps : Going(pc) /\ UNCHANGED batch
    <3>1. call'.task = call.task /\ call'.done = call.done /\ call'.items = call.items
      BY <1>1, <2>3, GotoFields
    <3> QED BY <1>n, <2>1, <2>3, <3>1, NoBatchKept
  <2> QED BY <1>n, <2>2, <2>3
\* An item of a batch fails.
<1>f. ASSUME call.task = "batch", call.pc # "idle", Errs, Steady
      PROVE  BInv'
  <2>1. /\ call'.pc = "rollback" /\ call'.task = "attempt" /\ call'.id = call.id
        /\ call'.done = call.done /\ call'.items = call.items
        /\ batch'.ids = batch.ids /\ batch'.unrestored = batch.unrestored
        /\ batch'.outcome = "error"
    BY <1>1, <1>f DEF Errs, Called, Calls, BatchRecords
  <2>2. InEffect' = {Applieds, Applieds \cup {call.id}}
    BY <2>1 DEF InEffect, Applieds
  <2>3. Expected'
    BY <2>1 DEF Expected
  <2> QED BY <1>f, <1>i, <2>1, <2>2, <2>3, GoesOn DEF Same, Batching
\* An item goes on.
<1>g. ASSUME NEW pc \in Steps \ {"idle"}, Going(pc), UNCHANGED batch, Steady, Ran,
             InEffect \subseteq InEffect', Expected'
      PROVE  BInv'
  <2>1. call'.pc = pc /\ call'.task = call.task /\ call'.id = call.id
        /\ call'.done = call.done /\ call'.items = call.items
    BY <1>1, <1>g, GotoFields
  <2> QED BY <1>g, <2>1, GoesOn DEF Same
\* A roll-back fails.
<1>u. ASSUME call.task \in {"attempt", "unwind"}, call.pc # "idle", Errs, Steady
      PROVE  BInv'
  <2>1. /\ call' = UnwindFrom(call.done) /\ batch'.ids = batch.ids
        /\ batch'.unrestored = batch.unrestored \cup {call.id} /\ batch'.outcome = batch.outcome
    BY <1>1, <1>u DEF Errs, Called, BatchRecords
  <2>2. Same
    BY <1>u, <2>1 DEF Same
  <2>3. ASSUME NEW t \in Targets, Clean(t)'
        PROVE  Holds(Mine(t), Applieds, record, file[t])
    <3>1. Clean(t) /\ call.id \notin Mine(t)
      BY <2>1, <2>2, <2>3, SameMine DEF Clean
    <3> QED BY <1>1, <1>i, <1>u, <3>1, WithoutItem
  <2> QED BY <1>u, <2>1, <2>2, <2>3, Unwinds
\* A roll-back ends with the item not in effect.
<1>v. ASSUME call.task \in {"attempt", "unwind"}, call.pc # "idle", Ends, Steady,
             \A t \in Targets : Clean(t) => Holds(Mine(t), Applieds, record, file[t])
      PROVE  BInv'
  <2>1. call' = UnwindFrom(call.done) /\ batch' = batch
    BY <1>v DEF Ends
  <2>2. Same
    BY <1>v, <2>1 DEF Same
  <2> QED BY <1>v, <2>1, <2>2, Unwinds, SameMine
<1>2. CASE Apply
  <2>1. PICK item \in Items : BeginItem("apply", <<item>>, <<>>)
    BY <1>2 DEF Apply
  <2>2. call'.task = "apply" /\ call'.items = <<>> /\ call'.done = <<>> /\ batch' = NoBatch
    BY <1>2, <2>1 DEF Apply, BeginItem
  <2> QED BY <2>2, NoBatchKept DEF Batching
<1>16. CASE \E i \in Prepared : Undo(i) \/ Recover(i)
  <2>1. call'.task \in {"undo", "recover"} /\ call'.done = <<>> /\ batch' = NoBatch
    BY <1>16 DEF Undo, Recover, Idle
  <2> QED BY <2>1, NoBatchKept DEF Batching
<1>18. CASE Crash
  BY <1>18, NoBatchKept DEF Crash, Idle
<1>3. CASE ApplyBatch
  <2>1. PICK items \in Batches : BeginItem("batch", items, <<>>)
    BY <1>3 DEF ApplyBatch
  <2>2. /\ call'.pc = "read" /\ call'.task = "batch" /\ call'.id = next /\ call'.done = <<>>
        /\ next' = next + 1 /\ next \in Nat \ {0}
        /\ batch'.ids = {next} /\ batch'.outcome = "none" /\ events' = events
    BY <1>1, <1>3, <2>1 DEF ApplyBatch, BeginItem, NoBatch, Stored
  <2>3. Applieds' = {} /\ batch'.ids \subseteq Begun'
    BY <2>2, ElementsOfEmpty DEF Applieds, Begun
  <2>4. Order'
    BY <2>2, <2>3 DEF Order, Batching
  <2>5. next \notin Prepared'
    <3>1. next \notin Begun /\ Prepared' = Prepared
      BY <1>e, <2>2 DEF Begun
    <3> QED BY <1>1, <3>1 DEF Stored, Prepared
  <2>6. \A t \in Targets : Mine(t)' = {}
    BY <2>2, <2>5 DEF Mine
  <2>7. Chained' /\ Expected'
    BY <2>2, <2>6 DEF Chained, Chain, Expected
  <2>8. InEffect' # {}
    BY DEF InEffect
  <2>9. Levels'
    BY <2>6, <2>8 DEF Levels, Holds
  <2> QED BY <2>4, <2>7, <2>9 DEF BInv
<1>4. CASE ReadTarget
  <2>1. Steady /\ call.pc = "read"
    BY <1>4, <1>e DEF ReadTarget
  <2>2. CASE call.task \notin Batching
    BY <1>4, <1>n, <2>1, <2>2 DEF ReadTarget, Goto, Steps
  <2>3. CASE call.task \in Batching
    <3>1. call.task = "batch"
      BY <1>1, <2>1, <2>3 DEF Called, Forward, Batching
    <3>2. CASE file[Target] = Item.before /\ Goto("backup")
      <4>1. call'.pc = "backup" /\ call'.id = call.id /\ call'.done = call.done
        BY <1>1, <3>2, GotoFields DEF Goto, Steps
      <4>2. InEffect' = InEffect
        BY <2>1, <4>1 DEF InEffect, Applieds
      <4>3. Target' = Target /\ Item' = Item
        BY <2>1, <4>1 DEF Target, Item
      <4>4. Expected'
        BY <2>1, <3>2, <4>3 DEF Expected
      <4> QED BY <1>g, <2>1, <2>3, <3>2, <4>2, <4>4 DEF Goto, Steps
    <3> QED BY <1>4, <1>f, <2>1, <3>1, <3>2 DEF ReadTarget
  <2> QED BY <2>2, <2>3
<1>5. CASE WriteBackup
  <2>1. Steady /\ call.pc = "backup"
    BY <1>5, <1>e DEF WriteBackup
  <2>2. CASE call.task \notin Batching
    BY <1>5, <1>n, <2>1, <2>2 DEF WriteBackup, Goto, Steps
  <2>3. CASE call.task \in Batching
    <3>1. call.task = "batch"
      BY <1>1, <2>1, <2>3 DEF Called, Forward, Batching
    <3>2. CASE Goto("prepare")
      <4>1. /\ call'.pc = "prepare" /\ call'.id = call.id /\ call'.done = call.done
            /\ call'.task = call.task
        BY <1>1, <3>2, GotoFields DEF Goto, Steps
      <4>2. InEffect' = InEffect
        BY <2>1, <4>1 DEF InEffect, Applieds
      <4>3. Target' = Target /\ Item' = Item
        BY <2>1, <4>1 DEF Target, Item
      <4>4. Expected'
        BY <1>1, <2>1, <4>1, <4>3 DEF Expected
      <4> QED BY <1>g, <2>1, <2>3, <3>2, <4>2, <4>4 DEF Goto, Steps
    <3> QED BY <1>5, <1>f, <2>1, <3>1, <3>2 DEF WriteBackup
  <2> QED BY <2>2, <2>3
<1>6. CASE PublishPrepared
  <2>1. /\ UNCHANGED <<file, record, next, touched>> /\ call.pc = "prepare"
        /\ events[call.id] = {}
    BY <1>1, <1>6 DEF PublishPrepared, Journals
  <2>2. CASE call.task \notin Batching
    BY <1>6, <1>n, <2>1, <2>2 DEF PublishPrepared, PublishThen, Goto, Steps
  <2>3. CASE call.task \in Batching
    <3>1. call.task = "batch"
      BY <1>1, <2>1, <2>3 DEF Called, Forward, Batching
    <3>2. CASE UNCHANGED events /\ Errs
      BY <1>e, <1>f, <2>1, <3>1, <3>2
    <3>3. CASE Publish(call.id, "prepared") /\ (Errs \/ Goto("revalidate"))
      <4>1. /\ call.id \in Ids /\ Item = record[call.id] /\ Target \in Targets
            /\ call.id \in Begun /\ call.id \notin Applieds /\ call.id \in batch.ids
        BY <1>1, <2>1, <2>3, RunningItem DEF Order
      <4>2. Prepared' = Prepared \cup {call.id} /\ call.id \notin Prepared
        BY <1>1, <2>1, <3>3, <4>1 DEF Publish, Prepared, Stored
      <4>3. /\ call'.pc \in {"rollback", "revalidate"} /\ call'.id = call.id
            /\ call'.done = call.done /\ call'.items = call.items
            /\ batch'.ids = batch.ids /\ batch'.unrestored = batch.unrestored
            /\ \/ call'.task = call.task /\ batch' = batch
               \/ call.task = "batch" /\ call'.task = "attempt" /\ batch'.outcome = "error"
        <5>1. CASE Errs
          BY <1>1, <3>1, <5>1 DEF Errs, Called, Calls, BatchRecords
        <5>2. CASE Goto("revalidate")
          BY <1>1, <5>2, GotoFields DEF Goto, Steps
        <5> QED BY <3>3, <5>1, <5>2
      <4>4. Order'
        BY <1>1, <2>1, <2>3, <4>3, OrderKept
      <4>5. Applieds \in InEffect' /\ Applieds' = Applieds /\ InEffect = {Applieds}
        BY <2>1, <4>3 DEF InEffect, Applieds
      <4>6. ASSUME NEW t \in Targets, Clean(t)'
            PROVE  /\ Chain(Mine(t)', record')
                   /\ Holds(Mine(t)', Applieds, record', file'[t])
        <5>1. Mine(t)' = IF t = Target THEN Mine(t) \cup {call.id} ELSE Mine(t)
          BY <2>1, <4>1, <4>2, <4>3 DEF Mine, Target
        <5>2. Clean(t) /\ (t = Target => call.id \notin touched)
          BY <2>1, <4>3, <4>6, <5>1 DEF Clean
        <5>3. Chain(Mine(t), record) /\ Holds(Mine(t), Applieds, record, file[t])
          BY <1>1, <4>5, <5>2 DEF Chained, Levels
        <5>4. t = Target => file[t] = record[call.id].before
          BY <1>1, <2>1, <3>1, <4>1, <5>2 DEF Expected
        <5>5. /\ Mine(t) \in SUBSET Int /\ call.id \in Int /\ call.id \notin Mine(t)
              /\ \A i \in Mine(t) : i \in Applieds /\ i < call.id
          <6>1. /\ Mine(t) \in SUBSET Int /\ call.id \notin Mine(t)
                /\ \A i \in Mine(t) : i < call.id <=> i \in Applieds
                /\ \A i \in Mine(t) : i <= call.id
            BY <2>1, <2>3, <3>1, <4>2, RunningItem
          <6>2. call.id \in Int
            BY <4>1 DEF Ids
          <6> QED BY <6>1, <6>2
        <5>6. CASE t = Target
          BY <2>1, <4>1, <5>1, <5>3, <5>4, <5>5, <5>6, HoldsJoined
        <5> QED BY <2>1, <5>1, <5>3, <5>6
      <4>7. Chained' /\ Levels'
        BY <4>5, <4>6 DEF Chained, Levels
      <4>8. Expected'
        BY <4>3 DEF Expected
      <4> QED BY <4>4, <4>7, <4>8 DEF BInv
    <3> QED BY <1>6, <3>2, <3>3 DEF PublishPrepared, PublishThen
  <2> QED BY <2>2, <2>3
\* An item changes its target: the running item comes into effect or leaves it.
<1>w. ASSUME Ran, call.id \in Prepared, NEW S, NEW content, UNCHANGED <<record, next, touched, events, batch>>,
             NEW pc \in Steps \ {"idle"}, Going(pc), InEffect' = {S}, Expected',
             file' = [file EXCEPT ![Target] = content],
             S = Applieds \/ S = Applieds \cup {call.id},
             \A t \in Targets : Clean(t) /\ call.id \in Mine(t)
                               => Holds(Mine(t), S, record, content)
      PROVE  BInv'
  <2>1. /\ call'.pc = pc /\ call'.task = call.task /\ call'.id = call.id
        /\ call'.done = call.done /\ call'.items = call.items
    BY <1>1, <1>w, GotoFields
  <2>2. Order'
    BY <1>1, <1>w, <2>1, OrderKept
  <2>3. Prepared' = Prepared /\ \A t \in Targets : Mine(t)' = Mine(t) /\ (Clean(t)' <=> Clean(t))
    BY <1>e, <1>w DEF Mine, Clean
  <2>4. Chained'
    BY <1>1, <1>w, <2>3 DEF Chained
  <2>5. ASSUME NEW t \in Targets, Clean(t)
        PROVE  Holds(Mine(t), S, record, file'[t])
    <3>1. CASE call.id \in Mine(t)
      <4>1. t = Target
        BY <1>w, <3>1, RunningItem
      <4>2. file'[t] = content
        BY <1>1, <1>w, <4>1 DEF Stored
      <4> QED BY <1>w, <2>5, <3>1, <4>2
    <3>2. CASE call.id \notin Mine(t)
      <4>1. Holds(Mine(t), S, record, file[t])
        BY <1>1, <1>i, <1>w, <2>5, <3>2, WithoutItem
      <4>2. t # Target
        BY <1>w, <3>2, RunningItem
      <4> QED BY <1>1, <1>w, <4>1, <4>2 DEF Stored
    <3> QED BY <3>1, <3>2
  <2>6. Levels'
    BY <1>w, <2>3, <2>5 DEF Levels
  <2> QED BY <1>w, <2>2, <2>4, <2>6 DEF BInv
<1>7. CASE Revalidate
  <2>1. /\ UNCHANGED <<file, record, next, touched>> /\ call.pc = "revalidate"
    BY <1>7 DEF Revalidate
  <2>2. CASE call.task \notin Batching
    BY <1>7, <1>n, <2>1, <2>2 DEF Revalidate, PublishThen, Steps
  <2>3. CASE call.task \in Batching
    <3>1. call.task = "batch"
      BY <1>1, <2>1, <2>3 DEF Called, Forward, Batching
    <3>2. CASE UNCHANGED events /\ Errs
      BY <1>e, <1>f, <2>1, <3>1, <3>2
    <3>3. CASE Publish(call.id, "conflict") /\ Errs
      BY <1>p, <1>f, <2>1, <3>1, <3>3
    <3>4. CASE UNCHANGED <<events, batch>> /\ call' = [call EXCEPT !.pc = "replace", !.raced = FALSE]
      <4>1. call'.pc = "replace" /\ call'.id = call.id /\ call'.done = call.done
        BY <1>1, <3>4, GotoFields DEF Steps
      <4>2. InEffect' = InEffect /\ Expected'
        BY <2>1, <4>1 DEF InEffect, Applieds, Expected
      <4> QED BY <1>e, <1>g, <2>1, <2>3, <3>4, <4>2 DEF Steps
    <3> QED BY <1>7, <3>2, <3>3, <3>4 DEF Revalidate, PublishThen
  <2> QED BY <2>2, <2>3
<1>8. CASE Replace
  <2>1. /\ UNCHANGED <<record, next, touched, events>> /\ call.pc = "replace"
    BY <1>8 DEF Replace
  <2>2. CASE call.task \notin Batching
    BY <1>8, <1>n, <2>1, <2>2 DEF Replace, Goto, Steps
  <2>3. CASE call.task \in Batching
    <3>1. call.task = "batch"
      BY <1>1, <2>1, <2>3 DEF Called, Forward, Batching
    <3>2. CASE UNCHANGED file /\ Errs
      BY <1>e, <1>f, <2>1, <3>1, <3>2
    <3>3. CASE AtomicReplace(Item.after, "apply") /\ Goto("verify")
      <4>1. call'.pc = "verify" /\ call'.id = call.id /\ call'.done = call.done
        BY <1>1, <3>3, GotoFields DEF Goto, Steps
      <4>2. InEffect' = {Applieds \cup {call.id}} /\ Expected'
        BY <4>1 DEF InEffect, Applieds, Expected
      <4>3. call.id \in Prepared
        BY <1>1, <2>1, <2>3, RunningItem DEF Journals, Prepared
      <4>4. ASSUME NEW t \in Targets, call.id \in Mine(t)
            PROVE  Holds(Mine(t), Applieds \cup {call.id}, record, Item.after)
        BY <2>1, <2>3, <3>1, <4>4, RunningItem, HoldsApplied
      <4> QED BY <1>w, <2>1, <2>3, <3>3, <4>2, <4>3, <4>4 DEF Goto, AtomicReplace, Steps
    <3> QED BY <1>8, <3>2, <3>3 DEF Replace
  <2> QED BY <2>2, <2>3
<1>9. CASE Verify
  <2>1. Steady /\ call.pc = "verify"
    BY <1>9, <1>e DEF Verify
  <2>2. CASE call.task \notin Batching
    BY <1>9, <1>n, <2>1, <2>2 DEF Verify, Goto, Steps
  <2>3. CASE call.task \in Batching
    <3>1. call.task = "batch"
      BY <1>1, <2>1, <2>3 DEF Called, Forward, Batching
    <3>2. CASE Goto("publish")
      <4>1. call'.pc = "publish" /\ call'.id = call.id /\ call'.done = call.done
        BY <1>1, <3>2, GotoFields DEF Goto, Steps
      <4>2. InEffect' = InEffect /\ Expected'
        BY <2>1, <4>1 DEF InEffect, Applieds, Expected
      <4> QED BY <1>g, <2>1, <2>3, <3>2, <4>2 DEF Goto, Steps
    <3> QED BY <1>9, <1>f, <2>1, <3>1, <3>2 DEF Verify
  <2> QED BY <2>2, <2>3
<1>10. CASE PublishApplied
  <2>1. UNCHANGED file /\ call.pc = "publish" /\ call.task \in {"apply", "batch"}
    BY <1>1, <1>10 DEF PublishApplied, Called, Forward
  <2>2. CASE Errs /\ UNCHANGED <<record, next, touched>> /\ (UNCHANGED events \/ Publish(call.id, "applied"))
    <3>1. Steady
      BY <1>e, <1>p, <2>1, <2>2
    <3> QED BY <1>f, <1>n, <2>1, <2>2, <3>1 DEF Batching
  <2>3. CASE /\ Publish(call.id, "applied") /\ call' = Idle /\ UNCHANGED <<record, next, touched>>
             /\ batch' = IF call.task = "batch" THEN [batch EXCEPT !.outcome = "ok"] ELSE batch
    <3>1. CASE call.task = "apply"
      BY <1>1, <2>1, <2>3, <3>1, NoBatchKept DEF Order, Batching, Idle
    <3>2. CASE call.task = "batch"
      <4>1. /\ batch'.ids = batch.ids /\ batch'.unrestored = batch.unrestored /\ batch'.outcome = "ok"
            /\ call'.pc = "idle" /\ call'.done = <<>> /\ call'.task = "none"
        BY <1>1, <2>3, <3>2 DEF Called, BatchRecords, Idle
      <4>2. Same
        BY <1>p, <2>1, <2>3, <4>1 DEF Same
      <4>3. Order'
        BY <1>1, <2>3, <4>1, <4>2 DEF Order, Batching, Same, Begun
      <4>4. InEffect = {Applieds \cup {call.id}} /\ InEffect' = {batch.ids}
        BY <2>1, <4>1 DEF InEffect
      <4>5. Applieds \cup {call.id} = batch.ids
        <5>1. /\ call.id \in batch.ids /\ Applieds \subseteq batch.ids /\ batch.ids \subseteq Int
              /\ \A i \in batch.ids : i <= call.id /\ (i < call.id => i \in Applieds)
          BY <1>1, <2>1, <3>2 DEF Order, Batching, Begun
        <5> QED BY <5>1
      <4>6. \A t \in Targets : Clean(t)' => Chain(Mine(t)', record') /\ Holds(Mine(t)', batch.ids, record', file'[t])
        BY <1>1, <4>2, <4>4, <4>5, SameMine DEF Chained, Levels, Same
      <4>7. Chained' /\ Levels' /\ Expected'
        BY <4>1, <4>4, <4>6 DEF Chained, Levels, Expected
      <4> QED BY <4>3, <4>7 DEF BInv
    <3> QED BY <2>1, <3>1, <3>2
  <2>4. CASE /\ Publish(call.id, "applied") /\ call.items # <<>>
             /\ BeginItem("batch", call.items, Append(call.done, call.id))
             /\ batch' = [batch EXCEPT !.ids = @ \cup {next}]
    <3>1. call.task = "batch" /\ call.pc # "idle"
      BY <1>1, <2>1, <2>4 DEF Order
    <3>2. /\ call.done \in Seq(Ids) /\ call.id \in Ids /\ Elements(call.done) \subseteq Begun
          /\ call.id \in Begun /\ next \in Nat \ {0}
      BY <1>1, <3>1, RunningItem DEF Called, Calls, Applieds, Stored, Batching
    <3>3. /\ batch'.ids = batch.ids \cup {next} /\ batch'.outcome = batch.outcome
          /\ batch'.unrestored = batch.unrestored
      BY <1>1, <2>4 DEF Called, BatchRecords
    <3>4. /\ next' = next + 1 /\ next \notin Begun /\ Begun' = Begun \cup {next}
          /\ \A i \in Begun : record'[i] = record[i]
          /\ touched' = touched \ {next}
          /\ call'.pc = "read" /\ call'.task = "batch" /\ call'.id = next
          /\ call'.done = Append(call.done, call.id)
      BY <1>1, <2>4, <3>2 DEF BeginItem, Stored, Begun
    <3>5. /\ batch.outcome = "none" /\ batch.ids \subseteq Begun /\ call.id \in batch.ids
          /\ Applieds \subseteq batch.ids
          /\ \A i \in batch.ids : i <= call.id /\ (i < call.id <=> i \in Applieds)
          /\ \A m, n \in 1..Len(call.done) : m < n => call.done[m] < call.done[n]
      BY <1>1, <3>1 DEF Order, Batching
    <3>6. Applieds' = Applieds \cup {call.id}
      BY <3>2, <3>4, ElementsOfAppend DEF Applieds
    <3>7. Order'
      <4>1. batch'.ids \subseteq Begun' /\ Applieds' \subseteq batch'.ids /\ next \in batch'.ids
        BY <3>3, <3>4, <3>5, <3>6
      <4>2. \A i \in batch.ids : i \in Int /\ i < next
        BY <3>2, <3>5 DEF Begun
      <4>3. \A i \in batch'.ids : i <= next /\ (i < next <=> i \in Applieds')
        <5>1. \A i \in batch.ids : i \in Applieds'
          BY <3>5, <3>6, <4>2
        <5>2. next \notin Applieds'
          BY <3>2, <3>4, <3>6 DEF Applieds
        <5> QED BY <3>2, <3>3, <4>2, <5>1, <5>2
      <4>4. ASSUME NEW m \in 1..Len(call'.done), NEW n \in 1..Len(call'.done), m < n
            PROVE  call'.done[m] < call'.done[n]
        <5> DEFINE l == Len(call.done)
        <5>1. /\ l \in Nat /\ Len(call'.done) = l + 1 /\ call'.done[l + 1] = call.id
              /\ \A k \in 1..l : call'.done[k] = call.done[k]
          BY <3>2, <3>4
        <5>2. m \in 1..l
          BY <4>4, <5>1
        <5>3. CASE n \in 1..l
          BY <3>5, <4>4, <5>1, <5>2, <5>3
        <5>4. CASE n = l + 1
          <6>1. call.done[m] \in Applieds
            BY <5>2 DEF Applieds, Elements
          <6> QED BY <3>5, <5>1, <5>2, <5>4, <6>1
        <5> QED BY <4>4, <5>1, <5>3, <5>4
      <4> QED BY <3>3, <3>4, <3>5, <4>1, <4>3, <4>4 DEF Order, Batching
    <3>8. Prepared' = Prepared /\ next \notin Prepared
      BY <1>1, <1>p, <2>4, <3>4 DEF Prepared, Stored
    <3>9. \A t \in Targets : Mine(t)' = Mine(t) /\ Mine(t) \subseteq Begun /\ (Clean(t)' => Clean(t))
      BY <3>3, <3>4, <3>5, <3>8 DEF Mine, Clean
    <3>10. InEffect = {Applieds \cup {call.id}} /\ InEffect' = {Applieds'}
      BY <2>1, <3>4 DEF InEffect
    <3>11. ASSUME NEW t \in Targets, Clean(t)'
           PROVE  Chain(Mine(t)', record') /\ Holds(Mine(t)', Applieds', record', file'[t])
      <4>1. Chain(Mine(t), record) /\ Holds(Mine(t), Applieds', record, file[t])
        BY <1>1, <3>6, <3>9, <3>10, <3>11 DEF Chained, Levels
      <4>2. \A i \in Mine(t) : record'[i] = record[i]
        BY <3>4, <3>9
      <4> QED BY <2>1, <3>9, <4>1, <4>2 DEF Chain, Holds
    <3>12. Chained' /\ Levels' /\ Expected'
      BY <3>4, <3>10, <3>11 DEF Chained, Levels, Expected
    <3> QED BY <3>7, <3>12 DEF BInv
  <2> QED BY <1>10, <2>2, <2>3, <2>4 DEF PublishApplied, PublishThen, Applied
<1>11. CASE RollbackFailedAttempt
  <2>1. Steady /\ call.pc = "rollback" /\ call.task = "attempt" /\ Either
    BY <1>1, <1>11, <1>e, <1>i DEF RollbackFailedAttempt, Called
  <2>2. CASE events[call.id] = {} /\ Ends
    <3>1. call.id \notin Prepared
      BY <2>2 DEF Prepared
    <3>2. ASSUME NEW t \in Targets, Clean(t)
          PROVE  Holds(Mine(t), Applieds, record, file[t])
      BY <1>1, <2>1, <3>1, <3>2, WithoutItem DEF Mine
    <3> QED BY <1>v, <2>1, <2>2, <3>2
  <2>3. CASE Goto("recover")
    <3>1. call'.pc = "recover" /\ call'.id = call.id /\ call'.done = call.done
      BY <1>1, <2>3, GotoFields DEF Goto, Steps
    <3>2. InEffect' = InEffect /\ Expected'
      BY <2>1, <3>1 DEF InEffect, Applieds, Expected
    <3> QED BY <1>g, <2>1, <2>3, <3>2 DEF Goto, Steps, Batching
  <2>4. CASE Errs
    BY <1>u, <2>1, <2>4
  <2> QED BY <1>11, <2>2, <2>3, <2>4 DEF RollbackFailedAttempt
<1>12. CASE RecoverStep
  <2> DEFINE decision == Decision(call.id)
  <2>1. /\ UNCHANGED <<file, record, next, touched>> /\ call.pc = "recover"
        /\ call.task \in {"attempt", "recover"} /\ Either
    BY <1>1, <1>12, <1>i DEF RecoverStep, Called
  <2>2. decision # "prepared"
    BY DEF Decision
  <2>3. Steady
    <3>1. UNCHANGED events \/ Publish(call.id, decision)
      BY <1>12 DEF RecoverStep, PublishThen
    <3> QED BY <1>e, <1>p, <2>1, <2>2, <3>1
  <2>4. \/ Errs
        \/ decision # "applied" /\ decision \notin {"invalid", "conflict"} /\ Ends
        \/ call.task # "attempt" /\ Ends
        \/ call.task = "attempt" /\ decision = "applied" /\ Goto("undo check")
    <3>1. events[call.id] \subseteq Suffixes /\ "invalid" \notin Suffixes
      BY <1>1, <2>1, BegunAreIds DEF Called, Stored, Suffixes
    <3>2. Errs \/ (decision \notin {"invalid", "conflict"} /\ Recovered(decision))
      <4>1. CASE decision \in events[call.id] \ {"conflict"} /\ Recovered(decision)
        BY <3>1, <4>1
      <4>2. CASE /\ decision \in Suffixes \ ({"conflict"} \cup events[call.id])
                 /\ PublishThen(decision, Recovered(decision))
        BY <3>1, <4>2 DEF PublishThen
      <4> QED BY <1>12, <4>1, <4>2 DEF RecoverStep
    <3> HIDE DEF decision
    <3> QED BY <3>2 DEF Recovered
  <2>5. CASE call.task = "recover"
    BY <1>n, <2>1, <2>4, <2>5 DEF Batching
  <2>6. CASE call.task = "attempt"
    <3>1. /\ Item = record[call.id] /\ Target = record[call.id].target /\ call.id \in Ids
          /\ events[call.id] \cap {"aborted", "undone"} = {}
      BY <1>1, <2>1, <2>6, RunningItem DEF Journals, Batching
    <3>2. CASE Errs
      BY <1>u, <2>1, <2>3, <2>6, <3>2
    <3>3. CASE decision \notin {"applied", "invalid", "conflict"} /\ Ends
      <4>1. file[Target] = record[call.id].before
        BY <3>1, <3>3 DEF Decision
      <4>2. ASSUME NEW t \in Targets, Clean(t)
            PROVE  Holds(Mine(t), Applieds, record, file[t])
        <5>1. CASE call.id \in Mine(t)
          <6>1. /\ t = Target /\ Mine(t) \in SUBSET Int /\ Chain(Mine(t), record)
                /\ \A i \in Mine(t) : i < call.id <=> i \in Applieds
            BY <1>1, <2>1, <2>6, <4>2, <5>1, RunningItem DEF Chained, Batching
          <6> QED BY <4>1, <5>1, <6>1, HoldsReverted
        <5>2. CASE call.id \notin Mine(t)
          BY <1>1, <2>1, <4>2, <5>2, WithoutItem
        <5> QED BY <5>1, <5>2
      <4> QED BY <1>v, <2>1, <2>3, <2>6, <3>3, <4>2
    <3>4. CASE decision = "applied" /\ Goto("undo check")
      <4>1. file[Target] = record[call.id].after /\ events[call.id] # {}
        BY <3>1, <3>4 DEF Decision, ValidJournal
      <4>2. /\ call'.pc = "undo check" /\ call'.task = call.task /\ call'.id = call.id
            /\ call'.done = call.done /\ call'.items = call.items /\ batch' = batch
        BY <1>1, <3>4, GotoFields DEF Goto, Steps
      <4>3. Order'
        BY <1>1, <2>1, <2>6, <4>2, OrderKept DEF Batching
      <4>4. Same
        BY <2>3, <4>2 DEF Same
      <4>5. InEffect' = {Applieds \cup {call.id}} /\ Expected'
        BY <4>2 DEF InEffect, Applieds, Expected
      <4>6. ASSUME NEW t \in Targets, Clean(t)
            PROVE  Holds(Mine(t), Applieds \cup {call.id}, record, file[t])
        <5>1. CASE call.id \in Mine(t)
          <6>1. /\ t = Target /\ Mine(t) \in SUBSET Int
                /\ \A i \in Mine(t) : i <= call.id /\ (i < call.id => i \in Applieds)
            BY <2>1, <2>6, <5>1, RunningItem DEF Batching
          <6> QED BY <4>1, <5>1, <6>1, HoldsApplied
        <5>2. CASE call.id \notin Mine(t)
          BY <1>1, <2>1, <4>6, <5>2, WithoutItem
        <5> QED BY <5>1, <5>2
      <4>7. Chained' /\ Levels'
        BY <1>1, <4>4, <4>5, <4>6, SameMine DEF Chained, Levels, Same
      <4> QED BY <4>3, <4>5, <4>7 DEF BInv
    <3> QED BY <2>4, <2>6, <3>2, <3>3, <3>4
  <2> QED BY <2>1, <2>5, <2>6
<1>13. CASE UndoCheck
  <2>1. /\ UNCHANGED <<file, record, next, touched>> /\ call.pc = "undo check"
        /\ call.task \in {"attempt", "unwind", "undo"}
    BY <1>1, <1>13 DEF UndoCheck, Called, Undoing
  <2>2. Steady
    <3>1. UNCHANGED events \/ Publish(call.id, "undo-conflict")
      BY <1>13 DEF UndoCheck, PublishThen
    <3>2. Prepared' = Prepared
      BY <1>e, <1>p, <3>1
    <3> QED BY <2>1, <3>2
  <2>3. \/ Errs
        \/ UNCHANGED batch /\ call' = [call EXCEPT !.pc = "undo replace", !.raced = FALSE]
    BY <1>13 DEF UndoCheck, PublishThen
  <2>4. CASE call.task = "undo"
    BY <1>n, <2>1, <2>3, <2>4 DEF Batching, Steps
  <2>5. CASE call.task \in {"attempt", "unwind"}
    <3>1. CASE Errs
      BY <1>u, <2>1, <2>2, <2>5, <3>1
    <3>2. CASE UNCHANGED batch /\ call' = [call EXCEPT !.pc = "undo replace", !.raced = FALSE]
      <4>1. call'.pc = "undo replace" /\ call'.id = call.id /\ call'.done = call.done
        BY <1>1, <3>2, GotoFields DEF Steps
      <4>2. InEffect' = InEffect /\ Expected'
        BY <2>1, <4>1 DEF InEffect, Applieds, Expected
      <4> QED BY <1>g, <2>1, <2>2, <2>5, <3>2, <4>2 DEF Steps, Batching
    <3> QED BY <2>3, <3>1, <3>2
  <2> QED BY <2>1, <2>4, <2>5
<1>14. CASE UndoReplace
  <2>1. /\ UNCHANGED <<record, next, touched, events>> /\ call.pc = "undo replace"
        /\ call.task \in {"attempt", "unwind", "undo"}
    BY <1>1, <1>14 DEF UndoReplace, Called, Undoing
  <2>2. CASE call.task = "undo"
    BY <1>14, <1>n, <2>1, <2>2 DEF UndoReplace, Goto, Batching, Steps
  <2>3. CASE call.task \in {"attempt", "unwind"}
    <3>1. CASE UNCHANGED file /\ Errs
      BY <1>e, <1>u, <2>1, <2>3, <3>1
    <3>2. CASE AtomicReplace(backup[call.id], "undo") /\ Goto("undo verify")
      <4>1. call'.pc = "undo verify" /\ call'.id = call.id /\ call'.done = call.done
        BY <1>1, <3>2, GotoFields DEF Goto, Steps
      <4>2. InEffect' = {Applieds} /\ Expected'
        BY <4>1 DEF InEffect, Applieds, Expected
      <4>3. call.id \in Ids /\ Ran
        BY <2>1, <2>3, RunningItem DEF Batching
      <4>4. ValidJournal(events[call.id]) /\ BackupIsExact(call.id)
        BY <1>1, <2>1, <4>3 DEF Journals
      <4>5. call.id \in Prepared /\ backup[call.id] = record[call.id].before
        BY <4>3, <4>4 DEF ValidJournal, Prepared, BackupIsExact
      <4>6. ASSUME NEW t \in Targets, Clean(t), call.id \in Mine(t)
            PROVE  Holds(Mine(t), Applieds, record, backup[call.id])
        <5>1. /\ Mine(t) \in SUBSET Int /\ Chain(Mine(t), record)
              /\ \A i \in Mine(t) : i < call.id <=> i \in Applieds
          BY <1>1, <4>3, <4>6, RunningItem DEF Chained
        <5> QED BY <4>5, <4>6, <5>1, HoldsReverted
      <4> QED BY <1>w, <2>1, <3>2, <4>2, <4>3, <4>5, <4>6 DEF Goto, AtomicReplace, Steps
    <3> QED BY <1>14, <3>1, <3>2 DEF UndoReplace
  <2> QED BY <2>1, <2>2, <2>3
<1>15. CASE UndoVerify
  <2>1. /\ Steady /\ call.pc = "undo verify" /\ call.task \in {"attempt", "unwind", "undo"}
    BY <1>1, <1>15, <1>e DEF UndoVerify, Called, Undoing
  <2>2. CASE call.task = "undo"
    BY <1>15, <1>n, <2>1, <2>2 DEF UndoVerify, Goto, Batching, Steps
  <2>3. CASE call.task \in {"attempt", "unwind"}
    <3>1. CASE Errs
      BY <1>u, <2>1, <2>3, <3>1
    <3>2. CASE Goto("undo publish")
      <4>1. call'.pc = "undo publish" /\ call'.id = call.id /\ call'.done = call.done
        BY <1>1, <3>2, GotoFields DEF Goto, Steps
      <4>2. InEffect' = InEffect /\ Expected'
        BY <2>1, <4>1 DEF InEffect, Applieds, Expected
      <4> QED BY <1>g, <2>1, <2>3, <3>2, <4>2 DEF Goto, Steps, Batching
    <3> QED BY <1>15, <3>1, <3>2 DEF UndoVerify
  <2> QED BY <2>1, <2>2, <2>3
<1>17. CASE PublishUndone
  <2>1. /\ UNCHANGED <<file, record, next, touched>> /\ call.pc = "undo publish"
        /\ call.task \in {"attempt", "unwind", "undo"}
    BY <1>1, <1>17 DEF PublishUndone, Called, Undoing
  <2>2. Steady /\ (Ends \/ Errs)
    <3>1. (UNCHANGED events \/ Publish(call.id, "undone")) /\ (Ends \/ Errs)
      BY <1>17 DEF PublishUndone, PublishThen
    <3>2. Prepared' = Prepared
      BY <1>e, <1>p, <3>1
    <3> QED BY <2>1, <3>1, <3>2
  <2>3. CASE call.task = "undo"
    BY <1>n, <2>1, <2>2, <2>3 DEF Batching
  <2>4. CASE call.task \in {"attempt", "unwind"}
    <3>1. \A t \in Targets : Clean(t) => Holds(Mine(t), Applieds, record, file[t])
      BY <1>1, <2>1 DEF Levels, InEffect
    <3> QED BY <1>u, <1>v, <2>1, <2>2, <2>4, <3>1
  <2> QED BY <2>1, <2>3, <2>4
<1>19. CASE \E t \in Targets, c \in Contents : Edit(t, c)
  <2>1. PICK u \in Targets, c \in Contents : Edit(u, c)
    BY <1>19
  <2>2. /\ call'.pc = call.pc /\ call'.id = call.id /\ call'.task = call.task
        /\ call'.done = call.done /\ call'.items = call.items
        /\ UNCHANGED <<events, record, next, batch>>
        /\ touched' = touched \cup {i \in Begun : record[i].target = u}
        /\ \A t \in Targets \ {u} : file'[t] = file[t]
    BY <1>1, <2>1 DEF Edit, Called, Calls, Begun, Stored
  <2>3. Applieds' = Applieds /\ Begun' = Begun /\ Prepared' = Prepared /\ InEffect' = InEffect
    BY <1>e, <2>2 DEF Applieds, Begun, InEffect
  <2>4. Order'
    BY <1>1, <2>2, <2>3 DEF Order, Batching
  <2>5. ASSUME NEW t \in Targets, Clean(t)'
        PROVE  /\ Chain(Mine(t)', record')
               /\ \E S \in InEffect' : Holds(Mine(t)', S, record', file'[t])
    <3>1. Mine(t)' = Mine(t) /\ Clean(t) /\ (t = u => Mine(t) = {})
      <4>1. Mine(t)' = Mine(t) /\ Mine(t) \subseteq Begun
        BY <1>1, <2>2, <2>3 DEF Mine, Order
      <4> QED BY <2>2, <2>5, <4>1 DEF Clean, Mine
    <3>2. CASE t = u
      <4>1. InEffect' # {}
        BY DEF InEffect
      <4> QED BY <3>1, <3>2, <4>1 DEF Chain, Holds
    <3>3. CASE t # u
      BY <1>1, <2>2, <2>3, <3>1, <3>3 DEF Chained, Levels
    <3> QED BY <3>2, <3>3
  <2>6. Chained' /\ Levels'
    BY <2>5 DEF Chained, Levels
  <2>7. Expected'
    <3> SUFFICES ASSUME call.task = "batch", call.pc \in {"backup", "prepare"}, call.id \notin touched'
                 PROVE  file'[Target'] = Item'.before
      BY <2>2 DEF Expected
    <3>1. call.id \in Begun /\ Target = record[call.id].target /\ Target \in Targets
      BY RunningItem DEF Batching
    <3>2. file[Target] = Item.before /\ Target # u
      BY <1>1, <2>2, <3>1 DEF Expected
    <3>3. Target' = Target /\ Item' = Item
      BY <2>2 DEF Target, Item
    <3> QED BY <2>2, <3>1, <3>2, <3>3
  <2> QED BY <2>4, <2>6, <2>7 DEF BInv
<1>20. CASE UNCHANGED vars
  <2>1. /\ Applieds' = Applieds /\ Begun' = Begun /\ Prepared' = Prepared /\ InEffect' = InEffect
        /\ UNCHANGED vars
    BY <1>e, <1>20 DEF Applieds, Begun, InEffect, vars
  <2>2. \A t \in Targets : Mine(t)' = Mine(t) /\ (Clean(t)' <=> Clean(t))
    BY <2>1 DEF Mine, Clean, vars
  <2>3. Order' /\ Expected'
    BY <1>1, <2>1 DEF Order, Expected, Target, Item, vars
  <2>4. Chained' /\ Levels'
    BY <1>1, <2>1, <2>2 DEF Chained, Levels, vars
  <2> QED BY <2>3, <2>4 DEF BInv
<1> QED BY <1>2, <1>3, <1>4, <1>5, <1>6, <1>7, <1>8, <1>9, <1>10, <1>11, <1>12, <1>13, <1>14,
           <1>15, <1>16, <1>17, <1>18, <1>19, <1>20 DEF Next
LEMMA BatchInit == ASSUME Init PROVE BInv
<1>1. batch = NoBatch /\ call = Idle /\ batch.ids = {}
  BY DEF Init, NoBatch
<1>2. \A t \in Targets : Mine(t) = {}
  BY <1>1 DEF Mine
<1>3. InEffect # {} /\ Idle.pc = "idle" /\ Idle.task = "none" /\ Idle.done = <<>>
  BY DEF InEffect, Idle
<1>4. Order /\ Chained /\ Expected
  BY <1>1, <1>2, <1>3 DEF Order, Chained, Chain, Expected, Batching
<1>5. Levels
  BY <1>2, <1>3 DEF Levels, Holds
<1> QED BY <1>4, <1>5 DEF BInv

LEMMA IInvHolds == Spec => []IInv
<1>1. Init => IInv
  BY JInit, BatchInit DEF IInv
<1>2. IInv /\ [Next]_vars => IInv'
  BY JStep, BatchStep DEF IInv
<1> QED BY <1>1, <1>2, PTL DEF Spec

\* A set of transactions has a first and a last one.
LEMMA FirstAndLast ==
    ASSUME NEW M \in SUBSET Ids, M # {}
    PROVE  /\ \E i \in M : \A j \in M : i <= j
           /\ \E i \in M : \A j \in M : i >= j
<1>1. MaxIds \in Nat /\ \A i \in M : i \in Nat /\ i <= MaxIds
  BY BoundsAssumption DEF Ids
<1>2. \E i \in M : \A j \in M : i <= j
  <2>1. PICK i \in M : \A j \in M : ~(<<j, i>> \in OpToRel(<, Nat))
    BY <1>1, NatLessThanWellFounded, WFMin
  <2>2. \A j \in M : ~(j < i)
    BY <1>1, <2>1 DEF OpToRel
  <2> QED BY <1>1, <2>2
<1> DEFINE T == {MaxIds - i : i \in M}
<1>3. T \subseteq Nat /\ T # {}
  <2>1. \A i \in M : MaxIds - i \in Nat
    BY <1>1
  <2>2. PICK i \in M : TRUE
    OBVIOUS
  <2>3. MaxIds - i \in T
    OBVIOUS
  <2> QED BY <2>1, <2>3
<1>4. PICK u \in T : \A v \in T : ~(<<v, u>> \in OpToRel(<, Nat))
  BY <1>3, NatLessThanWellFounded, WFMin
<1>5. \A v \in T : ~(v < u)
  BY <1>3, <1>4 DEF OpToRel
<1>6. PICK i \in M : u = MaxIds - i
  OBVIOUS
<1>7. \A j \in M : i >= j
  <2> SUFFICES ASSUME NEW j \in M PROVE i >= j
    OBVIOUS
  <2>1. ~(MaxIds - j < MaxIds - i)
    BY <1>5, <1>6
  <2>2. i \in Nat /\ j \in Nat /\ MaxIds \in Nat
    BY <1>1
  <2> QED BY ONLY <2>1, <2>2
<1> QED BY <1>2, <1>7

\* A batch is all or nothing: once it has returned, every target of it holds
\* what its last item wrote, or what its first item found, unless somebody
\* edited the target meanwhile or a roll-back of it failed.
THEOREM BatchIsAllOrNothingHolds == Spec => []BatchIsAllOrNothing
<1>1. ASSUME IInv, NEW t \in Targets, call = Idle, Mine(t) # {}, Clean(t),
             NEW first, NEW last,
             first = CHOOSE i \in Mine(t) : \A j \in Mine(t) : i <= j,
             last = CHOOSE i \in Mine(t) : \A j \in Mine(t) : i >= j
      PROVE  /\ batch.outcome = "error" => file[t] = record[first].before
             /\ batch.outcome = "ok" => file[t] = record[last].after
  <2>1. Mine(t) \in SUBSET Ids /\ Mine(t) \subseteq batch.ids
    BY DEF Mine, Prepared
  <2>2. /\ first \in Mine(t) /\ \A j \in Mine(t) : first <= j
        /\ last \in Mine(t) /\ \A j \in Mine(t) : last >= j
    BY <1>1, <2>1, FirstAndLast
  <2>3. PICK S \in InEffect : Holds(Mine(t), S, record, file[t])
    BY <1>1 DEF IInv, BInv, Levels
  <2>4. S = IF batch.outcome = "ok" THEN batch.ids ELSE {}
    BY <1>1, <2>3 DEF InEffect, Idle
  <2>5. CASE batch.outcome = "error"
    BY <2>2, <2>3, <2>4, <2>5 DEF Holds
  <2>6. CASE batch.outcome = "ok"
    <3>1. \A j \in Mine(t) \cap S : j <= last
      BY <2>1, <2>2 DEF Ids
    <3>2. last \in Mine(t) \cap S
      BY <2>1, <2>2, <2>4, <2>6
    <3> QED BY <2>3, <2>6, <3>1, <3>2 DEF Holds
  <2> QED BY <2>5, <2>6
<1>2. ASSUME IInv
      PROVE  BatchIsAllOrNothing
  BY <1>1, <1>2 DEF BatchIsAllOrNothing, Mine, Clean
<1> QED BY <1>2, IInvHolds, PTL
=============================================================================
