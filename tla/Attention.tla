------------------------------ MODULE Attention ------------------------------
(***************************************************************************)
(* Attention alerts on live transcripts (attention.rs), by several windows *)
(* or processes that share one preferences and deduplication file.         *)
(*                                                                         *)
(* A signal is a turn or tool event of a session, [session, id, at,        *)
(* category, undone].  A turn that was rolled back is one that is undone:  *)
(* it is dated, and named, by the last thing its session recorded, so it   *)
(* becomes another signal whenever the session records something later.    *)
(* The file is replaced under a lock that is tried and never waited for,   *)
(* so an operation is one step that may fail.  Time is counted in the      *)
(* interval between two alerts.                                            *)
(***************************************************************************)
EXTENDS Absent, Integers, Sequences, SequencesExt, FiniteSets

CONSTANTS Processes, Threads, Categories,
          Interrupted,    \* the category of a turn that was rolled back
          AlertGap, StaleAfter,
          MarkAge,        \* how long a watermark is kept
          MaxSeen, MaxMarks, MaxAlerts,
          MaxSignals, MaxNow, MaxSaves  \* bounds

ASSUME AttentionAssumption ==
    /\ StaleAfter \in Nat /\ MarkAge \in Nat /\ StaleAfter <= MarkAge
    /\ AlertGap \in Nat /\ MaxSeen \in Nat \ {0} /\ MaxAlerts \in Nat
    /\ None \notin Nat /\ Interrupted \in Categories

VARIABLES
    attentionFile,     \* attention-v1.json
    inner,    \* Inner of each process
    signals,  \* what the transcripts hold
    issued,   \* ghost: alerts so far, in order
    now

attentionVars == <<attentionFile, inner, signals, issued, now>>

Empty == [revision |-> 0, categories |-> Categories, seen |-> << >>,
          marks |-> [t \in Threads |-> None], last |-> None]

Opened(at) == [store |-> attentionFile, available |-> TRUE, armed |-> at, alerts |-> << >>]

AttentionInit ==
    /\ attentionFile = Empty
    /\ now = 0 /\ signals = {} /\ issued = << >>
    /\ inner = [p \in Processes |-> [store |-> Empty, available |-> TRUE, armed |-> 0, alerts |-> << >>]]

\* The signals of a transcript that recorded something at `at'.
Recorded(t, at) ==
    {IF g.session = t /\ g.undone /\ g.at < at THEN [g EXCEPT !.at = at] ELSE g : g \in signals}

LineHappens == \E t \in Threads, at \in 0..now :
    /\ signals' = Recorded(t, at)
    /\ UNCHANGED <<attentionFile, inner, issued, now>>

\* A turn or a tool ends, or its record is flushed late.
SignalHappens == \E t \in Threads, c \in Categories, at \in 0..now, id \in 1..MaxSignals :
    /\ \A g \in signals : g.id < id
    /\ signals' = Recorded(t, at)
                   \cup {[session |-> t, id |-> id, at |-> at, category |-> c, undone |-> FALSE]}
    /\ UNCHANGED <<attentionFile, inner, issued, now>>

\* A turn that g tells of is rolled back; `at' is then its session's last event.
TurnRolledBack == \E g \in signals, at \in 0..now :
    /\ ~g.undone /\ \A h \in signals : h.session = g.session => h.at <= at
    /\ signals' = (Recorded(g.session, at) \ {g})
                   \cup {[g EXCEPT !.at = at, !.category = Interrupted, !.undone = TRUE]}
    /\ UNCHANGED <<attentionFile, inner, issued, now>>

Passes == now < MaxNow /\ now' = now + 1 /\ UNCHANGED <<attentionFile, inner, signals, issued>>

\* The process restarts.
Open(p) ==
    /\ inner' = [inner EXCEPT ![p] = Opened(now)]
    /\ UNCHANGED <<attentionFile, signals, issued, now>>

\* The signals of a batch, in the order of their times.
Batches(set) ==
    {b \in [1..Cardinality(set) -> set] : \A i, j \in DOMAIN b : i < j => b[i] # b[j] /\ b[i].at <= b[j].at}

\* What a live append may alert: armed, recent and of a chosen category.
CandidateSignals(p, t) ==
    {g \in signals : /\ g.session = t /\ g.at >= inner[p].armed /\ g.at <= now
                     /\ now - g.at <= StaleAfter
                     /\ g.category \in inner[p].store.categories}

Digest(g) == <<g.session, g.id, g.at, g.undone>>

\* The file without the watermarks nothing that is not stale can precede.
Forget(store) ==
    [store EXCEPT !.marks = [t \in Threads |-> IF @[t] # None /\ now - @[t] > MarkAge THEN None ELSE @[t]]]

\* A bug: the log of what was seen is trusted to be complete.
SeenOnly(store, mark, g) == Contains(store.seen, Digest(g))

\* Older or same-time arrivals cannot replay an earlier signal.
Known(store, mark, g) == (mark # None /\ g.at <= mark) \/ Contains(store.seen, Digest(g))

KeepNewest(seq, n) == IF Len(seq) > n THEN SubSeq(seq, Len(seq) - n + 1, Len(seq)) ELSE seq

\* What of the candidates is news.
Fresh(p, t, store) == {g \in CandidateSignals(p, t) : ~Known(store, store.marks[t], g)}

\* The first of a batch is told, if none was for a while; all are consumed.
Tells(store, batch) == batch # << >> /\ (store.last = None \/ now - store.last >= AlertGap)

Consumed(store, t, batch) ==
    IF batch = << >> THEN store
    ELSE [store EXCEPT !.seen = KeepNewest(@ \o [i \in DOMAIN batch |-> Digest(batch[i])], MaxSeen),
                       !.marks[t] = Last(batch).at,
                       !.last = IF Tells(store, batch) THEN now ELSE @]

\* The process failed to read, lock or save: it suppresses every alert.
Suppress(p, t) ==
    /\ CandidateSignals(p, t) # {}
    /\ inner' = [inner EXCEPT ![p].available = FALSE, ![p].alerts = << >>]
    /\ UNCHANGED <<attentionFile, signals, issued, now>>

\* observe of a live append, and publish.
Publish(p, t) ==
    LET store == Forget(attentionFile)
        marked == {u \in Threads : store.marks[u] # None}
    IN  /\ CandidateSignals(p, t) # {}
        /\ attentionFile.revision = inner[p].store.revision
        /\ t \in marked \/ Cardinality(marked) < MaxMarks
        /\ \E batch \in Batches(Fresh(p, t, store)) :
             LET after == Consumed(store, t, batch)
                 told == IF Tells(store, batch) THEN <<[signal |-> batch[1], at |-> now]>> ELSE << >>
             IN  /\ attentionFile' = IF after.seen # store.seen THEN after ELSE attentionFile
                 /\ inner' = [inner EXCEPT ![p].store = after, ![p].alerts = KeepNewest(@ \o told, MaxAlerts)]
                 /\ issued' = issued \o told
        /\ UNCHANGED <<signals, now>>

Observe(p, t) ==
    /\ inner[p].available /\ inner[p].store.categories # {}
    /\ Publish(p, t) \/ Suppress(p, t)

\* preferences: over the revision the caller last saw.
SavePreferences(p, categories) ==
    /\ attentionFile.revision < MaxSaves
    /\ attentionFile' = [attentionFile EXCEPT !.revision = @ + 1, !.categories = categories]
    /\ inner' = [inner EXCEPT ![p] = [store |-> attentionFile', available |-> TRUE, armed |-> now, alerts |-> << >>]]
    /\ UNCHANGED <<signals, issued, now>>

\* snapshot: another process's preferences become this one's.
ReadSnapshot(p) ==
    /\ inner' = [inner EXCEPT ![p] =
         IF attentionFile.revision # @.store.revision
         THEN [@ EXCEPT !.store = attentionFile, !.armed = now, !.alerts = << >>]
         ELSE [@ EXCEPT !.store = attentionFile]]
    /\ UNCHANGED <<attentionFile, signals, issued, now>>

\* The alerts a snapshot shows: recent, and none while anything failed.
ShownAlerts(p) ==
    IF ~inner[p].available THEN {}
    ELSE {i \in DOMAIN inner[p].alerts : now - inner[p].alerts[i].signal.at <= StaleAfter}

AttentionNext ==
    \/ LineHappens \/ SignalHappens \/ TurnRolledBack \/ Passes
    \/ \E p \in Processes : Open(p) \/ ReadSnapshot(p) \/ \E cs \in {{}, Categories} : SavePreferences(p, cs)
    \/ \E p \in Processes, t \in Threads : Observe(p, t)

-----------------------------------------------------------------------------
SameEvent(g, h) == g.session = h.session /\ g.id = h.id

\* An event of a session is told once, in whatever process, after restarts and
\* late records, and although the log of what was seen forgets; only that a turn
\* was rolled back is told again, and each time only because its session has
\* recorded something later.  Two alerts are never closer than AlertGap.
AlertedOnce ==
    /\ \A i, j \in DOMAIN issued : i < j =>
         /\ SameEvent(issued[i].signal, issued[j].signal) =>
              issued[j].signal.undone /\ issued[i].signal.at < issued[j].signal.at
         /\ issued[j].at - issued[i].at >= AlertGap
    /\ \A p \in Processes : \A i \in ShownAlerts(p) : inner[p].alerts[i].signal.category \in inner[p].store.categories
=============================================================================
