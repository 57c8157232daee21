-------------------------- MODULE AccountingExport --------------------------
(***************************************************************************)
(* Exports of accounting (history_accounting_export.rs, history_integrity  *)
(* .rs and their commands): the rows are prepared and reviewed, the user   *)
(* picks a file while everything goes on, and they are computed again      *)
(* under the locks before they are written.                                *)
(*                                                                         *)
(* A durable session is the set of its token events (one without events    *)
(* has a cumulative total alone), and superseded when its transcript was   *)
(* replaced; events may be held by two sessions.  Rates are a card and how *)
(* often one was saved.  A row of the export of sessions is priced, over   *)
(* their life or between two dates; those of activity and of tools are     *)
(* not, and come from the window that shows them.                          *)
(***************************************************************************)
EXTENDS Absent, Integers, FiniteSets

CONSTANTS Ledgers, Events, Cards,
          Fresh,                    \* how long a review holds: 15 minutes
          MaxSaves, MaxClock, MaxFacts  \* bounds

VARIABLES
    ledger,      \* per session: None or [events, superseded]
    pending,     \* rollups_pending
    staleMarks,  \* AppState's <<session, why>>: a write "failed" or is "deferred"
    marking,     \* a scan's write that is committed and not marked yet, or None
    coverage,    \* coverage_complete, no recovery, and the scan finished
    card, saves, \* the saved card; ACCOUNTING_RATE_REVISION
    clock,
    job,         \* the export: None or [at, kind, keys, review, content]
    ratesHeld,   \* ACCOUNTING_RATE_PUBLICATION is held by the export
    txHeld,      \* its transaction is open: no other writer
    exported,    \* the file: None or what was written
    totals,      \* what a window or a budget is shown: None or [at, kind, keys, rows]
    facts        \* how often the ledger was written

exportVars == <<ledger, pending, staleMarks, marking, coverage, card, saves, clock,
                job, ratesHeld, txHeld, exported, totals, facts>>
ledgerVars == <<ledger, pending, staleMarks, marking, facts>>
exportOnly == <<job, ratesHeld, txHeld, exported>>
cardVars == <<card, saves>>

-----------------------------------------------------------------------------
(* Proofs about the ledger.                                                *)

\* has_ambiguous_accounting_identity_on: an event that a superseded session shares
\* with another one.
Ambiguous(keys) ==
    \E s, t \in keys : s # t /\ ledger[s].superseded /\ ledger[s].events \cap ledger[t].events # {}

\* prove_cumulative_on: or may share with it, where totals of a life are added.
Uncertain(keys) ==
    \E s, t \in keys : s # t /\ ledger[s].superseded /\ {} \in {ledger[s].events, ledger[t].events}
Priced(kind) == kind \in {"sessions", "dated"}
OfALife(kind) == kind = "sessions"

\* A bug: the proof does not look for events that are counted twice.
ProvesRowsOnly(kind, keys) == (\A s \in keys : ledger[s] # None) /\ pending = {}
\* prove_accounting_on, and the other where it is called.
ProveAccounting(kind, keys) ==
    /\ \A s \in keys : ledger[s] # None
    /\ pending = {}
    /\ ~Ambiguous(keys)
    /\ OfALife(kind) => ~Uncertain(keys)

\* summary_export_on, and what the other two exports are compared with.
RowsOf(kind, keys) ==
    [row |-> [s \in keys |-> IF Priced(kind) THEN ledger[s] ELSE ledger[s].events],
     priced |-> IF Priced(kind) THEN card ELSE None,
     coverage |-> IF kind = "activity" THEN coverage ELSE None]

\* What the digest stands for, next to the rows.
Authority(kind) == IF Priced(kind) THEN saves ELSE None

NotStale(keys) == \A m \in staleMarks : m[1] \notin keys

-----------------------------------------------------------------------------
(* The commands.                                                           *)

\* prepare_session_summary_export: the marks are read before the locks are
\* taken, and again afterwards.
Prepare(kind, keys) ==
    /\ job = None /\ NotStale(keys)
    /\ job' = [at |-> "reading", kind |-> kind, keys |-> keys, review |-> None, content |-> None]
    /\ ratesHeld' = TRUE
    /\ UNCHANGED <<ledgerVars, coverage, cardVars, clock, txHeld, exported, totals>>

ReadRows ==
    /\ job # None /\ job.at = "reading"
    /\ IF ProveAccounting(job.kind, job.keys)
       THEN job' = [job EXCEPT !.at = "read", !.review = [at |-> clock, saves |-> saves],
                               !.content = RowsOf(job.kind, job.keys)]
       ELSE job' = None
    /\ ratesHeld' = (job' # None)
    /\ UNCHANGED <<ledgerVars, coverage, cardVars, clock, txHeld, exported, totals>>

Reviewed ==
    /\ job # None /\ job.at = "read" /\ ratesHeld' = FALSE
    /\ job' = IF NotStale(job.keys) THEN [job EXCEPT !.at = "picking"] ELSE None
    /\ UNCHANGED <<ledgerVars, coverage, cardVars, clock, txHeld, exported, totals>>

\* The rows of activity and of tools are what a window shows, from whenever.
AskUnpriced(kind, keys) ==
    /\ job = None /\ \A s \in keys : ledger[s] # None
    /\ job' = [at |-> "picking", kind |-> kind, keys |-> keys,
               review |-> [at |-> clock, saves |-> None], content |-> RowsOf(kind, keys)]
    /\ UNCHANGED <<ledgerVars, coverage, cardVars, clock, ratesHeld, txHeld, exported, totals>>

\* publish_*_export, once a file is picked, or not.
Picked ==
    /\ job # None /\ job.at = "picking"
    /\ \/ job' = None
       \/ job' = IF NotStale(job.keys) THEN [job EXCEPT !.at = "publishing"] ELSE None
    /\ ratesHeld' = (job' # None /\ Priced(job.kind))
    /\ UNCHANGED <<ledgerVars, coverage, cardVars, clock, txHeld, exported, totals>>

\* A bug: what was reviewed is taken for what is true.
TrustsReview == TRUE
StillTrue ==
    /\ ProveAccounting(job.kind, job.keys)
    /\ RowsOf(job.kind, job.keys) = job.content
    /\ Authority(job.kind) = job.review.saves
InTime == Priced(job.kind) => clock - job.review.at <= Fresh

\* A bug: the transaction does not keep other writers out.
ReadsOnly == FALSE
TakesWriteLock == TRUE

\* with_accounting_publication: an immediate transaction, and everything again.
BeginPublication ==
    /\ job # None /\ job.at = "publishing"
    /\ IF InTime /\ StillTrue
       THEN job' = [job EXCEPT !.at = "writing"] /\ txHeld' = TakesWriteLock /\ UNCHANGED ratesHeld
       ELSE job' = None /\ ratesHeld' = FALSE /\ UNCHANGED txHeld
    /\ UNCHANGED <<ledgerVars, coverage, cardVars, clock, exported, totals>>

\* In the transaction, the last look at the marks and, for activity, at the scan.
LookAgain ==
    /\ job # None /\ job.at = "writing"
    /\ IF NotStale(job.keys) /\ (job.kind = "activity" => coverage = job.content.coverage)
       THEN job' = [job EXCEPT !.at = "persisting"] /\ UNCHANGED <<ratesHeld, txHeld>>
       ELSE job' = None /\ ratesHeld' = FALSE /\ txHeld' = FALSE
    /\ UNCHANGED <<ledgerVars, coverage, cardVars, clock, exported, totals>>

\* publish_atomic_accounting_export, still in the transaction; it may fail.  No
\* lock keeps a mark or a scan from coming first.
PersistExport ==
    /\ job # None /\ job.at = "persisting"
    /\ exported' \in {exported, [kind |-> job.kind, keys |-> job.keys, content |-> job.content]}
    /\ job' = None /\ ratesHeld' = FALSE /\ txHeld' = FALSE
    /\ UNCHANGED <<ledgerVars, coverage, cardVars, clock, totals>>

-----------------------------------------------------------------------------
(* Totals and prices on the screen: the marks are read, one snapshot of the *)
(* ledger, and the marks again, with no lock over the three.                *)

\* sessions_in_ranges, get_session_pricing
AskTotals(kind, keys) ==
    /\ totals = None /\ NotStale(keys)
    /\ totals' = [at |-> "asked", kind |-> kind, keys |-> keys, rows |-> None]
    /\ UNCHANGED <<ledgerVars, coverage, cardVars, clock, exportOnly>>

ReadTotals ==
    /\ totals # None /\ totals.at = "asked"
    /\ totals' = IF ProveAccounting(totals.kind, totals.keys)
                 THEN [totals EXCEPT !.at = "read", !.rows = [s \in totals.keys |-> ledger[s].events]] ELSE None
    /\ UNCHANGED <<ledgerVars, coverage, cardVars, clock, exportOnly>>

\* A bug: the marks are not read again.
WereNotStale(keys) == TRUE
StillNotStale(keys) == NotStale(keys)

ShowTotals ==
    /\ totals # None /\ totals.at = "read"
    /\ totals' = IF StillNotStale(totals.keys) THEN [totals EXCEPT !.at = "shown"] ELSE None
    /\ UNCHANGED <<ledgerVars, coverage, cardVars, clock, exportOnly>>

-----------------------------------------------------------------------------
(* What goes on meanwhile.                                                 *)

Stored(s, row) == ~txHeld /\ facts < MaxFacts /\ facts' = facts + 1 /\ ledger' = [ledger EXCEPT ![s] = row]

\* A transcript is stored, by the watcher or by a scan that defers its rows.
StoreSession(s, events, deferred) ==
    /\ marking = None
    /\ Stored(s, [events |-> events, superseded |-> FALSE])
    /\ pending' = IF deferred THEN pending \cup {s} ELSE pending
    /\ marking' = IF deferred THEN s ELSE None
    /\ staleMarks' = staleMarks \ ({<<s, "failed">>} \cup IF deferred THEN {} ELSE {<<s, "deferred">>})
    /\ UNCHANGED <<coverage, cardVars, clock, job, ratesHeld, txHeld, exported, totals>>

MarkDeferred ==
    /\ marking # None /\ staleMarks' = staleMarks \cup {<<marking, "deferred">>} /\ marking' = None
    /\ UNCHANGED <<ledger, pending, facts, coverage, cardVars, clock, job, ratesHeld, txHeld, exported, totals>>

\* A write that fails leaves the mark that the ledger is behind.
StoreFails(s) ==
    /\ facts < MaxFacts /\ facts' = facts + 1 /\ staleMarks' = staleMarks \cup {<<s, "failed">>}
    /\ UNCHANGED <<ledger, pending, marking, coverage, cardVars, clock, job, ratesHeld, txHeld, exported, totals>>

\* The transcript is replaced, or the session is purged.
SupersedeSession(s) ==
    /\ ledger[s] # None /\ Stored(s, [ledger[s] EXCEPT !.superseded = TRUE])
    /\ UNCHANGED <<pending, staleMarks, marking, coverage, cardVars, clock, job, ratesHeld, txHeld, exported, totals>>
Purged(s) ==
    /\ ledger[s] # None /\ Stored(s, None)
    /\ pending' = pending \ {s} /\ staleMarks' = staleMarks \ {<<s, "failed">>, <<s, "deferred">>}
    /\ UNCHANGED <<marking, coverage, cardVars, clock, job, ratesHeld, txHeld, exported, totals>>

\* The scan ends: the rows are rebuilt and the marks cleared.
RebuildRows ==
    /\ ~txHeld /\ marking = None /\ pending # {} /\ pending' = {}
    /\ staleMarks' = {m \in staleMarks : m[2] # "deferred"}
    /\ UNCHANGED <<ledger, marking, facts, coverage, cardVars, clock, job, ratesHeld, txHeld, exported, totals>>

\* A card is saved.
SaveRates(c) ==
    /\ ~ratesHeld /\ saves < MaxSaves /\ card' = c /\ saves' = saves + 1
    /\ UNCHANGED <<ledgerVars, coverage, clock, job, ratesHeld, txHeld, exported, totals>>

\* A scan starts or ends.
CoverageChanges ==
    /\ coverage' = ~coverage
    /\ UNCHANGED <<ledgerVars, cardVars, clock, job, ratesHeld, txHeld, exported, totals>>

Tick ==
    /\ clock < MaxClock /\ clock' = clock + 1
    /\ UNCHANGED <<ledgerVars, coverage, cardVars, job, ratesHeld, txHeld, exported, totals>>

ExportInit ==
    /\ ledger = [s \in Ledgers |-> [events |-> Events, superseded |-> FALSE]]
    /\ pending = {} /\ staleMarks = {} /\ marking = None /\ coverage = TRUE
    /\ card = CHOOSE c \in Cards : TRUE
    /\ saves = 0 /\ clock = 0 /\ facts = 0
    /\ job = None /\ ratesHeld = FALSE /\ txHeld = FALSE /\ exported = None /\ totals = None

ExportNext ==
    \/ \E keys \in (SUBSET Ledgers) \ {{}} :
          \/ \E kind \in {"sessions", "dated"} : AskTotals(kind, keys) \/ Prepare(kind, keys)
          \/ \E kind \in {"activity", "tools"} : AskUnpriced(kind, keys)
    \/ ReadTotals \/ ShowTotals
    \/ ReadRows \/ Reviewed \/ Picked \/ BeginPublication \/ LookAgain \/ PersistExport
    \/ \E s \in Ledgers :
          \/ \E events \in SUBSET Events, deferred \in BOOLEAN : StoreSession(s, events, deferred)
          \/ StoreFails(s) \/ SupersedeSession(s) \/ Purged(s)
    \/ MarkDeferred \/ RebuildRows \/ CoverageChanges \/ Tick
    \/ \E c \in Cards : SaveRates(c)

-----------------------------------------------------------------------------
\* What is added up counts no event twice.
CountsOnce(kind, keys) == pending = {} /\ ~Ambiguous(keys) /\ (OfALife(kind) => ~Uncertain(keys))

\* No total is shown that counts an event twice, or misses what could not be stored.
TotalsAreTrue ==
    totals' # totals /\ totals' # None =>
        /\ totals'.at = "read" => CountsOnce(totals.kind, totals.keys)
        /\ totals'.at = "shown" => \A s \in totals.keys : <<s, "failed">> \notin staleMarks

\* Whatever is stored, replaced, purged or priced anew while the user picks the
\* file and until it is in place: what is written is what was reviewed, still true
\* of the ledger at that moment, with nothing counted twice, under the card of the
\* review.  (A mark, or the start of a scan, between the last look and the rename
\* is not in it.)
ExportsAreTrue ==
    TotalsAreTrue /\ (exported' # exported =>
        LET e == exported' IN
        /\ e.content = job.content
        /\ \A s \in e.keys : ledger[s] # None
        /\ e.content.row = RowsOf(e.kind, e.keys).row
        /\ e.content.priced = RowsOf(e.kind, e.keys).priced
        /\ CountsOnce(e.kind, e.keys)
        /\ Priced(e.kind) => saves = job.review.saves)
=============================================================================
