----------------------------- MODULE QuotaReads -----------------------------
(***************************************************************************)
(* What a quota reading promises (quota_snapshots_from_sessions, the       *)
(* from-scratch reference of quota.rs): it rests on the newest MaxPoints   *)
(* observations of the sessions folded in so far and on the newest account.*)
(* Sessions come in the order of a hash map, which says which observations *)
(* and which account of one instant are taken: any of them.                *)
(***************************************************************************)
EXTENDS Integers, FiniteSets

CONSTANTS Sessions, None, MaxPoints, Contents

VARIABLES corpus,  \* what was last folded in of each session, or None
          shown    \* what the last snapshot was computed from

\* The observations of the corpus, each with its session and its place there.
Observations(c) ==
    UNION {{[ts |-> c[s].points[i].ts, session |-> s, seq |-> i, point |-> c[s].points[i]] :
              i \in DOMAIN c[s].points} : s \in {t \in Sessions : c[t] # None}}

\* The sort is stable: those of one session stay in their order.
Outlives(p, q) == q.ts < p.ts \/ (q.ts = p.ts /\ (q.session = p.session => q.seq < p.seq))

\* What may be left when the oldest are drained: it is shown in order of time.
NewestPoints(all) ==
    {kept \in SUBSET all :
        /\ Cardinality(kept) = IF Cardinality(all) > MaxPoints THEN MaxPoints ELSE Cardinality(all)
        /\ \A p \in kept, q \in all \ kept : Outlives(p, q)}

\* The account of a session whose last event is newest.
NewestAccounts(c) ==
    LET has == {s \in Sessions : c[s] # None /\ c[s].account # None}
    IN  IF has = {} THEN {None}
        ELSE {c[s].account : s \in {t \in has : \A u \in has : c[u].last <= c[t].last}}

\* quota_snapshots_from_sessions, up to what build_quota_snapshot makes of it.
FromScratch(c) == [points : NewestPoints(Observations(c)), account : NewestAccounts(c)]

ReadsInit == corpus = [s \in Sessions |-> None] /\ shown = None

Fold(s, content) == corpus' = [corpus EXCEPT ![s] = content] /\ UNCHANGED shown
Compute == shown' \in FromScratch(corpus) /\ UNCHANGED corpus

ReadsNext ==
    \/ \E s \in Sessions, content \in Contents \cup {None} : Fold(s, content)
    \/ Compute

ReadsSpec == ReadsInit /\ [][ReadsNext]_<<corpus, shown>>
=============================================================================
