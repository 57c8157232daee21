------------------------------- MODULE Lineage -------------------------------
(***************************************************************************)
(* Which durable session an observed transcript belongs to                 *)
(* (reconcile_session and observe_one_in_transaction, history_store.rs).   *)
(*                                                                         *)
(* Every file here carries one provider identity.  A transcript is its     *)
(* first turn, which may come after its first token events, and its token  *)
(* events; any may be found at any path, since a provider appends to files *)
(* and users copy, cut, restore and remove them.  Copies that only got     *)
(* longer are one session; copies that went different ways are several.    *)
(***************************************************************************)
EXTENDS Absent, Integers, Sequences, FiniteSets, SequencesExt

CONSTANTS Paths, Turns,
          Histories,    \* the sequences of token events a transcript may have
          MaxSessions   \* bound

ASSUME HistoriesAssumption == \A h \in Histories : h \in Seq(Range(h)) /\ None \notin Range(h)

VARIABLES
    sessions,   \* durable_sessions, their current snapshot and their token events
    artifacts,  \* source_artifacts: the owner of each
    locations,  \* source_locations
    observed    \* ghost: what was last observed at each path

lineageVars == <<sessions, artifacts, locations, observed>>

Transcripts == [turn : Turns \cup {None}, events : Histories]
Keys == [collision : BOOLEAN, lineage : Histories \cup {<< >>}]
ASSUME LineageAssumption == None \notin Transcripts \cup Keys

LineageInit ==
    /\ sessions = << >> /\ artifacts = << >> /\ locations = << >>
    /\ observed = [p \in Paths |-> None]

-----------------------------------------------------------------------------
(* The identity of a history.                                              *)

\* first_event_fingerprint; it is final once there is a token event.
FirstEventFingerprint(t) == <<t.turn, IF t.events = << >> THEN None ELSE Head(t.events)>>
IsFinal(t) == t.events # << >>

\* histories_share_lineage: one is a prefix of the other.
HistoriesShareLineage(a, b) == IsPrefix(a, b) \/ IsPrefix(b, a)

\* provisional_metadata_matches, as far as these transcripts can differ.
ProvisionalMetadataMatches(a, b) == a.turn = None \/ b.turn = None \/ a.turn = b.turn

\* source_snapshot_is_monotonic
Monotonic(t, current) ==
    \/ Len(t.events) > Len(current.events)
    \/ Len(t.events) = Len(current.events) /\ ~(t.turn = None /\ current.turn # None)

\* The provider's identity, and ":collision:" with the lineage it was made for.
BaseKey == [collision |-> FALSE, lineage |-> << >>]
CollisionKey(t) == [collision |-> TRUE, lineage |-> t.events]

SessionKeys == DOMAIN sessions

-----------------------------------------------------------------------------
(* reconcile_session: the key, and what is written to the row that has it. *)

\* The session bound to this path, when its artifact agrees that it is.
BoundTo(p) ==
    {k \in SessionKeys : /\ p \in DOMAIN locations /\ locations[p].key = k
                  /\ artifacts[locations[p].artifact] = k}

Settled(p, t) ==
    {k \in BoundTo(p) : sessions[k].final /\ sessions[k].fingerprint # FirstEventFingerprint(t)}

\* A token count came before the first turn, and now there is one.
GainsFirstTurn(p, t) ==
    {k \in Settled(p, t) :
        LET stored == sessions[k].snapshot
        IN  /\ stored.turn = None /\ t.turn # None /\ stored.events # << >>
            /\ Len(t.events) >= Len(stored.events)
            /\ HistoriesShareLineage(t.events, stored.events)}

\* A bug: one artifact for a lineage, whoever owns it.
ArtifactOfLineage(t, key) == [lineage |-> t.events, owner |-> None]

\* source_artifact_key: one artifact for a lineage, another one for a session
\* that does not own the first.
SourceArtifactKey(t, key) ==
    LET base == [lineage |-> t.events, owner |-> None]
    IN  IF base \in DOMAIN artifacts /\ artifacts[base] # key
        THEN [lineage |-> t.events, owner |-> key] ELSE base

\* A stale copy that still lacks the turn; only its own artifact proves it.
IsStaleCopy(p, t) ==
    {k \in Settled(p, t) :
        LET stored == sessions[k].snapshot
        IN  /\ stored.turn # None /\ t.turn = None
            /\ stored.events # << >> /\ t.events # << >>
            /\ Len(t.events) <= Len(stored.events)
            /\ locations[p].artifact = SourceArtifactKey(t, k)
            /\ HistoriesShareLineage(t.events, stored.events)}

\* A bug: the fingerprint alone decides.
OfFingerprint(t) == {k \in SessionKeys : sessions[k].fingerprint = FirstEventFingerprint(t)}
SameLineage(t) ==
    {k \in SessionKeys : /\ sessions[k].fingerprint = FirstEventFingerprint(t)
                  /\ HistoriesShareLineage(t.events, sessions[k].snapshot.events)}

\* The row observed before its first token event: the one at this path, or the
\* only one there is.
Provisional(p, t) ==
    LET here == {k \in SessionKeys : p \in DOMAIN locations /\ locations[p].key = k /\ ~sessions[k].final}
        all == {k \in SessionKeys : ~sessions[k].final}
    IN  IF ~IsFinal(t) THEN {}
        ELSE IF here # {} THEN here
        ELSE IF Cardinality(all) = 1 THEN {k \in all : ProvisionalMetadataMatches(t, sessions[k].snapshot)}
        ELSE {}

NewRow(t) ==
    [fingerprint |-> FirstEventFingerprint(t), final |-> IsFinal(t), collision |-> FALSE,
     lifecycle |-> "present", snapshot |-> None, facts |-> << >>]

Existing(k) == [key |-> k, row |-> sessions[k]]
Refingerprinted(k, t) ==
    [key |-> k, row |-> [sessions[k] EXCEPT !.fingerprint = FirstEventFingerprint(t), !.final = TRUE]]

\* Each rule applies when the ones before it find nothing; when several rows
\* fit, any of them may come first.
Reconciled(p, t) ==
    IF GainsFirstTurn(p, t) # {} THEN {Refingerprinted(k, t) : k \in GainsFirstTurn(p, t)}
    ELSE IF IsStaleCopy(p, t) # {} THEN {Existing(k) : k \in IsStaleCopy(p, t)}
    ELSE IF SameLineage(t) # {} THEN {Existing(k) : k \in SameLineage(t)}
    ELSE IF Provisional(p, t) # {} THEN {Refingerprinted(k, t) : k \in Provisional(p, t)}
    ELSE {[key |-> IF BaseKey \in SessionKeys THEN CollisionKey(t) ELSE BaseKey, row |-> NewRow(t)]}

-----------------------------------------------------------------------------
(* observe_one_in_transaction.                                             *)

\* A bug: a snapshot is replaced whatever is in it.
ReplacesAlways(row, t) ==
    [row EXCEPT !.snapshot = t, !.facts = @ \o SubSeq(t.events, Len(@) + 1, Len(t.events)),
                !.lifecycle = "present"]

\* store_snapshot and store_token_events: only the events that are new.
WithSnapshot(row, t) ==
    IF row.snapshot = None \/ Monotonic(t, row.snapshot)
    THEN [row EXCEPT !.snapshot = t, !.facts = @ \o SubSeq(t.events, Len(@) + 1, Len(t.events)),
                     !.lifecycle = "present"]
    ELSE [row EXCEPT !.lifecycle = "present"]

\* A bug: only a row that is made is flagged.
FlagsTheNewOne(rows) ==
    [k \in DOMAIN rows |-> [rows[k] EXCEPT !.collision = @ \/ (k.collision /\ rows[k].final)]]

\* refresh_collision_flags, of every row of the identity.
Flagged(rows) ==
    LET several == Cardinality({k \in DOMAIN rows : rows[k].final}) > 1
    IN  [k \in DOMAIN rows |-> [rows[k] EXCEPT !.collision = several]]

HasPresent(places, k) == \E q \in DOMAIN places : places[q].key = k /\ places[q].present

Displaced(rows, places, p) ==
    [k \in DOMAIN rows |->
        IF p \in DOMAIN locations /\ k = locations[p].key /\ k # places[p].key /\ ~HasPresent(places, k)
        THEN [rows[k] EXCEPT !.lifecycle = "superseded"] ELSE rows[k]]

\* INSERT ... ON CONFLICT DO UPDATE: the row of one key.
Upsert(table, key, row) == [k \in DOMAIN table \cup {key} |-> IF k = key THEN row ELSE table[k]]

Observe(p, t) ==
    /\ observed' = [observed EXCEPT ![p] = t]
    /\ \E r \in Reconciled(p, t) :
          \* The key of a new row may be taken: the transaction then fails.
          IF r.row.snapshot = None /\ r.key \in SessionKeys
          THEN UNCHANGED <<sessions, artifacts, locations>>
          ELSE LET artifact == SourceArtifactKey(t, r.key)
                   places == Upsert(locations, p, [key |-> r.key, artifact |-> artifact, present |-> TRUE])
                   rows == Upsert(sessions, r.key, WithSnapshot(r.row, t))
               IN  /\ Cardinality(DOMAIN rows) <= MaxSessions
                   /\ artifacts' = IF artifact \in DOMAIN artifacts THEN artifacts
                                   ELSE Upsert(artifacts, artifact, r.key)
                   /\ locations' = places
                   /\ sessions' = Flagged(Displaced(rows, places, p))

\* mark_missing_source: its session is retained when no other copy is present.
MarkMissing(p) ==
    /\ p \in DOMAIN locations /\ locations[p].present
    /\ LET places == [locations EXCEPT ![p].present = FALSE]
           k == locations[p].key
       IN  /\ locations' = places
           /\ sessions' = IF HasPresent(places, k) THEN sessions ELSE [sessions EXCEPT ![k].lifecycle = "retained"]
    /\ observed' = [observed EXCEPT ![p] = None]
    /\ UNCHANGED artifacts

LineageNext == \E p \in Paths : MarkMissing(p) \/ \E t \in Transcripts : Observe(p, t)

-----------------------------------------------------------------------------
\* has_ambiguous_accounting_identity_on, asked about these sessions.
Ambiguous(selected) ==
    \/ \E p \in DOMAIN locations : locations[p].key \in selected
          /\ artifacts[locations[p].artifact] # locations[p].key
    \/ \E a, b \in selected : /\ a # b /\ sessions[a].collision /\ sessions[b].collision
                              /\ "superseded" \in {sessions[a].lifecycle, sessions[b].lifecycle}
                              /\ Range(sessions[a].facts) \cap Range(sessions[b].facts) # {}

\* The token events of a session are those of its snapshot, one history and no
\* mix of two; and each place it is read from still is a part of it.
HistoriesAreWhole ==
    /\ \A k \in SessionKeys : sessions[k].facts = sessions[k].snapshot.events
    /\ \A p \in DOMAIN locations : observed[p] # None =>
          \/ IsPrefix(observed[p].events, sessions[locations[p].key].facts)
          \/ CollisionKey(observed[p]) \in SessionKeys

\* What two sessions would both count is marked as a collision, and what a
\* session left behind would count again makes the accounting ambiguous.
SharedEventsAreMarked ==
    \A a, b \in SessionKeys : a # b /\ Range(sessions[a].facts) \cap Range(sessions[b].facts) # {} =>
        /\ sessions[a].collision /\ sessions[b].collision
        /\ "superseded" \in {sessions[a].lifecycle, sessions[b].lifecycle} => Ambiguous({a, b})

\* A place is reached through an artifact of the session it belongs to.
ArtifactsAgree == \A p \in DOMAIN locations : artifacts[locations[p].artifact] = locations[p].key

LineageIsSound == HistoriesAreWhole /\ SharedEventsAreMarked /\ ArtifactsAgree

\* docs/ARCHITECTURE.md: a transcript that only grows, and of which there is no
\* copy, stays the session it was.
OneLineageOneSession ==
    [][\A p \in Paths :
          /\ observed'[p] # observed[p] /\ observed[p] # None /\ observed'[p] # None
          /\ IsPrefix(observed[p].events, observed'[p].events)
          /\ observed[p].turn \in {None, observed'[p].turn}
          /\ DOMAIN locations = {p}
          => locations'[p].key = locations[p].key]_lineageVars
=============================================================================
