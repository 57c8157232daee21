---------------------------- MODULE Organization ----------------------------
(***************************************************************************)
(* Private annotations, bookmarks, tags and saved searches over durable    *)
(* sessions (history_organization.rs).                                     *)
(*                                                                         *)
(* A target is [session, anchor]; the anchor SessionAnchor is the session  *)
(* itself, the others are records of its transcript.  An editor, of any    *)
(* window, keeps what it loaded and saves it much later; every save is one *)
(* immediate transaction.                                                  *)
(***************************************************************************)
EXTENDS Absent, Integers, Sequences, FiniteSets

CONSTANTS Sessions, Anchors, SessionAnchor, Editors, Labels, Notes, Outcomes, Names,
          MaxTags, MaxBookmarks, MaxSearches,
          MaxRevision, MaxFingerprint  \* bounds

VARIABLES
    row,         \* durable_sessions: the fingerprint of each session, or None
    annotation,  \* session_annotations, with their tags
    tags,        \* organization_tags
    searches,    \* saved_searches, by id
    editor,      \* what each editor loaded
    latest,      \* the newest fingerprint each session has had
    revised      \* ghost: revisions handed out so far

organizationVars == <<row, annotation, tags, searches, editor, latest, revised>>

Targets == [session : Sessions, anchor : Anchors \cup {SessionAnchor}]
Target(s, a) == [session |-> s, anchor |-> a]

\* What a row of each table holds, and what an editor may have loaded of it.
Annotations == [revision : Nat, pinned : BOOLEAN, note : Notes \cup {None}, tags : SUBSET Labels,
                outcome : Outcomes \cup {None}]
Searches == [revision : Nat, name : Names]
Loaded == [target : Targets, fingerprint : Nat, saw : Annotations] \cup [search : Nat, saw : Searches]

ASSUME OrganizationAssumption == None \notin Nat \cup Searches \cup Loaded

\* Revision 0 stands for no row.
NoAnnotation == [revision |-> 0, pinned |-> FALSE, note |-> None, tags |-> {}, outcome |-> None]

OrganizationInit ==
    /\ row = [s \in Sessions |-> 0]
    /\ annotation = [t \in Targets |-> NoAnnotation]
    /\ tags = {} /\ searches = << >>
    /\ editor = [e \in Editors |-> None]
    /\ latest = [s \in Sessions |-> 0]
    /\ revised = 0

Bookmarks(s) == {a \in Anchors : annotation[Target(s, a)].revision > 0}

\* get_annotation, record_bookmarks
LoadAnnotation(e, t) ==
    /\ row[t.session] # None
    /\ editor' = [editor EXCEPT ![e] = [target |-> t, fingerprint |-> row[t.session], saw |-> annotation[t]]]
    /\ UNCHANGED <<row, annotation, tags, searches, latest, revised>>

\* A bug: the session is found by its key alone.
SameSession(ed) == row[ed.target.session] # None

\* read_annotation: the session still is the one the editor loaded.
SameIdentity(ed) == row[ed.target.session] = ed.fingerprint

Saves(e, t, changed) ==
    /\ annotation' = [annotation EXCEPT ![t] = changed]
    /\ editor' = [editor EXCEPT ![e] = None]
    /\ revised < MaxRevision /\ revised' = revised + 1
    /\ UNCHANGED <<row, searches, latest>>

EditsTarget(e) == editor[e] # None /\ "target" \in DOMAIN editor[e]

\* edit_annotation; an edit without an outcome keeps the one there is.
EditAnnotation(e, note, selected, outcome) ==
    LET ed == editor[e]
    IN  /\ EditsTarget(e) /\ ed.target.anchor = SessionAnchor /\ SameIdentity(ed)
        /\ annotation[ed.target].revision = ed.saw.revision
        /\ Cardinality(tags \cup selected) <= MaxTags
        /\ tags' = tags \cup selected
        /\ Saves(e, ed.target,
                 [annotation[ed.target] EXCEPT !.revision = @ + 1, !.note = note, !.tags = selected,
                                               !.outcome = IF outcome = None THEN @ ELSE outcome])

\* edit_record_bookmark: a bookmark that is taken off keeps its row.
EditBookmark(e, bookmarked) ==
    LET ed == editor[e]
    IN  /\ EditsTarget(e) /\ ed.target.anchor # SessionAnchor /\ SameIdentity(ed)
        /\ annotation[ed.target].revision = ed.saw.revision
        /\ bookmarked \/ ed.saw.revision > 0
        /\ Cardinality(Bookmarks(ed.target.session) \cup {ed.target.anchor}) <= MaxBookmarks
        /\ Saves(e, ed.target, [annotation[ed.target] EXCEPT !.revision = @ + 1, !.pinned = bookmarked])
        /\ UNCHANGED tags

\* A bug: an open editor does not notice that a tag was renamed.
KeepsRevision(a, label, replacement) ==
    [a EXCEPT !.tags = (@ \ {label}) \cup (IF replacement = None THEN {} ELSE {replacement})]

Retagged(a, label, replacement) ==
    [a EXCEPT !.revision = @ + 1,
              !.tags = (@ \ {label}) \cup (IF replacement = None THEN {} ELSE {replacement})]

\* change_organization_tag: a rename onto a label that exists is refused.
ChangeTag(label, replacement) ==
    /\ label \in tags
    /\ replacement \in tags => replacement = label
    /\ annotation' = [t \in Targets |-> IF label \in annotation[t].tags
                                        THEN Retagged(annotation[t], label, replacement) ELSE annotation[t]]
    /\ tags' = (tags \ {label}) \cup (IF replacement = None THEN {} ELSE {replacement})
    /\ revised < MaxRevision /\ revised' = revised + 1
    /\ UNCHANGED <<row, searches, editor, latest>>

\* The session is purged, and everything authored about it with it.
PurgeSession(s) ==
    /\ row[s] # None
    /\ row' = [row EXCEPT ![s] = None]
    /\ annotation' = [t \in Targets |-> IF t.session = s THEN NoAnnotation ELSE annotation[t]]
    /\ UNCHANGED <<tags, searches, editor, latest, revised>>

\* A transcript whose first event differs appears under the same key (the
\* purged one is refused by its tombstone), or the provisional fingerprint of a
\* session becomes final, and annotations follow it.
NewFingerprint(s) ==
    /\ latest[s] < MaxFingerprint
    /\ latest' = [latest EXCEPT ![s] = @ + 1]
    /\ row' = [row EXCEPT ![s] = latest[s] + 1]
    /\ UNCHANGED <<annotation, tags, searches, editor, revised>>

LoadSearch(e, id) ==
    /\ id \in DOMAIN searches /\ searches[id] # None
    /\ editor' = [editor EXCEPT ![e] = [search |-> id, saw |-> searches[id]]]
    /\ UNCHANGED <<row, annotation, tags, searches, latest, revised>>

StoredSearches == {id \in DOMAIN searches : searches[id] # None}

NewSearch(name) ==
    /\ Cardinality(StoredSearches) < MaxSearches
    /\ searches' = Append(searches, [revision |-> 1, name |-> name])
    /\ revised < MaxRevision /\ revised' = revised + 1
    /\ UNCHANGED <<row, annotation, tags, editor, latest>>

\* save_search of one that is stored, delete_saved_search.
EditSearch(e, changed) ==
    /\ editor[e] # None /\ "search" \in DOMAIN editor[e]
    /\ searches[editor[e].search] # None
    /\ searches[editor[e].search].revision = editor[e].saw.revision
    /\ searches' = [searches EXCEPT ![editor[e].search] =
                      IF changed = None THEN None ELSE [revision |-> @.revision + 1, name |-> changed]]
    /\ editor' = [editor EXCEPT ![e] = None]
    /\ revised < MaxRevision /\ revised' = revised + 1
    /\ UNCHANGED <<row, annotation, tags, latest>>

AuthoringNext ==
    \/ \E e \in Editors, t \in Targets : LoadAnnotation(e, t)
    \/ \E e \in Editors, note \in Notes, selected \in SUBSET Labels, outcome \in Outcomes \cup {None} :
          EditAnnotation(e, note, selected, outcome)
    \/ \E e \in Editors, bookmarked \in BOOLEAN : EditBookmark(e, bookmarked)
    \/ \E label \in Labels, replacement \in Labels \cup {None} : ChangeTag(label, replacement)
    \/ \E e \in Editors, id \in 1..MaxRevision : LoadSearch(e, id)
    \/ \E name \in Names : NewSearch(name)
    \/ \E e \in Editors, changed \in Names \cup {None} : EditSearch(e, changed)

OrganizationNext == AuthoringNext \/ \E s \in Sessions : PurgeSession(s) \/ NewFingerprint(s)

-----------------------------------------------------------------------------
\* A save overwrites only what its editor has seen: whatever another window, a
\* tag that was renamed, a purge or a session that came back under the same key
\* changed in between makes it fail.
SavesWhatWasSeen ==
    [][\A e \in Editors : editor[e] # None /\ editor'[e] = None =>
          editor[e].saw = IF "target" \in DOMAIN editor[e] THEN annotation[editor[e].target]
                          ELSE searches[editor[e].search]]_organizationVars
=============================================================================
