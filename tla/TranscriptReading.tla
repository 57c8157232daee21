-------------------------- MODULE TranscriptReading --------------------------
(***************************************************************************)
(* Searching a transcript in pages (transcript.rs, transcript_search.rs,   *)
(* history_search.rs) while its file is appended to, rewritten or          *)
(* replaced, and the watcher reads it again.                               *)
(*                                                                         *)
(* A file is a sequence of units of the size a record may have: "ok" ends  *)
(* a record that can be read, "odd" one whose content is not recognised,   *)
(* "bad" one that is not JSON, and after "more" the record goes on.        *)
(***************************************************************************)
EXTENDS Absent, Integers, Sequences, FiniteSets

CONSTANTS Owners, Wanted,        \* sessions, and the one that is read
          Written,               \* what its file may hold at first
          Units,                 \* what is appended
          MaxScan, MaxRecords,   \* of a page: MAX_SCAN_BYTES in units, records
          MaxUnits, MaxWrites, MaxSnapshots  \* bounds

VARIABLES
    files,       \* by inode: [owner, units, stamp]
    path,        \* the inode the path names
    owns,        \* session_paths: the session the path belongs to
    observation, \* transcript_observations: None or a generation
    parse,       \* the watcher: None or [before, owner]
    snapshot,    \* the retained snapshot: [revision, turns], TRUE where a text is cut
    cursors,     \* what the client may go on from
    reading,     \* the request being answered, or None
    found        \* the last answer, or None

transcriptVars == <<files, path, owns, observation, parse, snapshot, cursors, reading, found>>
fileVars == <<files, path>>
watcherVars == <<owns, observation, parse>>
clientVars == <<cursors, reading, found>>

\* generation: the inode, its length and the time of its last change, which the
\* number of the change stands for.
Generation(i) == [inode |-> i, stamp |-> files[i].stamp]
Stamps == {files[i].stamp : i \in DOMAIN files}
NextStamp == 1 + CHOOSE n \in Stamps : \A k \in Stamps : k <= n

-----------------------------------------------------------------------------
\* Other programs.

AppendUnit ==
    /\ NextStamp <= MaxWrites /\ Len(files[path].units) < MaxUnits
    /\ \E u \in Units : files' = [files EXCEPT ![path].units = Append(@, u), ![path].stamp = NextStamp]
    /\ UNCHANGED <<path, watcherVars, snapshot, clientVars>>

ReplaceFile ==
    /\ NextStamp <= MaxWrites
    /\ \E o \in Owners, u \in Units, i \in {path, Len(files) + 1} :
         LET new == [owner |-> o, units |-> <<u>>, stamp |-> NextStamp]
         IN  /\ files' = IF i = path THEN [files EXCEPT ![i] = new] ELSE Append(files, new)
             /\ path' = i
    /\ UNCHANGED <<watcherVars, snapshot, clientVars>>

-----------------------------------------------------------------------------
\* The watcher: a file is observed if it is the same before and after its parse.

Parse ==
    /\ parse = None /\ parse' = [before |-> Generation(path), owner |-> files[path].owner]
    /\ UNCHANGED <<fileVars, owns, observation, snapshot, clientVars>>

ObservedGeneration == IF Generation(path) = parse.before THEN parse.before ELSE None

Observe ==
    /\ parse # None /\ parse.before # None
    /\ observation' = ObservedGeneration
    /\ parse' = [parse EXCEPT !.before = None]
    /\ UNCHANGED <<fileVars, owns, snapshot, clientVars>>

PublishOwner ==
    /\ parse # None /\ parse.before = None
    /\ owns' = parse.owner /\ parse' = None
    /\ UNCHANGED <<fileVars, observation, snapshot, clientVars>>

Retain ==
    /\ snapshot.revision < MaxSnapshots
    /\ \E cut \in {<<FALSE>>, <<FALSE, FALSE>>, <<FALSE, TRUE>>} :
         snapshot' = [revision |-> snapshot.revision + 1, turns |-> cut]
    /\ UNCHANGED <<fileVars, watcherVars, clientVars>>

-----------------------------------------------------------------------------
\* read_for_session: the file is opened, found as observed, and its records say
\* whose it is.  "seen" is not in the code: the units given with their text.

NewSource == [gen |-> None, offset |-> 0, start |-> 0, partial |-> FALSE, incomplete |-> FALSE, seen |-> {}]

\* A bug: the path is trusted to be the session's own.
TrustsThePath(i) == TRUE
MatchesSourceIdentity(i) == files[i].owner = Wanted

\* A bug: the place is looked up in whatever the file is now.
SkipsToThePlace(cursor) == TRUE
CursorHolds(cursor) == cursor.gen \in {None, reading.gen}

AtBoundary(i, start) == start = 0 \/ (start <= Len(files[i].units) /\ files[i].units[start] # "more")

Open(cursor) ==
    /\ reading = None
    /\ owns = Wanted /\ observation = Generation(path)
    /\ reading' = [at |-> "verify", inode |-> path, gen |-> observation, cursor |-> cursor,
                   offset |-> cursor.offset, start |-> cursor.start, length |-> 0,
                   scanned |-> 0, records |-> 0, large |-> cursor.offset > cursor.start,
                   issues |-> cursor.partial, odd |-> cursor.incomplete, seen |-> cursor.seen]
    /\ found' = None
    /\ UNCHANGED <<fileVars, watcherVars, snapshot, cursors>>

Refuse == reading' = None /\ UNCHANGED <<fileVars, watcherVars, snapshot, cursors, found>>

Verify ==
    /\ reading # None /\ reading.at = "verify"
    /\ MatchesSourceIdentity(reading.inode)
    /\ reading' = [reading EXCEPT !.at = "page"]
    /\ UNCHANGED <<fileVars, watcherVars, snapshot, cursors, found>>

StartPage ==
    /\ reading # None /\ reading.at = "page"
    /\ LET i == reading.inode
       IN  IF /\ Generation(i) = reading.gen /\ CursorHolds(reading.cursor)
              /\ reading.offset <= Len(files[i].units) /\ AtBoundary(i, reading.start)
           THEN reading' = [reading EXCEPT !.at = "units", !.length = Len(files[i].units)]
           ELSE reading' = None
    /\ UNCHANGED <<fileVars, watcherVars, snapshot, cursors, found>>

\* What the unit makes of the record it ends; fits = FALSE where the answer has
\* no room for its text.
WithRecord(r, unit, fits) ==
    LET whole == ~r.large /\ r.offset = r.start
        given == whole /\ unit # "bad" /\ fits
    IN  [r EXCEPT !.offset = @ + 1, !.start = r.offset + 1, !.scanned = @ + 1, !.records = @ + 1,
                  !.large = FALSE, !.issues = @ \/ ~given, !.odd = @ \/ unit = "odd" \/ ~given,
                  !.seen = IF given THEN @ \cup {<<files[r.inode].stamp, r.offset + 1>>} ELSE @]

PageHasRoom(r) == r.scanned < MaxScan /\ r.records < MaxRecords

ReadUnit ==
    /\ reading # None /\ reading.at = "units" /\ PageHasRoom(reading)
    /\ LET r == reading
           units == files[r.inode].units
       IN  IF r.offset >= Len(units)
           THEN reading' = [r EXCEPT !.at = "finish", !.issues = @ \/ r.offset > r.start]
           ELSE IF units[r.offset + 1] = "more"
           THEN reading' = [r EXCEPT !.offset = @ + 1, !.scanned = @ + 1, !.large = TRUE]
           ELSE \/ \E fits \in {TRUE, r.records > 0} : reading' = WithRecord(r, units[r.offset + 1], fits)
                \/ /\ r.records > 0
                   /\ reading' = [r EXCEPT !.at = "finish", !.offset = r.start, !.large = FALSE]
    /\ UNCHANGED <<fileVars, watcherVars, snapshot, cursors, found>>

\* A bug: what happened to the file while it was read is not looked at.
TrustsTheStart(r) == TRUE
StillTheSame(r) == Generation(r.inode) = r.gen

\* A bug: the next page does not know what this one left out.
ForgetsOmissions(r) == FALSE
LeftOut(r) == r.issues \/ r.large

RetainedCursor(next, incomplete, scanned) ==
    [revision |-> snapshot.revision, next |-> next, incomplete |-> incomplete, seen |-> scanned]

\* The end of read_page_inner, and what search_for_session makes of the page.
FinishPage ==
    /\ reading # None /\ (reading.at = "finish" \/ (reading.at = "units" /\ ~PageHasRoom(reading)))
    /\ LET r == reading
           goesOn == r.offset < r.length
           complete == ~goesOn /\ r.offset = r.start /\ ~r.issues
           next == IF goesOn
                   THEN {[gen |-> r.gen, offset |-> r.offset, start |-> r.start, partial |-> LeftOut(r),
                          incomplete |-> r.odd, seen |-> r.seen]}
                   ELSE IF complete /\ ~r.odd THEN {}
                   ELSE {RetainedCursor(1, FALSE, {})}
       IN  IF StillTheSame(r)
           THEN /\ cursors' = cursors \cup next
                /\ found' = [phase |-> "source", page |-> complete, search |-> complete /\ ~r.odd,
                             file |-> files[r.inode], seen |-> r.seen]
           ELSE UNCHANGED <<cursors, found>>
    /\ reading' = None
    /\ UNCHANGED <<fileVars, watcherVars, snapshot>>

-----------------------------------------------------------------------------
\* A bug: the search goes on in whatever is retained now.
GoesOnAnyway(cursor) == TRUE
SameSnapshot(cursor) == cursor.revision = snapshot.revision

\* retained_search_messages and retained_page, a turn at a time.
RetainedPage(cursor) ==
    /\ reading = None /\ SameSnapshot(cursor) /\ cursor.next <= Len(snapshot.turns)
    /\ LET incomplete == cursor.incomplete \/ snapshot.turns[cursor.next]
           scanned == cursor.seen \cup {<<snapshot.revision, cursor.next>>}
           last == cursor.next = Len(snapshot.turns)
       IN  /\ cursors' = IF last THEN cursors
                         ELSE cursors \cup {RetainedCursor(cursor.next + 1, incomplete, scanned)}
           /\ found' = [phase |-> "retained", complete |-> last /\ ~incomplete,
                        snapshot |-> snapshot, seen |-> scanned]
    /\ UNCHANGED <<fileVars, watcherVars, snapshot, reading>>

IsSource(cursor) == "gen" \in DOMAIN cursor

TranscriptInit ==
    /\ \E units \in Written : files = <<[owner |-> Wanted, units |-> units, stamp |-> 0]>>
    /\ path = 1
    /\ owns = Wanted /\ observation = None /\ parse = None
    /\ snapshot = [revision |-> 0, turns |-> <<FALSE, FALSE>>]
    /\ cursors = {} /\ reading = None /\ found = None

TranscriptNext ==
    \/ AppendUnit \/ ReplaceFile
    \/ Parse \/ Observe \/ PublishOwner \/ Retain
    \/ \E cursor \in {NewSource} \cup {c \in cursors : IsSource(c)} : Open(cursor)
    \/ Verify \/ StartPage \/ ReadUnit \/ FinishPage
    \/ reading # None /\ Refuse
    \/ \E cursor \in {c \in cursors : ~IsSource(c)} : RetainedPage(cursor)

-----------------------------------------------------------------------------
All(unit, f) == \A n \in DOMAIN f.units : f.units[n] \in unit

\* A page that says that it and the pages before it gave the whole source gave
\* every record of the one file it ends in, and a search that says it covered
\* everything recognised all of them; a retained search that says so saw every
\* turn of one snapshot uncut.
WhatIsCompleteWasSeen ==
    found # None =>
      CASE found.phase = "source" ->
             /\ found.page => /\ found.file.owner = Wanted /\ All({"ok", "odd"}, found.file)
                              /\ found.seen = {<<found.file.stamp, n>> : n \in DOMAIN found.file.units}
             /\ found.search => found.page /\ All({"ok"}, found.file)
        [] OTHER ->
             found.complete =>
               /\ \A n \in DOMAIN found.snapshot.turns : ~found.snapshot.turns[n]
               /\ found.seen = {<<found.snapshot.revision, n>> : n \in DOMAIN found.snapshot.turns}
=============================================================================
