---------------------------- MODULE CuratedCases ----------------------------
(***************************************************************************)
(* The curated dataset and the offline comparisons made from it            *)
(* (history_curated.rs, history_experiments.rs).                           *)
(*                                                                         *)
(* A case is taken from a rated session: a preview is built and reviewed,  *)
(* and its token commits exactly what was reviewed.  A comparison freezes  *)
(* the dataset's cases, and results are imported into it.  Purging a       *)
(* session takes its cases with it, and with them the frozen inputs.       *)
(* A request that touches the database more than once, or reads the        *)
(* transcript or waits for the file dialog in between, is a job of several *)
(* steps; every other one is a transaction.                                *)
(***************************************************************************)
EXTENDS Organization, SequencesExt

CONSTANTS Clients, Rated,              \* the outcomes that can become examples
          Variants, Statuses,          \* of an imported run
          MaxCases, MaxExperiments, MaxPending, JournalLimit,
          MaxChanges, MaxExperimentRevision, MaxExperimentIds, MaxText  \* bounds

VARIABLES
    text,             \* the transcript of each session, None when it cannot be read
    cases,            \* curated_cases by id; an id is never used again
    datasetRevision,  \* history_meta 'dataset_revision'
    changes,          \* curated_changes, each with its revision
    previews,         \* curated_previews
    experiments,      \* offline_experiments with their offline_cases, by id
    drafts,           \* experiment_previews
    job,              \* what each client's request has read so far
    published         \* the last exported file, with what its client had reviewed

curatedVars == <<text, cases, datasetRevision, changes, previews, experiments, drafts, job, published>>
databaseVars == <<cases, datasetRevision, changes, experiments>>

\* What a row of curated_cases holds.
Contents == [outcome : Outcomes \cup {None}, text : Nat]
Cases == [session : Sessions, fingerprint : Nat, version : Nat, content : Contents]

\* Every report counts missing runs.
ASSUME CuratedAssumption ==
    /\ JournalLimit \in Nat /\ MaxPending \in Nat \ {0} /\ MaxText \in Nat
    /\ "missing" \in Statuses /\ None \notin Cases

CuratedInit ==
    /\ text = [s \in Sessions |-> 1]
    /\ cases = << >> /\ datasetRevision = 0 /\ changes = {}
    /\ previews = << >> /\ experiments = << >> /\ drafts = << >>
    /\ job = [c \in Clients |-> None] /\ published = None

Stored(table) == {id \in DOMAIN table : table[id] # None}
Rating(s) == annotation[Target(s, SessionAnchor)]

\* What the digest covers; the fingerprint of a session may become final later.
Dataset ==
    [revision |-> datasetRevision, changes |-> changes,
     cases |-> [id \in Stored(cases) |-> [version |-> cases[id].version, content |-> cases[id].content]]]

-----------------------------------------------------------------------------
(* The triggers on curated_cases and offline_cases.                        *)

Change(revision, id, change, content) ==
    [revision |-> revision, case |-> id, change |-> change, content |-> content]

\* A bug: the journal does not see what a cascade deletes.
JournalMissesCascades(journal, made, last) ==
    {ch \in journal \cup {m \in made : m.change # "removed"} : ch.revision > last - JournalLimit}

\* Each change takes the next revision, up to `last', and old ones leave the journal.
Journal(journal, made, last) == {ch \in journal \cup made : ch.revision > last - JournalLimit}

Changes(made, last) ==
    /\ last <= MaxChanges
    /\ datasetRevision' = last
    /\ changes' = Journal(changes, made, last)

\* A bug: a comparison keeps its revision when a frozen case is taken from it.
WithoutCasesSilently(e, ids) ==
    IF e = None THEN None
    ELSE [e EXCEPT !.frozen = [id \in DOMAIN @ \ ids |-> @[id]]]

\* The frozen inputs of deleted cases go too, one revision for each.
WithoutCases(e, ids) ==
    IF e = None THEN None
    ELSE [e EXCEPT !.frozen = [id \in DOMAIN @ \ ids |-> @[id]],
                   !.revision = @ + Cardinality(DOMAIN e.frozen \cap ids)]

\* The triggers run row by row, in an order that is the database's.
DeleteCases(ids) ==
    \E nth \in [ids -> 1..Cardinality(ids)] :
        /\ \A a, b \in ids : nth[a] = nth[b] => a = b
        /\ cases' = [id \in DOMAIN cases |-> IF id \in ids THEN None ELSE cases[id]]
        /\ experiments' = [e \in DOMAIN experiments |-> WithoutCases(experiments[e], ids)]
        /\ Changes({Change(datasetRevision + nth[id], id, "removed", cases[id].content) : id \in ids},
                   datasetRevision + Cardinality(ids))

-----------------------------------------------------------------------------
(* Sessions and their transcripts.  `saw' in a preview is a ghost.         *)

CasesOf(s) == {id \in Stored(cases) : cases[id].session = s}

PurgeWithCases(s) ==
    /\ PurgeSession(s)
    /\ DeleteCases(CasesOf(s))
    /\ UNCHANGED <<text, previews, drafts, job, published>>

\* ON UPDATE CASCADE: the cases follow the session's final fingerprint.
FinalizeWithCases(s) ==
    /\ NewFingerprint(s)
    /\ cases' = [id \in DOMAIN cases |->
                   IF id \in CasesOf(s) THEN [cases[id] EXCEPT !.fingerprint = row'[s]] ELSE cases[id]]
    /\ UNCHANGED <<text, datasetRevision, changes, previews, experiments, drafts, job, published>>

Rewrite(s) ==
    /\ text[s] # None => text[s] < MaxText
    /\ text' = [text EXCEPT ![s] = IF @ = None THEN MaxText ELSE @ + 1]
    /\ UNCHANGED <<organizationVars, databaseVars, previews, drafts, job, published>>
Unreadable(s) ==
    /\ text' = [text EXCEPT ![s] = None]
    /\ UNCHANGED <<organizationVars, databaseVars, previews, drafts, job, published>>

-----------------------------------------------------------------------------
(* Previews: a bounded list, oldest first; a token is taken once.          *)

Remembered(list, p) == Append(IF Len(list) >= MaxPending THEN Tail(list) ELSE list, p)

Taken(list, i) == RemoveAt(list, i)

Expire ==
    /\ \/ previews # << >> /\ previews' = Tail(previews) /\ UNCHANGED drafts
       \/ drafts # << >> /\ drafts' = Tail(drafts) /\ UNCHANGED previews
    /\ UNCHANGED <<organizationVars, databaseVars, text, job, published>>

GoesOn(c, now, next) ==
    /\ job[c] # None /\ job[c].at = now
    /\ job' = [job EXCEPT ![c] = next]
Starts(c, next) == job[c] = None /\ job' = [job EXCEPT ![c] = next]

\* Any request may fail at any of its steps.
Fail(c) ==
    /\ job[c] # None /\ job' = [job EXCEPT ![c] = None]
    /\ UNCHANGED <<organizationVars, databaseVars, text, previews, drafts, published>>

-----------------------------------------------------------------------------
(* Curated cases.                                                          *)

ValidRating(p) ==
    /\ row[p.session] = p.fingerprint
    /\ Rating(p.session).revision = p.outcomeRevision
    /\ Rating(p.session).outcome \in Rated

ValidOwner(p) ==
    p.case # None => /\ p.case \in Stored(cases)
                     /\ cases[p.case].session = p.session /\ cases[p.case].fingerprint = p.fingerprint

\* prepare_curated checks the request in one read transaction...
PrepareCurated(c, s, case) ==
    LET p == [session |-> s, fingerprint |-> row[s], outcomeRevision |-> Rating(s).revision,
              datasetRevision |-> datasetRevision, case |-> case, saw |-> Dataset]
    IN  /\ row[s] # None /\ ValidRating(p) /\ ValidOwner(p)
        /\ Starts(c, [at |-> "prepare", p |-> p, outcome |-> Rating(s).outcome])
        /\ UNCHANGED <<organizationVars, databaseVars, text, previews, drafts, published>>

\* ... and then reads the records it is made of.
ReadRecords(c) ==
    /\ GoesOn(c, "prepare", None)
    /\ text[job[c].p.session] # None
    /\ previews' = Remembered(previews, [p |-> job[c].p,
                     content |-> [outcome |-> job[c].outcome, text |-> text[job[c].p.session]]])
    /\ UNCHANGED <<organizationVars, databaseVars, text, drafts, published>>

\* commit_curated takes the token and verifies the records are still there...
TakePreview(c, i) ==
    /\ i \in DOMAIN previews
    /\ text[previews[i].p.session] = previews[i].content.text
    /\ Starts(c, [at |-> "commit", p |-> previews[i].p, content |-> previews[i].content])
    /\ previews' = Taken(previews, i)
    /\ UNCHANGED <<organizationVars, databaseVars, text, drafts, published>>

\* A bug: the preview is not compared with the dataset as it is by now.
CommitsBlindly(j) == ValidRating(j.p)
MayCommit(j) ==
    /\ datasetRevision = j.p.datasetRevision
    /\ ValidRating(j.p) /\ Rating(j.p.session).outcome = j.content.outcome
    /\ ValidOwner(j.p)
    /\ j.p.case = None => Cardinality(Stored(cases)) < MaxCases

\* ... and writes the case in an immediate transaction.
CommitCurated(c) ==
    /\ GoesOn(c, "commit", None)
    /\ MayCommit(job[c])
    /\ LET j == job[c]
           case == [session |-> j.p.session, fingerprint |-> j.p.fingerprint,
                    version |-> j.p.datasetRevision + 1, content |-> j.content]
       IN  IF j.p.case = None
           THEN /\ cases' = Append(cases, case)
                /\ Changes({Change(case.version, Len(cases) + 1, "added", j.content)}, case.version)
           ELSE /\ cases' = [cases EXCEPT ![j.p.case] = case]
                /\ Changes({Change(case.version, j.p.case, "edited", j.content)}, case.version)
    /\ UNCHANGED <<organizationVars, text, previews, experiments, drafts, published>>

\* remove_curated, at the revision the client saw.
RemoveCurated(id) ==
    /\ id \in Stored(cases)
    /\ DeleteCases({id})
    /\ UNCHANGED <<organizationVars, text, previews, drafts, job, published>>

-----------------------------------------------------------------------------
(* Offline comparisons.                                                    *)

\* preview_experiment: the dataset as it is, with every case of it.
PreviewExperiment ==
    /\ Stored(cases) # {}
    /\ drafts' = Remembered(drafts, [kind |-> "freeze", revision |-> datasetRevision,
                    members |-> [id \in Stored(cases) |-> [version |-> cases[id].version,
                                                           content |-> cases[id].content]]])
    /\ UNCHANGED <<organizationVars, databaseVars, text, previews, job, published>>

CommitExperiment(i) ==
    /\ i \in DOMAIN drafts /\ drafts[i].kind = "freeze"
    /\ drafts' = Taken(drafts, i)
    /\ datasetRevision = drafts[i].revision
    /\ Cardinality(Stored(experiments)) < MaxExperiments /\ Len(experiments) < MaxExperimentIds
    /\ \A id \in DOMAIN drafts[i].members :
          /\ id \in Stored(cases)
          /\ drafts[i].members[id] = [version |-> cases[id].version, content |-> cases[id].content]
    /\ experiments' = Append(experiments,
          [revision |-> 1, members |-> drafts[i].members,
           frozen |-> [id \in DOMAIN drafts[i].members |->
                         [input |-> drafts[i].members[id].content, result |-> [v \in Variants |-> None]]]])
    /\ UNCHANGED <<organizationVars, text, cases, datasetRevision, changes, previews, job, published>>

\* preview_experiment_import; a case that was purged takes no result.
PreviewImport(e, ids, variant, status) ==
    /\ e \in Stored(experiments)
    /\ ids # {} /\ ids \subseteq DOMAIN experiments[e].frozen
    /\ drafts' = Remembered(drafts, [kind |-> "import", experiment |-> e, revision |-> experiments[e].revision,
                                     saw |-> experiments[e].frozen,
                                     ids |-> ids, variant |-> variant, status |-> status])
    /\ UNCHANGED <<organizationVars, databaseVars, text, previews, job, published>>

\* A bug: the import only asks whether the comparison is still there.
ImportsBlindly(d) == d.experiment \in Stored(experiments)
MayImport(d) ==
    /\ d.experiment \in Stored(experiments)
    /\ experiments[d.experiment].revision = d.revision
    /\ d.ids \subseteq DOMAIN experiments[d.experiment].frozen

CommitImport(i) ==
    /\ i \in DOMAIN drafts /\ drafts[i].kind = "import"
    /\ drafts' = Taken(drafts, i)
    /\ MayImport(drafts[i])
    /\ LET d == drafts[i]
           old == experiments[d.experiment]
           result(id) == [input |-> old.frozen[id].input,
                          result |-> [old.frozen[id].result EXCEPT ![d.variant] = d.status]]
       IN  /\ old.revision < MaxExperimentRevision
           /\ experiments' = [experiments EXCEPT ![d.experiment] =
                [old EXCEPT !.revision = @ + 1,
                            !.frozen = [id \in DOMAIN @ |-> IF id \in d.ids THEN result(id) ELSE @[id]]]]
    /\ UNCHANGED <<organizationVars, text, cases, datasetRevision, changes, previews, job, published>>

RemoveExperiment(e) ==
    /\ e \in Stored(experiments)
    /\ experiments' = [experiments EXCEPT ![e] = None]
    /\ UNCHANGED <<organizationVars, text, cases, datasetRevision, changes, previews, drafts, job, published>>

\* experiment_report: a case that is gone, or has no run, is missing.
Count(e, variant, statuses) ==
    Cardinality({id \in DOMAIN e.members :
        (IF id \in DOMAIN e.frozen /\ e.frozen[id].result[variant] # None
         THEN e.frozen[id].result[variant] ELSE "missing") \in statuses})

ReportOf(e, revision) ==
    [revision |-> e.revision, dataset |-> revision, frozen |-> e.frozen,
     removed |-> Cardinality(DOMAIN e.members \ DOMAIN e.frozen),
     summary |-> [v \in Variants |-> [s \in Statuses |-> Count(e, v, {s})]]]

Report(id) == ReportOf(experiments[id], datasetRevision)

-----------------------------------------------------------------------------
(* Exports.                                                                *)

\* An experiment's id, or this for the dataset itself.
TheDataset == 0

Shown(what) == IF what = TheDataset THEN Dataset ELSE Report(what)
Exists(what) == what = TheDataset \/ what \in Stored(experiments)

\* The user reviews what is shown, and picks a file for as long as it takes.
Review(c, what) ==
    /\ Exists(what)
    /\ Starts(c, [at |-> "picker", what |-> what, reviewed |-> Shown(what)])
    /\ UNCHANGED <<organizationVars, databaseVars, text, previews, drafts, published>>

\* It is read again and compared by digest...
Reread(c) ==
    /\ GoesOn(c, "picker", [job[c] EXCEPT !.at = "publish"])
    /\ Exists(job[c].what) /\ Shown(job[c].what) = job[c].reviewed
    /\ UNCHANGED <<organizationVars, databaseVars, text, previews, drafts, published>>

\* A bug: the file is written from what was read, whatever happened since.
PublishesWhatItRead(j) == TRUE
\* ... and written under the write lock, if the revisions still are the same.
StillCurrent(j) ==
    IF j.what = TheDataset THEN datasetRevision = j.reviewed.revision
    ELSE /\ j.what \in Stored(experiments)
         /\ experiments[j.what].revision = j.reviewed.revision
         /\ datasetRevision = j.reviewed.dataset

Publish(c) ==
    /\ GoesOn(c, "publish", None)
    /\ StillCurrent(job[c])
    /\ published' = job[c].reviewed
    /\ UNCHANGED <<organizationVars, databaseVars, text, previews, drafts>>

CuratedNext ==
    \/ \E s \in Sessions : PurgeWithCases(s) \/ FinalizeWithCases(s) \/ Rewrite(s) \/ Unreadable(s)
    \/ Expire
    \/ \E c \in Clients, s \in Sessions, case \in {None} \cup Stored(cases) : PrepareCurated(c, s, case)
    \/ \E c \in Clients : ReadRecords(c) \/ CommitCurated(c) \/ Reread(c) \/ Publish(c) \/ Fail(c)
    \/ \E c \in Clients, i \in 1..MaxPending : TakePreview(c, i)
    \/ \E id \in Stored(cases) : RemoveCurated(id)
    \/ PreviewExperiment
    \/ \E i \in 1..MaxPending : CommitExperiment(i) \/ CommitImport(i)
    \/ \E e \in Stored(experiments), variant \in Variants, status \in Statuses :
          \E ids \in SUBSET DOMAIN experiments[e].frozen : PreviewImport(e, ids, variant, status)
    \/ \E e \in Stored(experiments) : RemoveExperiment(e)
    \/ \E c \in Clients, what \in {TheDataset} \cup Stored(experiments) : Review(c, what)

-----------------------------------------------------------------------------
\* The journal tells how the dataset came to be what it is: the last change of
\* a case names its version and content, or says that it is gone; no revision
\* is skipped, also when a purge takes several cases at once.
JournalExplainsCases ==
    /\ \A n \in 1..datasetRevision : n > datasetRevision - JournalLimit =>
          Cardinality({ch \in changes : ch.revision = n}) = 1
    /\ \A ch \in changes :
          /\ ch.revision \in 1..datasetRevision
          /\ (\A other \in changes : other.case = ch.case => other.revision <= ch.revision) =>
                IF cases[ch.case] = None THEN ch.change = "removed"
                ELSE /\ ch.change # "removed" /\ ch.content = cases[ch.case].content
                     /\ ch.revision = cases[ch.case].version

\* Nothing is kept of a session that is gone, and every run that was imported
\* belongs to an input that is still stored, the one that was frozen.
DerivedFollowsSource ==
    /\ \A id \in Stored(cases) : row[cases[id].session] = cases[id].fingerprint
    /\ \A e \in Stored(experiments) :
          /\ DOMAIN experiments[e].frozen \subseteq Stored(cases)
          /\ \A id \in DOMAIN experiments[e].frozen :
                experiments[e].frozen[id].input = experiments[e].members[id].content

\* A report accounts for each frozen case once, also when it has been purged.
ReportsAddUp ==
    \A e \in Stored(experiments), v \in Variants :
        /\ Count(experiments[e], v, Statuses) = Cardinality(DOMAIN experiments[e].members)
        /\ Count(experiments[e], v, {"missing"}) >= Report(e).removed

DerivedWorkIsSound == JournalExplainsCases /\ DerivedFollowsSource /\ ReportsAddUp

\* What is stored of a session's work is what the user reviewed, in the world
\* he reviewed it in: no other change of the dataset, the rating or the
\* comparison lies between a preview and its commit, and a file is written only
\* while the dataset and the comparison are the ones its client was shown.
OnlyReviewedWorkIsKept ==
    [][/\ published' # published => \E c \in Clients : job[c] # None /\ job[c].at = "publish"
                                       /\ Exists(job[c].what) /\ published' = Shown(job[c].what)
       /\ \A c \in Clients : job[c] # None /\ job[c].at = "commit" /\ cases' # cases /\ job'[c] = None =>
             job[c].p.saw = Dataset /\ Rating(job[c].p.session).outcome = job[c].content.outcome
       /\ \A e \in Stored(experiments) \cap Stored(experiments') :
             (\E id \in DOMAIN experiments[e].frozen \cap DOMAIN experiments'[e].frozen :
                 experiments[e].frozen[id] # experiments'[e].frozen[id])
             => \E i \in DOMAIN drafts : drafts[i].kind = "import" /\ drafts[i].saw = experiments[e].frozen
      ]_curatedVars
=============================================================================
