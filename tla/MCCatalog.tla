------------------------------ MODULE MCCatalog ------------------------------
(***************************************************************************)
(* Small instances of what is kept about durable sessions.  Each behaviour *)
(* has one subject; the state of the other ones stands still.              *)
(***************************************************************************)
EXTENDS CuratedCases, Lineage, ProjectGroups

VARIABLE subject

catalogVars == <<organizationVars, curatedVars, lineageVars, projectVars, subject>>

Subjects == {"organization", "curated", "compared", "lineage", "projects"}

MCHistories == {<< >>, <<1>>, <<1, 2>>, <<1, 3>>}
MCManual == [s \in Members |-> "m"]

OneOf(S) == CHOOSE x \in S : TRUE

\* Two cases, as two commits leave them.
Example(v) ==
    [session |-> OneOf(Sessions), fingerprint |-> 0, version |-> v,
     content |-> [outcome |-> "accepted", text |-> 1]]
ASSUME ExamplesAssumption == JournalLimit >= 2 /\ "accepted" \in Outcomes /\ Sessions # {}

TwoCases ==
    /\ text = [s \in Sessions |-> 1]
    /\ cases = <<Example(1), Example(2)>> /\ datasetRevision = 2
    /\ changes = {Change(v, v, "added", Example(v).content) : v \in 1..2}
    /\ previews = << >> /\ experiments = << >> /\ drafts = << >>
    /\ job = [c \in Clients |-> None] /\ published = None

MCInit ==
    /\ subject \in Subjects
    /\ OrganizationInit
    /\ IF subject = "compared" THEN TwoCases ELSE CuratedInit
    /\ LineageInit
    /\ ProjectInit
    /\ \A d \in Directories : disk[d].repository = None
    /\ subject # "projects" => \A s \in Members : directory[s] = None

\* Bounds: what each subject leaves alone.
OnlySessionOutcomes ==
    /\ revised' <= 2 /\ tags' = {} /\ searches' = << >>
    /\ \A t \in Targets : t.anchor # SessionAnchor => annotation'[t].revision = 0
    /\ \A e \in Editors : editor'[e] # None => e = OneOf(Editors) /\ editor'[e].target.anchor = SessionAnchor
NoComparisons == drafts' = << >> /\ datasetRevision' <= 3
NoNewCases ==
    /\ latest' = latest /\ text' = text /\ previews' = << >> /\ Len(drafts') <= 1
    /\ \A c \in Clients : job'[c] # None => job'[c].at \notin {"prepare", "commit"}
    /\ \A i \in DOMAIN drafts' : drafts'[i].kind = "import" => drafts'[i].status = "completed"

MCNext ==
    /\ \/ /\ subject = "organization" /\ OrganizationNext
          /\ UNCHANGED <<curatedVars, lineageVars, projectVars>>
       \/ /\ subject = "curated" /\ AuthoringNext /\ OnlySessionOutcomes
          /\ UNCHANGED <<curatedVars, lineageVars, projectVars>>
       \/ /\ subject \in {"curated", "compared"}
          /\ published = None /\ CuratedNext
          /\ IF subject = "curated" THEN NoComparisons ELSE NoNewCases
          /\ UNCHANGED <<lineageVars, projectVars>>
       \/ /\ subject = "lineage" /\ LineageNext
          /\ \A p \in Paths : observed[p] # None /\ observed'[p] = None => p = OneOf(Paths)
          /\ UNCHANGED <<organizationVars, curatedVars, projectVars>>
       \/ /\ subject = "projects" /\ ProjectNext
          /\ \A d \in Directories : disk'[d].repository \in {None, OneOf(ProjectKeys \ Directories)}
          /\ UNCHANGED <<organizationVars, curatedVars, lineageVars>>
    /\ UNCHANGED subject

MCSpec == MCInit /\ [][MCNext]_catalogVars

-----------------------------------------------------------------------------
\* What is kept about the sessions accounts for them: each in one project, each
\* with the history it is, with the cases and comparisons made of it.
CatalogIsSound ==
    CASE subject = "lineage" -> LineageIsSound
      [] subject = "projects" -> ProjectsPartition
      [] OTHER -> DerivedWorkIsSound

\* What an editor, a campaign or a comparison commits was seen and reviewed by
\* its owner as it still is (save_session_organization, case_build, export).
CatalogStepsAreSound == SavesWhatWasSeen /\ OnlyReviewedWorkIsKept
=============================================================================
