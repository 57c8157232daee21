-------------------------- MODULE WorkflowFindings --------------------------
(***************************************************************************)
(* Workflow findings (workflow.rs, workflow_lifecycle.rs, history_workflow *)
(* .rs): two windows of the same length are compared per rule, and what a  *)
(* user records of it is kept over measurements, analyzers and             *)
(* suppressions.                                                           *)
(*                                                                         *)
(* All is one provider's project.  Of a session the report uses, per       *)
(* window, the calls and tokens in the ledger, the calls in its snapshot   *)
(* and the rules that find something in them; and if the snapshot can be   *)
(* read and holds all its calls.                                           *)
(***************************************************************************)
EXTENDS Absent, Integers, FiniteSets, FiniteSetsExt

CONSTANTS Rules, Views,         \* Views: windows the users look at
          Selections,           \* [sessions, covered, confounded]: what may be reported on
          MinimumSessions,      \* MINIMUM_COMPARISON_SESSIONS
          MaxRows,              \* 1000
          MaxAnalyzer, MaxTime, MaxRevisions  \* bounds

VARIABLES
    findingRows,   \* workflow_finding_lifecycle: per rule None or a row
    reports,       \* per view: None or the report it holds
    analyzer,      \* ANALYZER_VERSION of the app that runs
    time

workflowVars == <<findingRows, reports, analyzer, time>>

Windows == {"before", "after"}

FindingStates == {"new", "persistent", "improving", "resolved", "suppressed", "not_applicable"}
FindingRows ==
    [first : Nat, last : Nat, analyzer : Nat, suppressed : BOOLEAN, revision : Nat, state : FindingStates,
     grounds : [seen : BOOLEAN, found : SUBSET Windows], changed : BOOLEAN]
ASSUME FindingsAssumption ==
    None \notin FindingRows /\ \A sel \in Selections : IsFiniteSet(sel.sessions)
Uses(s, w) == s[w].calls > 0 \/ s[w].tokens > 0
Contributes(s) == \E w \in Windows : Uses(s, w)

\* A bug: a snapshot that cannot be read is passed over.
CompleteAnyway(s) == s.readable => s.whole
\* What makes a scope incomplete: a snapshot that contributes and cannot be
\* read, or holds other calls than the ledger.
Complete(s) ==
    /\ Contributes(s) => s.readable /\ s.whole
    /\ s.readable => \A w \in Windows : s[w].calls = s[w].observed

Observation(sessions, covered, rule, w) ==
    [sessions |-> Cardinality({s \in sessions : Uses(s, w)}),
     calls |-> MapThenSumSet(LAMBDA s : s[w].calls, sessions),
     found |-> Cardinality({s \in sessions : s.readable /\ rule \in s[w].rules}),
     complete |-> \A s \in sessions : Complete(s),
     covered |-> covered /\ \A s \in sessions : Complete(s)]

\* compare_finding; a session is found at most once here, so that the calls
\* likely avoidable are its findings.
Comparable(before, after, confounded) ==
    /\ before.covered /\ after.covered /\ before.complete
    /\ before.sessions >= MinimumSessions /\ after.sessions >= MinimumSessions
    /\ before.calls > 0 /\ after.calls > 0
    /\ ~confounded
CompareFinding(before, after, confounded) ==
    IF ~Comparable(before, after, confounded) THEN "not_applicable"
    ELSE IF before.found = 0 /\ after.found > 0 THEN "new"
    ELSE IF before.found > 0 /\ after.found = 0 THEN "resolved"
    ELSE IF after.found = 0 THEN "not_applicable"
    ELSE IF after.found * before.calls < before.found * after.calls THEN "improving"
    ELSE "persistent"

-----------------------------------------------------------------------------
\* report and load_workflow_lifecycle, in one read transaction.  The grounds are
\* a ghost: if all was seen and nothing else changed, and in which windows the
\* rule found something.
Grounds(sessions, covered, confounded, rule) ==
    [seen |-> /\ covered /\ ~confounded
              /\ \A s \in sessions : Contributes(s) => s.readable /\ \A w \in Windows : s[w].calls = s[w].observed
              /\ \A w \in Windows : Cardinality({s \in sessions : Uses(s, w)}) >= MinimumSessions,
     found |-> {w \in Windows : \E s \in sessions : s.readable /\ rule \in s[w].rules}]

Finding(sessions, covered, confounded, rule) ==
    LET row == findingRows[rule]
    IN  [state |-> IF row # None /\ row.suppressed THEN "suppressed"
                   ELSE IF row # None /\ row.analyzer # analyzer THEN "not_applicable"
                   ELSE CompareFinding(Observation(sessions, covered, rule, "before"),
                                       Observation(sessions, covered, rule, "after"), confounded),
         revision |-> IF row = None THEN 0 ELSE row.revision,
         grounds |-> Grounds(sessions, covered, confounded, rule)]

\* Only a rule that found something has a finding.
WorkflowReport(v, sel) ==
    /\ reports' = [reports EXCEPT ![v] =
          [at |-> time, analyzer |-> analyzer,
           findings |-> [r \in {q \in Rules : \E s \in sel.sessions, w \in Windows : s.readable /\ q \in s[w].rules}
                           |-> Finding(sel.sessions, sel.covered, sel.confounded, r)]]]
    /\ UNCHANGED <<findingRows, analyzer, time>>

\* A bug: the row says what the report said when it was read.
AsReported(row, finding) == finding.state = "suppressed"
KeepsSuppression(row, finding) == row # None /\ row.suppressed

\* observe
Observed(row, report, finding) ==
    LET changed == row # None /\ row.analyzer # report.analyzer
        suppressed == KeepsSuppression(row, finding)
    IN  [first |-> IF row = None THEN report.at ELSE row.first, last |-> report.at,
         analyzer |-> report.analyzer, suppressed |-> suppressed,
         revision |-> IF row = None THEN 1 ELSE row.revision + 1,
         state |-> IF suppressed THEN "suppressed" ELSE IF changed THEN "not_applicable" ELSE finding.state,
         grounds |-> finding.grounds, changed |-> changed]

\* A bug: what was measured earlier is recorded over what was measured later.
TakesAny(report) == TRUE
NoneNewer(report) ==
    \A r \in DOMAIN report.findings : findingRows[r] # None => findingRows[r].last <= report.at

\* invalidate_older_analyzers
Invalidated(row, by) ==
    IF row # None /\ row.analyzer # by /\ row.state \notin {"suppressed", "not_applicable"}
    THEN [row EXCEPT !.state = IF row.suppressed THEN "suppressed" ELSE "not_applicable", !.revision = @ + 1]
    ELSE row

\* record_workflow_measurement: all of it or nothing.
RecordMeasurement(v) ==
    /\ reports[v] # None
    /\ LET report == reports[v]
           rows == [r \in Rules |-> Invalidated(findingRows[r], report.analyzer)]
           new == {r \in DOMAIN report.findings : findingRows[r] = None}
       IN  /\ NoneNewer(report)
           /\ Cardinality({r \in Rules : findingRows[r] # None}) + Cardinality(new) <= MaxRows
           /\ \A r \in Rules : findingRows[r] # None => findingRows[r].revision < MaxRevisions
           /\ findingRows' = [r \in Rules |->
                 IF r \in DOMAIN report.findings THEN Observed(rows[r], report, report.findings[r]) ELSE rows[r]]
    /\ reports' = [reports EXCEPT ![v] = None]
    /\ UNCHANGED <<analyzer, time>>

\* suppress: against the revision that the view shows.
Suppress(v, rule, suppressed) ==
    /\ reports[v] # None /\ rule \in DOMAIN reports[v].findings
    /\ findingRows[rule] # None /\ findingRows[rule].revision = reports[v].findings[rule].revision
    /\ findingRows[rule].revision < MaxRevisions
    /\ findingRows' = [findingRows EXCEPT ![rule].suppressed = suppressed, ![rule].revision = @ + 1,
                          ![rule].state = IF suppressed THEN "suppressed" ELSE "not_applicable"]
    /\ UNCHANGED <<reports, analyzer, time>>

\* The app is started again, perhaps another version of it.
Upgrade ==
    /\ analyzer' \in {analyzer, analyzer + 1} \cap 1..MaxAnalyzer
    /\ reports' = [v \in Views |-> None]
    /\ UNCHANGED <<findingRows, time>>

TimePasses == time < MaxTime /\ time' = time + 1 /\ UNCHANGED <<findingRows, reports, analyzer>>

WorkflowInit ==
    /\ findingRows = [r \in Rules |-> None] /\ reports = [v \in Views |-> None]
    /\ analyzer = 1 /\ time = 0

WorkflowNext ==
    \/ \E v \in Views :
          \/ \E sel \in Selections : WorkflowReport(v, sel)
          \/ RecordMeasurement(v)
          \/ \E r \in Rules, b \in BOOLEAN : Suppress(v, r, b)
    \/ Upgrade \/ TimePasses

-----------------------------------------------------------------------------
\* What is recorded of a rule was earned: it speaks of a change only when both
\* windows were covered, every session in use was analyzed in full, nothing else
\* changed meanwhile, and the same analyzer had measured before; what the user
\* suppressed says nothing; and a later measurement is never undone by an
\* earlier one.
FindingsAreEarned ==
    \A r \in Rules : findingRows[r] # None =>
        LET row == findingRows[r] IN
        /\ row.first <= row.last /\ row.last <= time
        /\ row.suppressed => row.state = "suppressed"
        /\ row.state \in {"new", "persistent", "improving", "resolved"} =>
              /\ row.grounds.seen /\ ~row.changed
              /\ row.grounds.found = CASE row.state = "new" -> {"after"}
                                       [] row.state = "resolved" -> {"before"}
                                       [] OTHER -> Windows

\* A row is only moved on: by a measurement that is not older, or by a user who
\* saw the row as it is; and only the user ends a suppression.
FindingsMoveOn ==
    \A r \in Rules : findingRows'[r] # findingRows[r] /\ findingRows[r] # None =>
        LET old == findingRows[r]  new == findingRows'[r] IN
        /\ new.first = old.first /\ new.last >= old.last /\ new.revision > old.revision
        /\ new.suppressed # old.suppressed => new.last = old.last /\ new.analyzer = old.analyzer
                                                /\ \E v \in Views : reports[v] # None
=============================================================================
