------------------------------ MODULE MCReadings ----------------------------
(***************************************************************************)
(* What is read of transcripts and quotas, and what is told of it.  The    *)
(* subjects share no state and are explored in one run: `subject' is fixed *)
(* by the initial state, so their state spaces are added, not multiplied;  *)
(* some subjects are one component with a part of its environment held     *)
(* still.                                                                  *)
(***************************************************************************)
EXTENDS TranscriptIngest, ScanCache, QuotaIndex, AlertPolicy, Attention, ProviderStatus, AppServer

VARIABLES subject, readings, minute

windowsVars == <<readings, minute>>

Subjects == {"watcher", "rows", "windows", "index", "cache", "budgets", "live", "ambient", "restarts",
             "attention", "rollback", "status", "server"}

MCInit ==
    /\ subject \in Subjects
    /\ readings = << >> /\ minute = 0
    /\ IngestInit /\ CacheInit /\ (subject # "watcher" => format = CHOOSE f \in Formats : TRUE)
    /\ IndexInit /\ AlertsInit /\ AttentionInit /\ StatusInit /\ ServerInit
    /\ subject # "cache" => settings = 1
    /\ \A r \in Rules : disk.settings.rules[r] = (IF subject = "restarts" THEN 0 ELSE 1)

-----------------------------------------------------------------------------
\* A window of ten minutes and one of seventy, read every other minute.
Reading(used, ts, minutes) == [used |-> used, minutes |-> minutes, reset |-> (ts \div minutes + 1) * minutes]

ReadWindow(used) ==
    /\ Len(readings) < 5 /\ (readings # << >> => Last(readings).ts < minute)
    /\ readings' = Append(readings, [ts |-> minute, primary |-> Reading(used, minute, 10),
                                     secondary |-> Reading(used \div 10, minute, 70)])
    /\ UNCHANGED minute
Pass == minute < 14 /\ minute' = minute + 2 /\ UNCHANGED readings

Balance(used, at) == [unlimited |-> used = 100, balance |-> used, at |-> at]
Account == IF readings = << >> THEN [unlimited |-> FALSE, balance |-> None, at |-> None]
           ELSE Balance(Last(readings).primary.used, Last(readings).ts)

SnapshotAt(points, at) == BuildQuotaSnapshot(TRUE, points, Account, at, 5)
LiveAt(o, at) ==
    LiveBucketSnapshot([primary |-> o.primary, secondary |-> None, credits |-> Account], o.ts, at)

-----------------------------------------------------------------------------
Point(ts) == [since |-> ts, ts |-> ts, count |-> 1, primary |-> Reading(ts, ts, 10), secondary |-> None]
Content(times, hasAccount) ==
    [points |-> [i \in DOMAIN times |-> Point(times[i])], last |-> Last(times),
     account |-> IF hasAccount THEN Balance(Last(times), Last(times)) ELSE None]

MCContents ==
    [s \in Sessions |-> IF s = "a" THEN {Content(<<1, 3>>, TRUE), Content(<<1, 3, 7>>, FALSE)}
                                   ELSE {Content(<<3>>, TRUE), Content(<<3, 6>>, FALSE)}]
MCKeyOrder == [s \in Sessions |-> IF s = "a" THEN 1 ELSE 2]
MCQuiet == <<3, 1>>

-----------------------------------------------------------------------------
(* Lines of transcripts *)

Tool(kind, selector) ==
    [name |-> {kind}, resource |-> "r", selector |-> selector, volatile |-> FALSE,
     servers |-> <<"a", "b">>, family |-> "git", language |-> None]

Used(n) == Totals(2 * n, n, 0, n, 0)

Meta == [type |-> "session_meta", ts |-> 1, id |-> "s", name |-> None, started |-> 1]
Context(m, t) == [type |-> "turn_context", ts |-> 1, model |-> m, turn |-> t, tier |-> None]
Count(ts, total, last) ==
    [type |-> "token_count", ts |-> ts, total |-> total, usage |-> last, limit |-> "low"]
Garbage == [type |-> "garbage"]

CodexLines ==
    {Context("m1", "t1"), Context("m2", "t2"), Count(2, Used(1), Used(1)), Count(1, Used(3), Used(1)),
     [type |-> "call", ts |-> 2, id |-> "c1", tool |-> Tool("mutation", "x")],
     [type |-> "result", ts |-> 3, id |-> "c1", failed |-> TRUE, duration |-> None, bytes |-> 1],
     [type |-> "task_complete", ts |-> 3, turn |-> None, words |-> {"test"}],
     [type |-> "rolled_back", ts |-> 3, count |-> 1], Garbage}

Usage(n) == [fresh |-> n, read |-> 1, write |-> 0, out |-> n]
Message(id, ts, m, n, calls) ==
    [type |-> "assistant", id |-> id, ts |-> ts, sid |-> "s", agent |-> None, model |-> m,
     tier |-> None, usage |-> Usage(n), calls |-> calls, words |-> {}]
Prompt(uuid, ts) ==
    [type |-> "user", ts |-> ts, sid |-> "s", agent |-> "a", uuid |-> uuid, words |-> {"debug"},
     results |-> << >>, sidechain |-> TRUE]
Use(id, kind) == [id |-> id, tool |-> Tool(kind, "x"), status |-> "ok"]

ClaudeLines ==
    {Prompt("u1", 2), Prompt("u2", 3), Message("m1", 2, "opus", 1, << >>),
     Message("m1", 3, "opus", 1, <<Use("c1", "mutation")>>), Message("m2", 1, "sonnet", 2, <<Use("c2", "mutation")>>),
     [type |-> "summary", ts |-> None, sid |-> "s", name |-> "summary"], Garbage}

Reply(id, ts, n, calls) ==
    [type |-> "gemini", id |-> id, ts |-> ts, model |-> "g", tier |-> None,
     usage |-> [input |-> n, cached |-> 0, output |-> 1, thoughts |-> n], calls |-> calls, words |-> None]
Failed(id) == [Use(id, "read") EXCEPT !.status = "error"]

GeminiLines ==
    {Prompt("u1", 2), Reply("m1", 2, 1, <<Use("c1", "read"), Failed("c2")>>), Reply("m1", 3, 2, << >>),
     Reply("m2", 3, 1, <<Use("c3", "read"), Failed("c4")>>), Garbage}

MCStarts(f) ==
    CASE f = "codex"    -> {Meta, Count(1, Used(2), Used(2))}
      [] f = "subagent" -> {Prompt("u1", 1), [type |-> "title", ts |-> None, sid |-> "s", name |-> "title"]}
      [] f = "gemini"   -> {[type |-> "header", ts |-> 1, sid |-> "s"], Prompt("u0", 1)}

MCLines(f) ==
    CASE f = "codex" -> CodexLines [] f = "subagent" -> ClaudeLines [] f = "gemini" -> GeminiLines

-----------------------------------------------------------------------------
WindowsNext == Pass \/ \E used \in {10, 30, 100} : ReadWindow(used)

IndexStep ==
    /\ IndexNext
    /\ subject = "index" => settings' = settings /\ ticks' = ticks
    /\ subject = "cache" => \A s \in Sessions \ {"a"} : held'[s] = None

\* Where no rule is kept, default settings can be reached again, and a process that
\* started without the file meets them, all within one tick.
AlertsStep ==
    /\ AlertsNext
    /\ subject \notin {"ambient", "restarts"} => world'.condition = world.condition
    /\ subject # "budgets" => world'.value = world.value
    /\ subject # "live" => world'.account = world.account
    /\ subject # "restarts" =>
         /\ edits' <= 1 /\ faults' <= 1
         /\ subject # "budgets" => disk'.settings.rules["b"] = 1
         /\ subject # "live" => disk'.settings.rules["l"] = 1
    /\ subject = "restarts" =>
         clock' = 0 /\ disk'.settings.quiet = None /\ \A r \in Rules : disk'.settings.rules[r] = 0

\* A turn is rolled back where there is one session, whose preferences hold, and no
\* process is started late: a late one tells of less.
AttentionStep ==
    /\ AttentionNext
    /\ \A g \in signals' : g.id <= Cardinality(signals')
    /\ subject = "attention" => \A g \in signals' : ~g.undone
    /\ subject = "rollback" =>
         /\ attentionFile'.revision = 0 /\ \A g \in signals' : g.session = "s"
         /\ \A p \in Processes : inner'[p].armed = 0

MCNext ==
    \/ subject = "watcher" /\ IngestNext
       /\ UNCHANGED <<subject, cacheVars, windowsVars, indexVars, alertVars, attentionVars, statusVars, serverVars>>
    \/ subject = "rows" /\ CacheNext
       /\ UNCHANGED <<subject, ingestVars, windowsVars, indexVars, alertVars, attentionVars, statusVars, serverVars>>
    \/ subject = "windows" /\ WindowsNext
       /\ UNCHANGED <<subject, ingestVars, cacheVars, indexVars, alertVars, attentionVars, statusVars, serverVars>>
    \/ subject \in {"index", "cache"} /\ IndexStep
       /\ UNCHANGED <<subject, ingestVars, cacheVars, windowsVars, alertVars, attentionVars, statusVars, serverVars>>
    \/ subject \in {"budgets", "live", "ambient", "restarts"} /\ AlertsStep
       /\ UNCHANGED <<subject, ingestVars, cacheVars, windowsVars, indexVars, attentionVars, statusVars, serverVars>>
    \/ subject \in {"attention", "rollback"} /\ AttentionStep
       /\ UNCHANGED <<subject, ingestVars, cacheVars, windowsVars, indexVars, alertVars, statusVars, serverVars>>
    \/ subject = "status" /\ StatusNext
       /\ UNCHANGED <<subject, ingestVars, cacheVars, windowsVars, indexVars, alertVars, attentionVars, serverVars>>
    \/ subject = "server" /\ ServerNext
       /\ UNCHANGED <<subject, ingestVars, cacheVars, windowsVars, indexVars, alertVars, attentionVars, statusVars>>

readingVars == <<subject, ingestVars, cacheVars, windowsVars, indexVars, alertVars, attentionVars,
                 statusVars, serverVars>>

MCSpec == MCInit /\ [][MCNext]_readingVars

\* Scans of the cache are interchangeable, and so are the processes that share the
\* attention file.  No subject has both, so they are exchanged together.
Exchanges(pi, set) == \E x \in set : pi[x] # x
ReadingSymmetry ==
    {pi \in Permutations(Scans \cup Processes) :
        (\A s \in Scans : pi[s] \in Scans) /\ (Exchanges(pi, Scans) <=> Exchanges(pi, Processes))}

-----------------------------------------------------------------------------
AllHonest(windows, at) == \A i \in DOMAIN windows : HonestWindow(windows[i], at)

\* Whatever is shown of a window is honest, at the time of its last reading and
\* before it, after a reset, a drop or a long silence; and collapsing equal
\* observations into runs changes nothing of it.
WindowsAreHonest ==
    \A at \in {minute - 3, minute} :
        /\ \A shown \in {SnapshotAt(Collapse(readings), at)} :
              /\ AllHonest(shown.windows, at)
              /\ shown = SnapshotAt(Raw(readings), at)
        /\ readings # << >> => \A live \in {LiveAt(Last(readings), at)} :
              AllHonest(live.windows, at) /\ \A i \in DOMAIN live.windows : live.windows[i].forecast = None

\* The watcher ends with the session that the whole transcript gives, and vouches
\* for no version of the file that it has not read.
TranscriptsAreFollowed == subject = "watcher" => WatcherCatchesUp /\ RecordedGenerationIsRead

\* What a session counts adds up over its turns, models and tools.
FiguresAreWhole == subject = "watcher" => FiguresAddUp

\* A row of the scan cache is the session of the file it names, and the newest
\* scan finds its rows where it left them.
CacheIsTrue == subject = "rows" => CacheTellsTheTruth /\ NewestScanKeepsItsRows

\* What is read is what there is: a transcript by the watcher, the figures of a
\* session, the rows of the scan cache, and the windows built from observations.
ReadingsAreTrue ==
    /\ TranscriptsAreFollowed /\ FiguresAreWhole /\ CacheIsTrue
    /\ subject = "windows" => WindowsAreHonest

\* Nobody is told the same thing twice, by a budget, a rule, a condition or a
\* signal, and nothing of a provider is shown without its consent.
NoticesAreEarned ==
    CASE subject \in {"budgets", "live", "ambient", "restarts"} -> ToldOnce
      [] subject \in {"attention", "rollback"} -> AlertedOnce
      [] subject = "status" -> OptOutHolds
      [] subject = "server" -> ReadingsAreApproved
      [] OTHER -> TRUE
=============================================================================
