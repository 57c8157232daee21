--------------------------- MODULE Surfaces_proofs ---------------------------
(***************************************************************************)
(* Proofs about what reads the ledger and what is set up around it: the    *)
(* query server (McpServer), the entry in a client's configuration         *)
(* (McpSetup), the settings file (Configuration), the findings of the      *)
(* workflow report (WorkflowFindings) and the accounting export            *)
(* (AccountingExport), each for any number of its ids, files, rules, views *)
(* and sessions; and, composed, what a step of any of them may do, as      *)
(* MCSurfaces states it for one instance.                                  *)
(***************************************************************************)
EXTENDS MCSurfaces, McpServer, FiniteSetTheorems, TLAPS

-----------------------------------------------------------------------------
(***************************************************************************)
(* The query server.                                                       *)
(***************************************************************************)

Busy  == {i \in Ids : worker[i] # None}
Owing == {"starting", "querying", "done", "failed"}
Owed(i) == IF worker[i] \in Owing THEN 1 ELSE 0

ServerTypes ==
    /\ reader \in {"reading", "ending", "ended"} /\ broken \in BOOLEAN
    /\ active \in [Ids -> States \cup {None}]
    /\ worker \in [Ids -> Stages \cup {None}]
    /\ requests \in [Ids -> Nat] /\ answers \in [Ids -> Nat]
    /\ log \in Seq(Ids)

\* Every worker has its entry among the active queries, and there is a place for each.
Placed ==
    /\ Cardinality(Busy) <= MaxConcurrent
    /\ \A i \in Ids : worker[i] # None <=> active[i] # None

\* Until the output breaks an id has as many answers as requests that are not at work.
AnsweredOnce == ~broken => \A i \in Ids : answers[i] = requests[i] - Owed(i)

\* A query withdrawn in time is still withdrawn when its worker looks.
Withheld ==
    \A i \in early \cap Ids :
        /\ worker[i] \in {"starting", "querying"} => active[i] = "withdrawn"
        /\ worker[i] # "done"

SInv == ServerTypes /\ Placed /\ AnsweredOnce /\ Withheld /\ Len(log) <= MaxEntries

-----------------------------------------------------------------------------
\* The workers are finitely many, and at most as many as before when none joins.
LEMMA BusyIsFinite == IsFiniteSet(Busy) /\ Cardinality(Busy) \in Nat
  BY ServerAssumption, FS_Subset, FS_CardinalityType DEF Busy

LEMMA FewerBusy ==
    ASSUME \A i \in Ids : worker'[i] # None => worker[i] # None
    PROVE  Cardinality(Busy') <= Cardinality(Busy)
<1>1. Busy' \subseteq Busy
  BY DEF Busy
<1> QED BY <1>1, BusyIsFinite, FS_Subset

\* The property counts, as Cardinality over one id, what Owed says.
LEMMA OwedCounts ==
    ASSUME NEW i \in Ids
    PROVE  Cardinality({j \in {i} : worker[j] \in {"starting", "querying", "done", "failed"}}) = Owed(i)
<1>1. CASE worker[i] \in Owing
  <2>1. {j \in {i} : worker[j] \in Owing} = {i}
    BY <1>1
  <2> QED BY <1>1, <2>1, FS_Singleton DEF Owed, Owing
<1>2. CASE worker[i] \notin Owing
  <2>1. {j \in {i} : worker[j] \in Owing} = {}
    BY <1>2
  <2> QED BY <1>2, <2>1, FS_EmptySet DEF Owed, Owing
<1> QED BY <1>1, <1>2

\* The log forgets its oldest entries.
LEMMA LogIsBounded ==
    ASSUME NEW s \in Seq(Ids), NEW i \in Ids, Len(s) <= MaxEntries
    PROVE  LET all == Append(s, i)
               stays == SubSeq(all, Max({1, Len(all) - MaxEntries + 1}), Len(all))
           IN  stays \in Seq(Ids) /\ Len(stays) <= MaxEntries
<1> DEFINE all == Append(s, i)
           from == Len(all) - MaxEntries + 1
<1>1. all \in Seq(Ids) /\ Len(all) = Len(s) + 1 /\ Len(s) \in Nat /\ MaxEntries \in Nat \ {0}
  BY ServerAssumption
<1>2. from \in Int
  BY <1>1
<1> HIDE DEF all
<1>3. Max({1, from}) = IF from > 1 THEN from ELSE 1
  <2>1. \E m \in {1, from} : \A n \in {1, from} : m >= n
    BY <1>2
  <2> QED BY <1>2, <2>1 DEF Max
<1>4. Max({1, from}) \in 1..Len(all) /\ Len(all) - Max({1, from}) + 1 <= MaxEntries
  BY <1>1, <1>3
<1>5. ASSUME NEW m \in 1..Len(all)
      PROVE  /\ SubSeq(all, m, Len(all)) \in Seq(Ids)
             /\ Len(SubSeq(all, m, Len(all))) = Len(all) - m + 1
  <2>1. SubSeq(all, m, Len(all)) = [k \in 1..(Len(all) - m + 1) |-> all[m + k - 1]]
    BY <1>1
  <2>2. \A k \in 1..(Len(all) - m + 1) : all[m + k - 1] \in Ids
    BY <1>1
  <2>3. Len(all) - m + 1 \in Nat
    BY <1>1
  <2> QED BY <2>1, <2>2, <2>3
<1> QED BY <1>4, <1>5 DEF all

-----------------------------------------------------------------------------
LEMMA ServerInitial == ASSUME ServerInit PROVE SInv
<1>1. Busy = {} /\ Cardinality(Busy) = 0
  BY FS_EmptySet DEF ServerInit, Busy
<1>2. \A i \in Ids : Owed(i) = 0
  BY ServerAssumption DEF ServerInit, Owed, Owing, Stages
<1>3. ServerTypes /\ Len(log) = 0 /\ early = {}
  <2>1. log = <<>> /\ <<>> \in Seq(Ids) /\ Len(<<>>) = 0
    BY DEF ServerInit
  <2> QED BY <2>1 DEF ServerInit, ServerTypes
<1>4. Placed
  BY <1>1, ServerAssumption DEF Placed, ServerInit
<1>5. AnsweredOnce
  BY <1>2 DEF AnsweredOnce, ServerInit
<1> QED BY <1>3, <1>4, <1>5, ServerAssumption DEF SInv, Withheld

\* The place of a worker is stays, or given back with it.
LEMMA ServerStep == ASSUME SInv, [ServerNext]_serverVars PROVE SInv'
<1>1. /\ ServerTypes /\ Placed /\ AnsweredOnce /\ Withheld /\ Len(log) <= MaxEntries
      /\ Cardinality(Busy) \in Nat /\ MaxConcurrent \in Nat \ {0}
  BY ServerAssumption, BusyIsFinite DEF SInv
<1>n. \A s \in Stages \cup States : s # None
  BY ServerAssumption
\* The reader answers a request itself.
<1>r. ASSUME NEW i \in Ids, Immediate(i), requests' = [requests EXCEPT ![i] = @ + 1],
             UNCHANGED <<broken, worker, early, log>>
      PROVE  SInv'
  <2>1. /\ reader' \in {"reading", "ending", "ended"} /\ active' \in [Ids -> States \cup {None}]
        /\ answers' \in [Ids -> Nat] /\ requests' \in [Ids -> Nat]
        /\ \A j \in Ids : /\ active'[j] = None <=> active[j] = None
                          /\ active'[j] = active[j] \/ active'[j] = "withdrawn"
    <3>1. CASE broken
      <4>1. active' = CancelAll /\ reader' = "ending" /\ answers' = answers
        BY <1>r, <3>1 DEF Immediate
      <4> QED BY <1>1, <1>n, <1>r, <4>1 DEF ServerTypes, CancelAll, States
    <3>2. CASE ~broken
      <4>1. answers' = [answers EXCEPT ![i] = @ + 1] /\ UNCHANGED <<active, reader>>
        BY <1>r, <3>2 DEF Immediate, Answer
      <4> QED BY <1>1, <1>r, <4>1 DEF ServerTypes
    <3> QED BY <3>1, <3>2
  <2>2. ServerTypes'
    BY <1>1, <1>r, <2>1 DEF ServerTypes
  <2>3. Placed'
    BY <1>1, <1>r, <2>1 DEF Placed, Busy
  <2>4. Withheld'
    BY <1>1, <1>r, <2>1 DEF Withheld
  <2>5. AnsweredOnce'
    <3> SUFFICES ASSUME ~broken, NEW j \in Ids PROVE answers'[j] = requests'[j] - Owed(j)'
      BY <1>r DEF AnsweredOnce
    <3>1. answers' = [answers EXCEPT ![i] = @ + 1] /\ answers[j] = requests[j] - Owed(j)
      BY <1>1, <1>r DEF Immediate, Answer, AnsweredOnce
    <3>2. Owed(j)' = Owed(j) /\ Owed(j) \in Nat
      BY <1>r DEF Owed
    <3> QED BY <1>1, <1>r, <3>1, <3>2 DEF ServerTypes
  <2> QED BY <1>1, <1>r, <2>2, <2>3, <2>4, <2>5 DEF SInv
\* A worker goes on without an answer, and keeps its place.
<1>w. ASSUME NEW i \in Ids, NEW a \in Stages, NEW b \in Stages,
             worker[i] = a, worker' = [worker EXCEPT ![i] = b], a \in Owing <=> b \in Owing,
             b = "querying" => a = "starting",
             b = "done" => a = "querying" /\ active[i] # "withdrawn", b # "starting",
             UNCHANGED <<reader, broken, active, requests, answers, early>>,
             log' \in Seq(Ids), Len(log') <= MaxEntries
      PROVE  SInv'
  <2>1. worker' \in [Ids -> Stages \cup {None}] /\ \A j \in Ids \ {i} : worker'[j] = worker[j]
    BY <1>1, <1>w DEF ServerTypes
  <2>2. worker'[i] = b /\ \A j \in Ids : worker'[j] # None <=> worker[j] # None
    BY <1>1, <1>n, <1>w DEF ServerTypes
  <2>3. \A j \in Ids : Owed(j)' = Owed(j)
    BY <1>w, <2>1, <2>2 DEF Owed
  <2>4. Placed'
    BY <1>1, <1>w, <2>2 DEF Placed, Busy
  <2>5. Withheld'
    BY <1>1, <1>w, <2>1, <2>2 DEF Withheld
  <2>6. AnsweredOnce'
    BY <1>1, <1>w, <2>3 DEF AnsweredOnce
  <2> QED BY <1>1, <1>w, <2>1, <2>4, <2>5, <2>6 DEF SInv, ServerTypes
<1>2. CASE \E i \in Ids : RequestImmediate(i)
  BY <1>2, <1>r DEF RequestImmediate, Asked
<1>3. CASE \E i \in Ids : RequestQuery(i)
  <2>1. PICK i \in Ids : RequestQuery(i)
    BY <1>3
  <2>2. requests' = [requests EXCEPT ![i] = @ + 1] /\ UNCHANGED <<broken, log>>
    BY <2>1 DEF RequestQuery, Asked
  <2>3. CASE Immediate(i) /\ UNCHANGED <<worker, early>>
    BY <1>r, <2>2, <2>3
  <2>4. CASE /\ active[i] = None /\ HasRoom
             /\ active' = [active EXCEPT ![i] = "live"]
             /\ worker' = [worker EXCEPT ![i] = "starting"] /\ early' = early \ {i}
             /\ UNCHANGED <<reader, answers>>
    <3>1. /\ active' \in [Ids -> States \cup {None}] /\ worker' \in [Ids -> Stages \cup {None}]
          /\ requests' \in [Ids -> Nat]
      BY <1>1, <2>2, <2>4 DEF ServerTypes, Stages, States
    <3>2. /\ active'[i] = "live" /\ worker'[i] = "starting" /\ worker[i] = None
          /\ \A j \in Ids \ {i} : active'[j] = active[j] /\ worker'[j] = worker[j]
      BY <1>1, <2>4 DEF ServerTypes, Placed
    <3>3. Busy = Active /\ Cardinality(Busy) < MaxConcurrent
      BY <1>1, <2>4 DEF Placed, Busy, Active, HasRoom
    <3>4. Placed'
      <4>1. Busy' = Busy \cup {i} /\ i \notin Busy
        BY <1>n, <3>2 DEF Busy, Stages
      <4>2. Cardinality(Busy') = Cardinality(Busy) + 1
        BY <4>1, BusyIsFinite, FS_AddElement
      <4>3. Cardinality(Busy') <= MaxConcurrent
        BY <1>1, <3>3, <4>2
      <4>4. \A j \in Ids : worker'[j] # None <=> active'[j] # None
        BY <1>1, <1>n, <3>2 DEF Placed, Stages, States
      <4> QED BY <4>3, <4>4 DEF Placed
    <3>5. Withheld'
      BY <1>1, <2>4, <3>2 DEF Withheld
    <3>6. AnsweredOnce'
      <4> SUFFICES ASSUME ~broken, NEW j \in Ids PROVE answers'[j] = requests'[j] - Owed(j)'
        BY <2>2 DEF AnsweredOnce
      <4>1. answers' = answers /\ answers[j] = requests[j] - Owed(j) /\ requests[j] \in Nat
        BY <1>1, <2>4 DEF AnsweredOnce, ServerTypes
      <4>2. CASE j = i
        <5>1. Owed(j)' = 1 /\ Owed(j) = 0 /\ requests'[j] = requests[j] + 1
          BY <1>1, <1>n, <2>2, <3>2, <4>2 DEF Owed, Owing, Stages, ServerTypes
        <5> QED BY <4>1, <5>1
      <4>3. CASE j # i
        BY <1>1, <2>2, <3>2, <4>1, <4>3 DEF Owed, ServerTypes
      <4> QED BY <4>2, <4>3
    <3> QED BY <1>1, <2>2, <2>4, <3>1, <3>4, <3>5, <3>6 DEF SInv, ServerTypes
  <2> QED BY <2>1, <2>3, <2>4 DEF RequestQuery
<1>4. CASE \E i \in Ids : Withdraw(i)
  <2>1. PICK i \in Ids : Withdraw(i)
    BY <1>4
  <2>2. /\ active' \in [Ids -> States \cup {None}] /\ active'[i] = "withdrawn" /\ active[i] = "live"
        /\ \A j \in Ids \ {i} : active'[j] = active[j]
        /\ UNCHANGED <<reader, broken, worker, requests, answers, log>>
        /\ early' = IF worker[i] \in {"starting", "querying"} THEN early \cup {i} ELSE early
    BY <1>1, <2>1 DEF Withdraw, ServerTypes, States
  <2>3. Placed'
    BY <1>1, <1>n, <2>2 DEF Placed, Busy, States
  <2>4. Withheld'
    BY <1>1, <2>2 DEF Withheld
  <2>5. AnsweredOnce'
    BY <1>1, <2>2 DEF AnsweredOnce, Owed
  <2> QED BY <1>1, <2>2, <2>3, <2>4, <2>5 DEF SInv, ServerTypes
<1>5. CASE \E i \in Ids : StartQuery(i)
  <2>1. PICK i \in Ids : StartQuery(i)
    BY <1>5
  <2>2. PICK b \in {"failed", "querying"} : worker' = [worker EXCEPT ![i] = b]
    BY <2>1 DEF StartQuery
  <2> QED BY <1>1, <1>w, <2>1, <2>2 DEF StartQuery, Stages, Owing, ServerTypes
<1>6. CASE \E i \in Ids : FinishQuery(i)
  <2>1. PICK i \in Ids : FinishQuery(i)
    BY <1>6
  <2>2. PICK b \in {"done", "failed"} : /\ worker' = [worker EXCEPT ![i] = b]
                                        /\ b = "done" => active[i] # "withdrawn"
    BY <2>1 DEF FinishQuery, Withdrawn
  <2> QED BY <1>1, <1>w, <2>1, <2>2 DEF FinishQuery, Stages, Owing, ServerTypes
<1>7. CASE \E i \in Ids : WriteAnswer(i)
  <2>1. PICK i \in Ids : WriteAnswer(i)
    BY <1>7
  <2>2. PICK b \in {"recording", "removing"} :
           /\ worker' = [worker EXCEPT ![i] = b]
           /\ IF broken THEN active' = CancelAll /\ UNCHANGED answers
              ELSE Answer(i) /\ UNCHANGED active
    BY <2>1 DEF WriteAnswer, GivesUp
  <2>3. /\ worker[i] \in {"done", "failed"} /\ UNCHANGED <<reader, broken, requests, early, log>>
    BY <2>1 DEF WriteAnswer
  <2>4. /\ worker' \in [Ids -> Stages \cup {None}] /\ worker'[i] = b
        /\ \A j \in Ids \ {i} : worker'[j] = worker[j]
    BY <1>1, <2>2 DEF ServerTypes, Stages
  <2>5. /\ active' \in [Ids -> States \cup {None}] /\ answers' \in [Ids -> Nat]
        /\ \A j \in Ids : /\ active'[j] = None <=> active[j] = None
                          /\ active'[j] = active[j] \/ active'[j] = "withdrawn"
    <3>1. CASE broken
      BY <1>1, <1>n, <2>2, <3>1 DEF ServerTypes, CancelAll, States
    <3>2. CASE ~broken
      BY <1>1, <2>2, <3>2 DEF Answer, ServerTypes
    <3> QED BY <3>1, <3>2
  <2>6. Placed'
    <3>1. \A j \in Ids : worker'[j] # None <=> worker[j] # None
      BY <1>n, <2>3, <2>4 DEF Stages
    <3>2. Busy' = Busy
      BY <3>1 DEF Busy
    <3>3. \A j \in Ids : worker'[j] # None <=> active'[j] # None
      BY <1>1, <2>5, <3>1 DEF Placed
    <3>4. Cardinality(Busy') <= MaxConcurrent
      BY <1>1, <3>2 DEF Placed
    <3> QED BY <3>3, <3>4 DEF Placed
  <2>7. Withheld'
    BY <1>1, <2>3, <2>4, <2>5 DEF Withheld
  <2>8. AnsweredOnce'
    <3> SUFFICES ASSUME ~broken, NEW j \in Ids PROVE answers'[j] = requests'[j] - Owed(j)'
      BY <2>3 DEF AnsweredOnce
    <3>1. answers' = [answers EXCEPT ![i] = @ + 1] /\ requests' = requests
      BY <2>2, <2>3 DEF Answer
    <3>2. answers[j] = requests[j] - Owed(j) /\ requests[j] \in Nat /\ answers[j] \in Nat
      BY <1>1 DEF AnsweredOnce, ServerTypes
    <3>3. CASE j = i
      <4>1. Owed(j) = 1 /\ Owed(j)' = 0 /\ answers'[j] = answers[j] + 1
        BY <1>1, <2>3, <2>4, <3>1, <3>3 DEF Owed, Owing, ServerTypes
      <4> QED BY <3>1, <3>2, <4>1
    <3>4. CASE j # i
      BY <1>1, <2>4, <3>1, <3>2, <3>4 DEF Owed, ServerTypes
    <3> QED BY <3>3, <3>4
  <2> QED BY <1>1, <2>3, <2>4, <2>5, <2>6, <2>7, <2>8 DEF SInv, ServerTypes
<1>8. CASE \E i \in Ids : RecordActivity(i)
  <2>1. PICK i \in Ids : RecordActivity(i)
    BY <1>8
  <2>2. log' \in Seq(Ids) /\ Len(log') <= MaxEntries
    BY <1>1, <2>1, LogIsBounded DEF RecordActivity, ServerTypes
  <2> QED BY <1>w, <2>1, <2>2 DEF RecordActivity, Stages, Owing
<1>9. CASE \E i \in Ids : RemoveQuery(i)
  <2>1. PICK i \in Ids : RemoveQuery(i)
    BY <1>9
  <2>2. /\ active' = [active EXCEPT ![i] = None] /\ worker' = [worker EXCEPT ![i] = None]
        /\ worker[i] = "removing" /\ UNCHANGED <<reader, broken, requests, answers, early, log>>
    BY <2>1 DEF RemoveQuery, Removed
  <2>3. /\ active' \in [Ids -> States \cup {None}] /\ worker' \in [Ids -> Stages \cup {None}]
        /\ active'[i] = None /\ worker'[i] = None
        /\ \A j \in Ids \ {i} : active'[j] = active[j] /\ worker'[j] = worker[j]
    BY <1>1, <2>2 DEF ServerTypes
  <2>4. Cardinality(Busy') <= Cardinality(Busy)
    BY <2>3, FewerBusy
  <2>5. Placed'
    <3>1. \A j \in Ids : worker'[j] # None <=> active'[j] # None
      BY <1>1, <2>3 DEF Placed
    <3>2. Cardinality(Busy') \in Nat
      BY FS_Subset, FS_CardinalityType, ServerAssumption DEF Busy
    <3>3. Cardinality(Busy') <= MaxConcurrent
      BY <1>1, <2>4, <3>2 DEF Placed
    <3> QED BY <3>1, <3>3 DEF Placed
  <2>6. \A j \in Ids : Owed(j)' = Owed(j)
    BY <1>n, <2>2, <2>3 DEF Owed, Owing, Stages
  <2>7. Withheld' /\ AnsweredOnce'
    BY <1>1, <1>n, <2>2, <2>3, <2>6 DEF Withheld, AnsweredOnce, Stages
  <2> QED BY <1>1, <2>2, <2>3, <2>5, <2>7 DEF SInv, ServerTypes
<1>10. CASE ReaderEnds \/ ClientCloses
  <2>1. /\ UNCHANGED <<active, worker, requests, answers, early, log>>
        /\ reader' \in {"reading", "ending", "ended"} /\ broken' \in BOOLEAN /\ (broken => broken')
    BY <1>1, <1>10 DEF ReaderEnds, EndOfInput, Join, ClientCloses, ServerTypes
  <2> QED BY <1>1, <2>1 DEF SInv, ServerTypes, Placed, Busy, AnsweredOnce, Owed, Withheld
<1>11. CASE UNCHANGED serverVars
  BY <1>1, <1>11 DEF serverVars, SInv, ServerTypes, Placed, Busy, AnsweredOnce, Owed, Withheld
<1> QED BY <1>2, <1>3, <1>4, <1>5, <1>6, <1>7, <1>8, <1>9, <1>10, <1>11 DEF ServerNext, WorkerStep

-----------------------------------------------------------------------------
\* The server (mcp_server.rs) never runs more queries than are let in nor one that
\* is not accounted for, answers every request once while the answers are read,
\* and never answers with a result what was withdrawn before its query ended.
THEOREM ServerIsSoundHolds == ServerSpec => []ServerIsSound
<1>1. ServerInit => SInv
  BY ServerInitial
<1>2. SInv /\ [ServerNext]_serverVars => SInv'
  BY ServerStep
<1>3. SInv => ServerIsSound
  <2> SUFFICES ASSUME SInv PROVE ServerIsSound
    OBVIOUS
  <2>1. \A i \in Ids : ~broken => answers[i] =
           requests[i] - Cardinality({j \in {i} : worker[j] \in {"starting", "querying", "done", "failed"}})
    BY OwedCounts DEF SInv, AnsweredOnce
  <2> QED BY <2>1 DEF SInv, Placed, Busy, Withheld, ServerIsSound
<1> QED BY <1>1, <1>2, <1>3, PTL DEF ServerSpec

-----------------------------------------------------------------------------
(***************************************************************************)
(* The entry in a client's configuration.                                  *)
(***************************************************************************)

\* Any number of previews, applies, expiries and other writers.
SetupSpec == SetupInit /\ [][SetupNext]_setupVars

Files == Configurations \cup {None}

\* From one content of the file to the other, either way, only an entry of
\* Odometer's own comes or goes.
DifferInTheOwnEntry(a, b) ==
    a # b => /\ TextOf(a) = TextOf(b)
             /\ EntryOf(a) # None => Owned(EntryOf(a))
             /\ EntryOf(b) # None => Owned(EntryOf(b))

\* What was previewed, and what was last applied, is an edit of its own entry.
SetupInv ==
    /\ config \in Files /\ written \in Nat
    /\ \A p \in plans : /\ p.original \in Files /\ p.updated \in Files
                        /\ DifferInTheOwnEntry(p.original, p.updated)
    /\ applied # None => /\ applied.original \in Files /\ applied.updated \in Files
                         /\ DifferInTheOwnEntry(applied.original, applied.updated)

LEMMA FilesHaveTextAndEntry ==
    ASSUME NEW t \in Texts \cup {None}, NEW e \in Entries \cup {None}
    PROVE  LET f == [text |-> t, entry |-> e] IN f \in Files /\ f # None /\ TextOf(f) = t /\ EntryOf(f) = e
  BY SetupAssumption DEF Files, Configurations, TextOf, EntryOf

LEMMA PartsOfFiles ==
    ASSUME NEW f \in Files
    PROVE  TextOf(f) \in Texts \cup {None} /\ EntryOf(f) \in Entries \cup {None}
  BY DEF Files, Configurations, TextOf, EntryOf

LEMMA EditIsOwn ==
    ASSUME NEW f \in Files, NEW action \in {"install", "remove"}, MayEdit(f, action)
    PROVE  Edited(f, action) \in Files /\ DifferInTheOwnEntry(f, Edited(f, action))
<1> DEFINE e == IF action = "remove" THEN None
                ELSE IF EntryOf(f) # None THEN EntryOf(f) ELSE Managed("none")
<1>1. Managed("none") \in Entries /\ Managed("none") # Foreign
  BY DEF Entries, Managed, Foreign
<1>2. e \in Entries \cup {None}
  BY <1>1, PartsOfFiles
<1>3. e # None => Owned(e)
  BY <1>1, SetupAssumption DEF MayEdit, Owned
<1>4. Edited(f, action) = [text |-> TextOf(f), entry |-> e]
  BY DEF Edited
<1> HIDE DEF e
<1>5. Edited(f, action) \in Files /\ TextOf(Edited(f, action)) = TextOf(f) /\ EntryOf(Edited(f, action)) = e
  BY <1>2, <1>4, FilesHaveTextAndEntry, PartsOfFiles
<1> QED BY <1>3, <1>5 DEF MayEdit, DifferInTheOwnEntry

LEMMA SetupInitial == ASSUME SetupInit PROVE SetupInv
  BY DEF SetupInit, SetupInv, Files

LEMMA PreviewKeeps == ASSUME SetupInv, NEW action \in {"install", "remove", "restore"}, Preview(action)
                      PROVE  SetupInv' /\ config' = config
<1> DEFINE updated == IF action = "restore" THEN applied.original ELSE Edited(config, action)
           plan == [id |-> previews', action |-> action, original |-> config,
                    updated |-> updated, expired |-> FALSE]
<1>1. updated \in Files /\ DifferInTheOwnEntry(config, updated)
  <2>1. CASE action = "restore"
    BY <2>1 DEF Preview, MayRestore, SetupInv, DifferInTheOwnEntry
  <2>2. CASE action # "restore"
    BY <2>2, EditIsOwn DEF Preview, SetupInv
  <2> QED BY <2>1, <2>2
<1>2. plan.original = config /\ plan.updated = updated
  OBVIOUS
<1>3. plans' \subseteq plans \cup {plan} /\ UNCHANGED <<config, applied, written>>
  BY DEF Preview
<1> HIDE DEF updated, plan
<1>4. \A p \in plans' : /\ p.original \in Files /\ p.updated \in Files
                        /\ DifferInTheOwnEntry(p.original, p.updated)
  BY <1>1, <1>2, <1>3 DEF SetupInv
<1> QED BY <1>3, <1>4 DEF SetupInv

\* What is written is what a plan says, or nothing is.
LEMMA WritesKeep ==
    ASSUME SetupInv, NEW plan \in plans,
           (Unchanged(plan) /\ config' = plan.updated) \/ config' = config
    PROVE  config' \in Files /\ DifferInTheOwnEntry(config, config')
  BY DEF SetupInv, Unchanged, DifferInTheOwnEntry

LEMMA ApplyKeeps == ASSUME SetupInv, NEW plan \in plans, Apply(plan)
                    PROVE  SetupInv' /\ DifferInTheOwnEntry(config, config')
<1>1. config' \in Files /\ DifferInTheOwnEntry(config, config')
  BY WritesKeep DEF Apply
<1>2. plans' \subseteq plans /\ written' = written
  BY DEF Apply
<1>3. applied' # None => /\ applied'.original \in Files /\ applied'.updated \in Files
                         /\ DifferInTheOwnEntry(applied'.original, applied'.updated)
  <2>1. CASE applied' = [original |-> plan.original, updated |-> plan.updated]
    <3>1. applied'.original = plan.original /\ applied'.updated = plan.updated
      BY <2>1
    <3> QED BY <3>1 DEF SetupInv
  <2>2. CASE applied' = applied
    BY <2>2 DEF SetupInv
  <2> QED BY <2>1, <2>2 DEF Apply
<1> QED BY <1>1, <1>2, <1>3 DEF SetupInv

LEMMA QuitKeeps == ASSUME SetupInv, Quit PROVE SetupInv' /\ DifferInTheOwnEntry(config, config')
<1>1. config' \in Files /\ DifferInTheOwnEntry(config, config')
  BY WritesKeep DEF Quit, SetupInv, DifferInTheOwnEntry
<1> QED BY <1>1 DEF Quit, SetupInv

LEMMA ExpireKeeps == ASSUME SetupInv, Expire PROVE SetupInv' /\ config' = config
<1>1. ASSUME NEW p \in plans'
      PROVE  \E q \in plans : p.original = q.original /\ p.updated = q.updated
  <2>1. PICK q \in plans : p = [q EXCEPT !.expired = TRUE]
    BY DEF Expire
  <2>2. p.original = q.original /\ p.updated = q.updated
    BY <2>1
  <2> QED BY <2>2
<1> QED BY <1>1 DEF Expire, SetupInv

LEMMA UserWritesKeeps == ASSUME SetupInv, UserWrites PROVE SetupInv' /\ written' # written
<1>1. config' \in Files
  <2>1. ASSUME NEW t \in Texts, config' = [text |-> t, entry |-> EntryOf(config)]
        PROVE  config' \in Files
    BY <2>1, PartsOfFiles, FilesHaveTextAndEntry DEF SetupInv
  <2>2. ASSUME NEW e \in {None, Foreign, Managed("custom")}, config' = [text |-> TextOf(config), entry |-> e]
        PROVE  config' \in Files
    BY <2>2, PartsOfFiles, FilesHaveTextAndEntry DEF SetupInv, Entries
  <2> QED BY <2>1, <2>2 DEF UserWrites, SetupInv
<1> QED BY <1>1 DEF UserWrites, SetupInv

LEMMA SetupStep == ASSUME SetupInv, [SetupNext]_setupVars PROVE SetupInv' /\ OnlyTheOwnEntryChanges
<1> USE DEF DifferInTheOwnEntry, OnlyTheOwnEntryChanges
<1>1. ASSUME NEW action \in {"install", "remove", "restore"}, Preview(action)
      PROVE  SetupInv' /\ OnlyTheOwnEntryChanges
  BY <1>1, PreviewKeeps
<1>2. ASSUME NEW plan \in plans, Apply(plan) PROVE SetupInv' /\ OnlyTheOwnEntryChanges
  BY <1>2, ApplyKeeps
<1>3. CASE Quit
  BY <1>3, QuitKeeps
<1>4. CASE Expire
  BY <1>4, ExpireKeeps
<1>5. CASE UserWrites
  BY <1>5, UserWritesKeeps
<1>6. CASE UNCHANGED setupVars
  BY <1>6 DEF setupVars, SetupInv
<1> QED BY <1>1, <1>2, <1>3, <1>4, <1>5, <1>6 DEF SetupNext

\* A step of the setup of a client (mcp_integration.rs: a preview, its late apply, a
\* restore, its expiry) changes nothing of the client's file but an entry of
\* Odometer's own; the text around it, and an entry with the user's options, change
\* only by another program's write.
THEOREM OnlyTheOwnEntryChangesHolds == SetupSpec => [][OnlyTheOwnEntryChanges]_setupVars
  BY SetupInitial, SetupStep, PTL DEF SetupSpec

-----------------------------------------------------------------------------
(***************************************************************************)
(* The settings file.                                                      *)
(***************************************************************************)

\* Saves of this build, which may fail at any point, and of an older and a newer
\* one, in any order.
SettingsSpec == SettingsInit /\ [][SettingsNext]_settingsVars

ProviderIds == BuiltIn \cup OtherProviders

\* What Settings last saved is in the file as this build writes it.
HoldsWhatWasSaved ==
    wanted # None =>
        /\ settingsFile \in Settings /\ settingsFile.version = ConfigVersion
        /\ wanted \in [BuiltIn -> RootSets]
        /\ BuiltIn \subseteq DOMAIN settingsFile.providers
        /\ \A p \in BuiltIn : settingsFile.providers[p].live = wanted[p]
        /\ \A p \in Mirrored : settingsFile.flat[p] = wanted[p]

\* A save that is under way will write what it read and what the window sent, and
\* runs over the roots it read unless another wrote the file.
PendingIsStaged ==
    pendingSave # None =>
        /\ form \in Settings /\ pendingSave.previous \in Settings /\ pendingSave.roots \in [BuiltIn -> RootSets]
        /\ pendingSave.next = PreserveBackendOwned(pendingSave.previous, FormWith(pendingSave.roots))
        /\ pendingSave.restarts <=> SourcesChanged(pendingSave.previous, pendingSave.next)
        /\ running # None /\ ~strayed => running = Discovered(pendingSave.previous)

RunsWhatIsLoaded == running # None /\ ~strayed => running = Discovered(Loaded)
FormIsCurrent == form # None /\ ~outdated => KeepsForeign(Loaded, form)

\* Whoever wrote the file last, what this build saved is still in it.
SettingsInv ==
    /\ settingsFile \in Settings \cup {None, Malformed}
    /\ form \in Settings \cup {None}
    /\ HoldsWhatWasSaved
    /\ PendingIsStaged
    /\ RunsWhatIsLoaded
    /\ FormIsCurrent

-----------------------------------------------------------------------------
\* Provider maps.
LEMMA MapsByDomain ==
    ASSUME NEW f
    PROVE  f \in ProviderMaps <=> DOMAIN f \subseteq ProviderIds /\ f \in [DOMAIN f -> KeptProviders]
<1>1. ASSUME f \in ProviderMaps PROVE DOMAIN f \subseteq ProviderIds /\ f \in [DOMAIN f -> KeptProviders]
  <2>1. PICK ids \in SUBSET ProviderIds : f \in [ids -> KeptProviders]
    BY <1>1 DEF ProviderMaps, ProviderIds
  <2> QED BY <2>1
<1>2. ASSUME DOMAIN f \subseteq ProviderIds, f \in [DOMAIN f -> KeptProviders] PROVE f \in ProviderMaps
  BY <1>2 DEF ProviderMaps, ProviderIds
<1> QED BY <1>1, <1>2

LEMMA NamesOfProviders ==
    /\ "codex" \in Mirrored /\ "claude" \in Mirrored /\ Mirrored \subseteq BuiltIn /\ "gemini" \in BuiltIn
    /\ "gemini" \notin Mirrored /\ Mirrored = {"codex", "claude"} /\ BuiltIn \subseteq ProviderIds
    /\ BuiltIn = Mirrored \cup {"gemini"} /\ "codex" # "claude"
  BY DEF Mirrored, BuiltIn, ProviderIds

\* entry(id).or_default() with other roots keeps everything else.
LEMMA WithRootsKeeps ==
    ASSUME NEW f \in ProviderMaps, NEW id \in ProviderIds, NEW live \in RootSets \cup {{}}
    PROVE  LET g == WithRoots(f, id, live) IN
           /\ g \in ProviderMaps /\ DOMAIN g = DOMAIN f \cup {id}
           /\ g[id].live = live /\ (g[id].extra <=> id \in DOMAIN f /\ f[id].extra)
           /\ \A x \in DOMAIN f \ {id} : g[x] = f[x]
<1> DEFINE extra == id \in DOMAIN f /\ f[id].extra
           y == Provider(live, extra)
           g == WithRoots(f, id, live)
<1>1. DOMAIN f \subseteq ProviderIds /\ f \in [DOMAIN f -> KeptProviders]
  BY MapsByDomain
<1>2. extra \in BOOLEAN
  BY <1>1 DEF KeptProviders
<1> HIDE DEF extra
<1>3. y \in KeptProviders /\ y.live = live /\ y.extra = extra
  BY <1>2 DEF KeptProviders, Provider
<1>4. g = [z \in DOMAIN f \cup {id} |-> IF z = id THEN y ELSE f[z]]
  BY DEF WithRoots, Set, extra
<1> HIDE DEF y
<1>5. DOMAIN g = DOMAIN f \cup {id} /\ g[id] = y /\ \A x \in DOMAIN f \ {id} : g[x] = f[x]
  BY <1>4
<1>6. g \in [DOMAIN f \cup {id} -> KeptProviders]
  BY <1>1, <1>3, <1>4
<1> HIDE DEF g
<1>7. g \in ProviderMaps
  BY <1>1, <1>5, <1>6, MapsByDomain
<1>8. g[id].live = live /\ (g[id].extra <=> id \in DOMAIN f /\ f[id].extra)
  BY <1>3, <1>5 DEF extra
<1> QED BY <1>5, <1>7, <1>8 DEF g

-----------------------------------------------------------------------------
\* Settings, field by field.
LEMMA SettingsFields ==
    ASSUME NEW c \in Settings
    PROVE  /\ c.version \in 0..2 /\ c.providers \in ProviderMaps
           /\ c.flat \in [Mirrored -> RootSets \cup {{}}] /\ c.extra \in BOOLEAN
  BY DEF Settings

LEMMA SettingsUpdates ==
    ASSUME NEW c \in Settings, NEW v, NEW ps, NEW fl
    PROVE  /\ [c EXCEPT !.version = v, !.providers = ps]
                = [version |-> v, providers |-> ps, flat |-> c.flat, extra |-> c.extra]
           /\ [c EXCEPT !.providers = ps]
                = [version |-> c.version, providers |-> ps, flat |-> c.flat, extra |-> c.extra]
           /\ [c EXCEPT !.flat = fl]
                = [version |-> c.version, providers |-> c.providers, flat |-> fl, extra |-> c.extra]
           /\ [c EXCEPT !.flat = fl, !.providers = ps]
                = [version |-> c.version, providers |-> ps, flat |-> fl, extra |-> c.extra]
<1>1. c = [version |-> c.version, providers |-> c.providers, flat |-> c.flat, extra |-> c.extra]
  BY DEF Settings
<1> DEFINE v0 == c.version  p0 == c.providers  f0 == c.flat  e0 == c.extra
<1> HIDE DEF v0, p0, f0, e0
<1>2. c = [version |-> v0, providers |-> p0, flat |-> f0, extra |-> e0]
  BY <1>1 DEF v0, p0, f0, e0
<1>3. [c EXCEPT !.version = v, !.providers = ps] = [version |-> v, providers |-> ps, flat |-> f0, extra |-> e0]
  <2> DEFINE d == [c EXCEPT !.version = v]
  <2>1. d = [version |-> v, providers |-> p0, flat |-> f0, extra |-> e0]
    BY <1>2
  <2>2. [c EXCEPT !.version = v, !.providers = ps] = [d EXCEPT !.providers = ps]
    OBVIOUS
  <2> HIDE DEF d
  <2> QED BY <2>1, <2>2
<1>4. [c EXCEPT !.providers = ps] = [version |-> v0, providers |-> ps, flat |-> f0, extra |-> e0]
  BY <1>2
<1>5. [c EXCEPT !.flat = fl] = [version |-> v0, providers |-> p0, flat |-> fl, extra |-> e0]
  BY <1>2
<1>6. [c EXCEPT !.flat = fl, !.providers = ps] = [version |-> v0, providers |-> ps, flat |-> fl, extra |-> e0]
  <2> DEFINE d == [c EXCEPT !.flat = fl]
  <2>1. [c EXCEPT !.flat = fl, !.providers = ps] = [d EXCEPT !.providers = ps]
    OBVIOUS
  <2> HIDE DEF d
  <2>2. d = [version |-> v0, providers |-> p0, flat |-> fl, extra |-> e0]
    BY <1>5 DEF d
  <2> QED BY <2>1, <2>2
<1> QED BY <1>3, <1>4, <1>5, <1>6 DEF v0, p0, f0, e0

\* Mirror
LEMMA MirrorTyped ==
    ASSUME NEW f \in ProviderMaps
    PROVE  /\ Mirror(f) \in [Mirrored -> RootSets \cup {{}}]
           /\ \A p \in Mirrored \cap DOMAIN f : Mirror(f)[p] = f[p].live
<1>1. f \in [DOMAIN f -> KeptProviders]
  BY MapsByDomain
<1>2. \A p \in DOMAIN f : f[p].live \in RootSets \cup {{}}
  BY <1>1 DEF KeptProviders
<1> QED BY <1>2 DEF Mirror

LEMMA FromFlatKeeps ==
    ASSUME NEW c \in Settings
    PROVE  LET n == FromFlat(c) IN
           /\ n \in Settings /\ n.version = ConfigVersion /\ n.flat = c.flat /\ n.extra = c.extra
           /\ DOMAIN n.providers = DOMAIN c.providers \cup Mirrored
           /\ \A p \in Mirrored : /\ n.providers[p].live = c.flat[p]
                                  /\ n.providers[p].extra <=> p \in DOMAIN c.providers /\ c.providers[p].extra
           /\ \A x \in DOMAIN c.providers \ Mirrored : n.providers[x] = c.providers[x]
<1> DEFINE f == c.providers
           g == WithRoots(f, "codex", c.flat["codex"])
           h == WithRoots(g, "claude", c.flat["claude"])
<1>1. f \in ProviderMaps /\ c.flat["codex"] \in RootSets \cup {{}} /\ c.flat["claude"] \in RootSets \cup {{}}
      /\ "codex" \in ProviderIds /\ "claude" \in ProviderIds
  BY SettingsFields, NamesOfProviders
<1>2. FromFlat(c) = [version |-> ConfigVersion, providers |-> h, flat |-> c.flat, extra |-> c.extra]
  <2>1. FromFlat(c) = [c EXCEPT !.version = ConfigVersion, !.providers = h]
    BY Zenon DEF FromFlat
  <2> HIDE DEF h
  <2> QED BY <2>1, SettingsUpdates
<1> HIDE DEF f
<1>3. /\ g \in ProviderMaps /\ DOMAIN g = DOMAIN f \cup {"codex"}
      /\ g["codex"].live = c.flat["codex"] /\ (g["codex"].extra <=> "codex" \in DOMAIN f /\ f["codex"].extra)
      /\ \A x \in DOMAIN f \ {"codex"} : g[x] = f[x]
  BY <1>1, WithRootsKeeps
<1> HIDE DEF g
<1>4. /\ h \in ProviderMaps /\ DOMAIN h = DOMAIN g \cup {"claude"}
      /\ h["claude"].live = c.flat["claude"] /\ (h["claude"].extra <=> "claude" \in DOMAIN g /\ g["claude"].extra)
      /\ \A x \in DOMAIN g \ {"claude"} : h[x] = g[x]
  <2>1. g \in ProviderMaps /\ "claude" \in ProviderIds /\ c.flat["claude"] \in RootSets \cup {{}}
    BY <1>1, <1>3
  <2> QED BY <2>1, WithRootsKeeps
<1> HIDE DEF h
<1>5. FromFlat(c) \in Settings
  BY <1>2, <1>4, SettingsFields DEF Settings, ConfigVersion
<1>6. /\ FromFlat(c).version = ConfigVersion /\ FromFlat(c).providers = h
      /\ FromFlat(c).flat = c.flat /\ FromFlat(c).extra = c.extra
  BY <1>2
<1>7. DOMAIN h = DOMAIN f \cup Mirrored
  BY <1>3, <1>4, NamesOfProviders
<1>8. \A p \in Mirrored : /\ h[p].live = c.flat[p]
                          /\ h[p].extra <=> p \in DOMAIN f /\ f[p].extra
  BY <1>3, <1>4, NamesOfProviders
<1>9. \A x \in DOMAIN f \ Mirrored : h[x] = f[x]
  BY <1>3, <1>4, NamesOfProviders
<1> QED BY <1>5, <1>6, <1>7, <1>8, <1>9 DEF f

\* A provider that was never saved gets the default roots.
LEMMA GeminiIsAdded ==
    ASSUME NEW m \in ProviderMaps
    PROVE  LET g == WithRoots(m, "gemini", Seed) IN
           /\ g \in ProviderMaps /\ DOMAIN g = DOMAIN m \cup {"gemini"}
           /\ g["gemini"].extra <=> "gemini" \in DOMAIN m /\ m["gemini"].extra
           /\ \A x \in DOMAIN m \ {"gemini"} : g[x] = m[x]
<1>1. "gemini" \in ProviderIds /\ Seed \in RootSets \cup {{}}
  BY NamesOfProviders, SettingsAssumption
<1> DEFINE r == WithRoots(m, "gemini", Seed)
<1>2. /\ r \in ProviderMaps /\ DOMAIN r = DOMAIN m \cup {"gemini"}
      /\ r["gemini"].live = Seed /\ (r["gemini"].extra <=> "gemini" \in DOMAIN m /\ m["gemini"].extra)
      /\ \A x \in DOMAIN m \ {"gemini"} : r[x] = m[x]
  BY <1>1, WithRootsKeeps
<1> QED BY <1>2

\* What a build that knows the providers leaves as it is when it reads.
LEMMA NormalizedKeeps ==
    ASSUME NEW c \in Settings
    PROVE  LET n == Normalized(c) IN
           /\ n \in Settings /\ n.extra = c.extra /\ DOMAIN c.providers \subseteq DOMAIN n.providers
           /\ DOMAIN n.providers \subseteq DOMAIN c.providers \cup BuiltIn
           /\ \A x \in DOMAIN n.providers \ DOMAIN c.providers : ~n.providers[x].extra
           /\ "gemini" \in DOMAIN n.providers /\ (IsLegacy(c) => BuiltIn \subseteq DOMAIN n.providers)
           /\ \A x \in DOMAIN c.providers : n.providers[x].extra <=> c.providers[x].extra
           /\ \A x \in DOMAIN c.providers \ Mirrored : n.providers[x] = c.providers[x]
           /\ IsLegacy(c) => /\ n.version = ConfigVersion
                             /\ n.flat = c.flat /\ \A p \in Mirrored : n.providers[p].live = c.flat[p]
           /\ ~IsLegacy(c) => /\ n.version = c.version /\ DOMAIN n.providers = DOMAIN c.providers \cup {"gemini"}
                              /\ \A p \in DOMAIN c.providers : n.providers[p] = c.providers[p]
                              /\ \A p \in Mirrored \cap DOMAIN c.providers : n.flat[p] = c.providers[p].live
<1> DEFINE n == IF IsLegacy(c) THEN FromFlat(c) ELSE [c EXCEPT !.flat = Mirror(c.providers)]
           g == WithRoots(n.providers, "gemini", Seed)
<1>1. /\ n \in Settings /\ n.extra = c.extra /\ DOMAIN c.providers \subseteq DOMAIN n.providers
      /\ DOMAIN n.providers \subseteq DOMAIN c.providers \cup BuiltIn
      /\ \A x \in DOMAIN n.providers \ DOMAIN c.providers : ~n.providers[x].extra
      /\ IsLegacy(c) => Mirrored \subseteq DOMAIN n.providers
      /\ \A x \in DOMAIN c.providers : n.providers[x].extra <=> c.providers[x].extra
      /\ \A x \in DOMAIN c.providers \ Mirrored : n.providers[x] = c.providers[x]
      /\ "gemini" \in DOMAIN n.providers => "gemini" \in DOMAIN c.providers
      /\ IsLegacy(c) => /\ n.version = ConfigVersion
                        /\ n.flat = c.flat /\ \A p \in Mirrored : n.providers[p].live = c.flat[p]
      /\ ~IsLegacy(c) => /\ n.version = c.version /\ n.providers = c.providers
                         /\ \A p \in Mirrored \cap DOMAIN c.providers : n.flat[p] = c.providers[p].live
  <2>1. CASE IsLegacy(c)
    BY <2>1, FromFlatKeeps, NamesOfProviders
  <2>2. CASE ~IsLegacy(c)
    <3>1. n = [version |-> c.version, providers |-> c.providers, flat |-> Mirror(c.providers), extra |-> c.extra]
      BY <2>2 DEF Settings
    <3>2. Mirror(c.providers) \in [Mirrored -> RootSets \cup {{}}]
          /\ \A p \in Mirrored \cap DOMAIN c.providers : Mirror(c.providers)[p] = c.providers[p].live
      BY SettingsFields, MirrorTyped
    <3>3. n \in Settings
      BY <3>1, <3>2, SettingsFields DEF Settings
    <3>4. n.version = c.version /\ n.providers = c.providers /\ n.flat = Mirror(c.providers) /\ n.extra = c.extra
      BY <3>1
    <3> HIDE DEF n
    <3> QED BY <2>2, <3>2, <3>3, <3>4
  <2> QED BY <2>1, <2>2
<1>2. Normalized(c) = IF NeverSaved(n.providers) THEN [n EXCEPT !.providers = g] ELSE n
  BY DEF Normalized
<1> HIDE DEF n
<1>3. CASE NeverSaved(n.providers)
  <2>1. /\ g \in ProviderMaps /\ DOMAIN g = DOMAIN n.providers \cup {"gemini"}
        /\ g["gemini"].extra <=> "gemini" \in DOMAIN n.providers /\ n.providers["gemini"].extra
        /\ \A x \in DOMAIN n.providers \ {"gemini"} : g[x] = n.providers[x]
    <3>1. n.providers \in ProviderMaps /\ "gemini" \in ProviderIds /\ Seed \in RootSets \cup {{}}
      BY <1>1, SettingsFields, NamesOfProviders, SettingsAssumption
    <3> DEFINE m == n.providers
    <3> HIDE DEF m
    <3>2. WithRoots(m, "gemini", Seed) = g
      BY DEF m
    <3>3. m \in ProviderMaps
      BY <3>1 DEF m
    <3>4. /\ WithRoots(m, "gemini", Seed) \in ProviderMaps
          /\ DOMAIN WithRoots(m, "gemini", Seed) = DOMAIN m \cup {"gemini"}
          /\ WithRoots(m, "gemini", Seed)["gemini"].extra <=> "gemini" \in DOMAIN m /\ m["gemini"].extra
          /\ \A x \in DOMAIN m \ {"gemini"} : WithRoots(m, "gemini", Seed)[x] = m[x]
      BY <3>3, GeminiIsAdded
    <3> HIDE DEF g
    <3> QED BY <3>2, <3>4 DEF m
  <2>2. Normalized(c) = [version |-> n.version, providers |-> g, flat |-> n.flat, extra |-> n.extra]
    BY <1>1, <1>2, <1>3 DEF Settings
  <2> HIDE DEF g
  <2>3. Normalized(c) \in Settings
    BY <1>1, <2>1, <2>2, SettingsFields DEF Settings
  <2>4. /\ Normalized(c).version = n.version /\ Normalized(c).providers = g
        /\ Normalized(c).flat = n.flat /\ Normalized(c).extra = n.extra
    BY <2>2
  <2>5. "gemini" \notin DOMAIN n.providers
    BY <1>3 DEF NeverSaved
  <2> QED BY <1>1, <2>1, <2>3, <2>4, <2>5, NamesOfProviders
<1>4. CASE ~NeverSaved(n.providers)
  <2>1. Normalized(c) = n /\ "gemini" \in DOMAIN n.providers
    BY <1>2, <1>4 DEF NeverSaved
  <2> QED BY <1>1, <2>1, NamesOfProviders
<1> QED BY <1>3, <1>4

-----------------------------------------------------------------------------
LEMMA DefaultIsSettings == DefaultConfig \in Settings
<1>1. [x \in {} |-> None] \in ProviderMaps
  <2> DEFINE f == [x \in {} |-> None]
  <2>1. DOMAIN f = {} /\ f \in [DOMAIN f -> KeptProviders]
    OBVIOUS
  <2> HIDE DEF f
  <2>2. f \in ProviderMaps
    BY <2>1, MapsByDomain
  <2> QED BY <2>2 DEF f
<1>2. [p \in Mirrored |-> Seed] \in [Mirrored -> RootSets \cup {{}}]
  BY SettingsAssumption
<1> QED BY <1>1, <1>2 DEF DefaultConfig, Settings

LEMMA LoadedIsSettings == ASSUME SettingsInv PROVE Loaded \in Settings
  BY DefaultIsSettings, NormalizedKeeps DEF Loaded, SettingsInv

\* What is discovered is that of the settings as they are written.
LEMMA DiscoveredTwice ==
    ASSUME NEW c \in Settings
    PROVE  Normalized(c) \in Settings /\ Discovered(Normalized(c)) = Discovered(c)
<1> DEFINE n == Normalized(c)
           m == Normalized(n)
<1>1. n \in Settings /\ "gemini" \in DOMAIN n.providers /\ ~IsLegacy(n)
  <2>1. /\ n \in Settings /\ "gemini" \in DOMAIN n.providers
        /\ IsLegacy(c) => n.version = ConfigVersion
        /\ ~IsLegacy(c) => n.version = c.version
    BY NormalizedKeeps
  <2> QED BY <2>1 DEF IsLegacy, ConfigVersion
<1> HIDE DEF n
<1>2. DOMAIN m.providers = DOMAIN n.providers \cup {"gemini"}
      /\ \A p \in DOMAIN n.providers : m.providers[p] = n.providers[p]
  BY <1>1, NormalizedKeeps
<1> HIDE DEF m
<1>3. DOMAIN m.providers = DOMAIN n.providers
  BY <1>1, <1>2
<1>4. Discovered(n) = [p \in BuiltIn |-> IF p \in DOMAIN m.providers THEN m.providers[p].live ELSE {}]
  BY DEF Discovered, m
<1>5. Discovered(c) = [p \in BuiltIn |-> IF p \in DOMAIN n.providers THEN n.providers[p].live ELSE {}]
  BY DEF Discovered, n
<1>6. Discovered(n) = Discovered(c)
  BY <1>2, <1>3, <1>4, <1>5
<1> QED BY <1>1, <1>6 DEF n

LEMMA KeepsForeignOnward ==
    ASSUME NEW a \in Settings, NEW b \in Settings, NEW c \in Settings, KeepsForeign(a, b), KeepsForeign(b, c)
    PROVE  KeepsForeign(a, c)
  BY DEF KeepsForeign

LEMMA NormalizedAddsNothing ==
    ASSUME NEW c \in Settings PROVE KeepsForeign(Normalized(c), c)
<1> DEFINE n == Normalized(c)
<1>1. /\ n.extra = c.extra /\ DOMAIN n.providers \subseteq DOMAIN c.providers \cup BuiltIn
      /\ \A x \in DOMAIN n.providers \ DOMAIN c.providers : ~n.providers[x].extra
      /\ \A x \in DOMAIN c.providers : n.providers[x].extra <=> c.providers[x].extra
  BY NormalizedKeeps
<1> HIDE DEF n
<1>2. KeepsForeign(n, c)
  BY <1>1, SettingsAssumption DEF KeepsForeign
<1> QED BY <1>2 DEF n

LEMMA NormalizedKeepsForeign ==
    ASSUME NEW c \in Settings PROVE KeepsForeign(c, Normalized(c))
<1> DEFINE n == Normalized(c)
<1>1. /\ n.extra = c.extra /\ DOMAIN c.providers \subseteq DOMAIN n.providers
      /\ \A x \in DOMAIN c.providers : n.providers[x].extra <=> c.providers[x].extra
  BY NormalizedKeeps
<1> HIDE DEF n
<1>2. KeepsForeign(c, n)
  BY <1>1 DEF KeepsForeign
<1> QED BY <1>2 DEF n

\* The defaults that a reading writes are those it would read.
LEMMA ReadingKeeps ==
    ASSUME SettingsInv, settingsFile' \in WithDefaults, wanted' = wanted
    PROVE  /\ settingsFile' \in Settings \cup {None, Malformed} /\ HoldsWhatWasSaved'
           /\ Loaded' \in Settings /\ Discovered(Loaded') = Discovered(Loaded) /\ KeepsForeign(Loaded', Loaded)
<1>1. Loaded \in Settings /\ settingsFile \in Settings \cup {None, Malformed}
  BY LoadedIsSettings DEF SettingsInv
<1>2. CASE settingsFile' = settingsFile
  <2>1. Loaded' = Loaded
    BY <1>2 DEF Loaded
  <2>2. HoldsWhatWasSaved'
    BY <1>2 DEF SettingsInv, HoldsWhatWasSaved
  <2>3. KeepsForeign(Loaded, Loaded)
    BY DEF KeepsForeign
  <2> QED BY <1>1, <1>2, <2>1, <2>2, <2>3
<1>3. CASE settingsFile' # settingsFile
  <2> DEFINE n == Normalized(DefaultConfig)
             m == Normalized(n)
  <2>1. settingsFile = None /\ settingsFile' = n /\ Loaded = DefaultConfig
    BY <1>3 DEF WithDefaults, Loaded
  <2>2. n \in Settings /\ Discovered(n) = Discovered(DefaultConfig) /\ KeepsForeign(n, DefaultConfig)
    BY DefaultIsSettings, DiscoveredTwice, NormalizedAddsNothing
  <2> HIDE DEF n
  <2>3. m \in Settings /\ Discovered(m) = Discovered(n) /\ KeepsForeign(m, n)
    BY <2>2, DiscoveredTwice, NormalizedAddsNothing
  <2> HIDE DEF m
  <2>4. Loaded' = m
    BY <2>1, <2>2, SettingsAssumption DEF Loaded, m
  <2>5. KeepsForeign(m, DefaultConfig)
    BY <2>2, <2>3, DefaultIsSettings, KeepsForeignOnward
  <2>6. wanted = None
    BY <2>1, SettingsAssumption DEF SettingsInv, HoldsWhatWasSaved
  <2>7. HoldsWhatWasSaved'
    BY <2>6 DEF HoldsWhatWasSaved
  <2> QED BY <2>1, <2>2, <2>3, <2>4, <2>5, <2>7
<1> QED BY <1>2, <1>3

\* What the window sends to be saved.
LEMMA FormWithKeeps ==
    ASSUME form \in Settings, NEW roots \in [BuiltIn -> RootSets]
    PROVE  LET next == FormWith(roots) IN
           /\ next \in Settings /\ next.extra = form.extra
           /\ DOMAIN next.providers = DOMAIN form.providers \cup {"gemini"}
           /\ next.providers["gemini"].extra <=> "gemini" \in DOMAIN form.providers /\ form.providers["gemini"].extra
           /\ next.providers["gemini"].live = roots["gemini"]
           /\ \A p \in Mirrored : next.flat[p] = roots[p]
           /\ \A x \in DOMAIN form.providers \ {"gemini"} : next.providers[x] = form.providers[x]
<1> DEFINE f == form.providers
           fl == [p \in Mirrored |-> roots[p]]
           g == WithRoots(f, "gemini", roots["gemini"])
<1>1. f \in ProviderMaps /\ "gemini" \in ProviderIds /\ roots["gemini"] \in RootSets \cup {{}}
  BY SettingsFields, NamesOfProviders
<1>2. FormWith(roots) = [form EXCEPT !.flat = fl, !.providers = g]
  BY Zenon DEF FormWith
<1>3. fl \in [Mirrored -> RootSets \cup {{}}] /\ \A p \in Mirrored : fl[p] = roots[p]
  BY NamesOfProviders
<1> HIDE DEF f, fl
<1>4. /\ g \in ProviderMaps /\ DOMAIN g = DOMAIN f \cup {"gemini"} /\ g["gemini"].live = roots["gemini"]
      /\ g["gemini"].extra <=> "gemini" \in DOMAIN f /\ f["gemini"].extra
      /\ \A x \in DOMAIN f \ {"gemini"} : g[x] = f[x]
  BY <1>1, WithRootsKeeps
<1> HIDE DEF g
<1>5. FormWith(roots) = [version |-> form.version, providers |-> g, flat |-> fl, extra |-> form.extra]
  BY <1>2, SettingsUpdates
<1>6. FormWith(roots) \in Settings
  BY <1>3, <1>4, <1>5, SettingsFields DEF Settings
<1>7. FormWith(roots).providers = g /\ FormWith(roots).flat = fl /\ FormWith(roots).extra = form.extra
  BY <1>5
<1> QED BY <1>3, <1>4, <1>6, <1>7 DEF f

LEMMA PreserveBackendOwnedKeeps ==
    ASSUME NEW previous \in Settings, NEW next \in Settings
    PROVE  LET c == PreserveBackendOwned(previous, next) IN
           /\ c \in Settings /\ IsLegacy(c) /\ c.flat = next.flat /\ c.extra = next.extra
           /\ DOMAIN next.providers \subseteq DOMAIN c.providers
           /\ \A x \in (DOMAIN previous.providers \cap OtherProviders) \ DOMAIN next.providers :
                x \in DOMAIN c.providers /\ c.providers[x] = previous.providers[x]
           /\ \A x \in DOMAIN next.providers : c.providers[x] = next.providers[x]
<1> DEFINE f == previous.providers
           g == next.providers
           foreign == {id \in DOMAIN f \cap OtherProviders : id \notin DOMAIN g}
           h == [id \in DOMAIN g \cup foreign |-> IF id \in foreign THEN f[id] ELSE g[id]]
<1>1. f \in ProviderMaps /\ g \in ProviderMaps
  BY SettingsFields
<1>2. PreserveBackendOwned(previous, next) = [next EXCEPT !.version = 0, !.providers = h]
  BY Zenon DEF PreserveBackendOwned
<1> HIDE DEF f, g
<1>3. DOMAIN h = DOMAIN g \cup foreign /\ h \in [DOMAIN h -> KeptProviders] /\ DOMAIN h \subseteq ProviderIds
  <2>1. /\ DOMAIN f \subseteq ProviderIds /\ f \in [DOMAIN f -> KeptProviders]
        /\ DOMAIN g \subseteq ProviderIds /\ g \in [DOMAIN g -> KeptProviders]
    BY <1>1, MapsByDomain
  <2> QED BY <2>1
<1>4. \A x \in DOMAIN g : h[x] = g[x]
  OBVIOUS
<1>5. \A x \in (DOMAIN f \cap OtherProviders) \ DOMAIN g : x \in DOMAIN h /\ h[x] = f[x]
  BY <1>3
<1> HIDE DEF h, foreign
<1>6. h \in ProviderMaps
  BY <1>3, MapsByDomain
<1>7. PreserveBackendOwned(previous, next) = [version |-> 0, providers |-> h, flat |-> next.flat, extra |-> next.extra]
  BY <1>2, SettingsUpdates
<1>8. PreserveBackendOwned(previous, next) \in Settings
  BY <1>6, <1>7, SettingsFields DEF Settings
<1>9. /\ PreserveBackendOwned(previous, next).version = 0
      /\ PreserveBackendOwned(previous, next).providers = h
      /\ PreserveBackendOwned(previous, next).flat = next.flat
      /\ PreserveBackendOwned(previous, next).extra = next.extra
  BY <1>7
<1> QED BY <1>3, <1>4, <1>5, <1>8, <1>9 DEF f, g, IsLegacy, ConfigVersion

-----------------------------------------------------------------------------
LEMMA SettingsInitial == ASSUME SettingsInit PROVE SettingsInv
  BY DEF SettingsInit, SettingsInv, HoldsWhatWasSaved, PendingIsStaged, RunsWhatIsLoaded, FormIsCurrent

LEMMA StartAppKeeps == ASSUME SettingsInv, StartApp PROVE SettingsInv'
<1>1. /\ settingsFile' \in Settings \cup {None, Malformed} /\ HoldsWhatWasSaved'
      /\ Discovered(Loaded') = Discovered(Loaded)
  BY ReadingKeeps DEF StartApp
<1>2. form' = None /\ pendingSave' = None /\ running' = Discovered(Loaded)
  BY DEF StartApp
<1>3. RunsWhatIsLoaded'
  BY <1>1, <1>2 DEF RunsWhatIsLoaded
<1> QED BY <1>1, <1>2, <1>3 DEF SettingsInv, PendingIsStaged, FormIsCurrent

LEMMA OpenSettingsKeeps == ASSUME SettingsInv, OpenSettings PROVE SettingsInv'
<1>1. /\ settingsFile' \in Settings \cup {None, Malformed} /\ HoldsWhatWasSaved'
      /\ Discovered(Loaded') = Discovered(Loaded) /\ KeepsForeign(Loaded', Loaded)
  BY ReadingKeeps DEF OpenSettings
<1>2. form' = Loaded /\ Loaded \in Settings /\ UNCHANGED <<pendingSave, running, strayed>>
  BY LoadedIsSettings DEF OpenSettings
<1>3. pendingSave = None
  BY SettingsAssumption DEF OpenSettings, SettingsInv, PendingIsStaged
<1>4. RunsWhatIsLoaded'
  BY <1>1, <1>2 DEF RunsWhatIsLoaded, SettingsInv
<1>5. FormIsCurrent'
  BY <1>1, <1>2 DEF FormIsCurrent
<1>6. PendingIsStaged'
  BY <1>2, <1>3 DEF PendingIsStaged
<1> QED BY <1>1, <1>2, <1>4, <1>5, <1>6 DEF SettingsInv

LEMMA BeginSetConfigKeeps == ASSUME SettingsInv, BeginSetConfig PROVE SettingsInv'
<1>1. /\ settingsFile' \in Settings \cup {None, Malformed} /\ HoldsWhatWasSaved'
      /\ Loaded' \in Settings /\ Discovered(Loaded') = Discovered(Loaded) /\ KeepsForeign(Loaded', Loaded)
  BY ReadingKeeps DEF BeginSetConfig, foreignVars
<1>2. form \in Settings /\ Loaded \in Settings /\ UNCHANGED <<form, running, strayed, outdated>>
  BY LoadedIsSettings DEF BeginSetConfig, SettingsInv, foreignVars
<1>3. PICK roots \in [BuiltIn -> RootSets] :
         pendingSave' = [previous |-> Loaded, next |-> PreserveBackendOwned(Loaded, FormWith(roots)), roots |-> roots,
                         restarts |-> SourcesChanged(Loaded, PreserveBackendOwned(Loaded, FormWith(roots)))]
  BY DEF BeginSetConfig
<1> DEFINE next == PreserveBackendOwned(Loaded, FormWith(roots))
<1>5. /\ pendingSave'.previous = Loaded /\ pendingSave'.roots = roots /\ pendingSave'.next = next
      /\ pendingSave'.restarts <=> SourcesChanged(Loaded, next)
  BY <1>3
<1>6. (pendingSave.next = PreserveBackendOwned(pendingSave.previous, FormWith(pendingSave.roots)))'
  BY <1>2, <1>5 DEF FormWith
<1> HIDE DEF next
<1>7. PendingIsStaged'
  BY <1>2, <1>5, <1>6 DEF PendingIsStaged, SettingsInv, RunsWhatIsLoaded
<1>8. RunsWhatIsLoaded'
  BY <1>1, <1>2 DEF RunsWhatIsLoaded, SettingsInv
<1>9. FormIsCurrent'
  BY <1>1, <1>2, KeepsForeignOnward DEF FormIsCurrent, SettingsInv
<1> QED BY <1>1, <1>2, <1>7, <1>8, <1>9 DEF SettingsInv

\* What a save that is under way will write.
LEMMA StagedSave ==
    ASSUME SettingsInv, pendingSave # None
    PROVE  LET c == pendingSave.next
               n == Normalized(c)
               roots == pendingSave.roots
           IN  /\ n \in Settings /\ n.version = ConfigVersion /\ roots \in [BuiltIn -> RootSets]
               /\ c \in Settings /\ BuiltIn \subseteq DOMAIN n.providers
               /\ \A p \in BuiltIn : n.providers[p].live = roots[p]
               /\ \A p \in Mirrored : n.flat[p] = roots[p]
               /\ \A x \in (DOMAIN pendingSave.previous.providers \cap OtherProviders) \ DOMAIN form.providers :
                    x \in DOMAIN n.providers /\ n.providers[x] = pendingSave.previous.providers[x]
               /\ KeepsForeign(form, n)
<1> DEFINE roots == pendingSave.roots
           previous == pendingSave.previous
           next == FormWith(roots)
           c == pendingSave.next
           n == Normalized(c)
<1>1. /\ form \in Settings /\ previous \in Settings /\ roots \in [BuiltIn -> RootSets]
      /\ c = PreserveBackendOwned(previous, next)
  BY DEF SettingsInv, PendingIsStaged
<1> HIDE DEF roots, previous, c
<1>2. /\ next \in Settings /\ next.extra = form.extra
      /\ DOMAIN next.providers = DOMAIN form.providers \cup {"gemini"}
      /\ next.providers["gemini"].extra <=> "gemini" \in DOMAIN form.providers /\ form.providers["gemini"].extra
      /\ next.providers["gemini"].live = roots["gemini"]
      /\ \A p \in Mirrored : next.flat[p] = roots[p]
      /\ \A x \in DOMAIN form.providers \ {"gemini"} : next.providers[x] = form.providers[x]
  BY <1>1, FormWithKeeps
<1> HIDE DEF next
<1>3. /\ c \in Settings /\ IsLegacy(c) /\ c.flat = next.flat /\ c.extra = next.extra
      /\ DOMAIN next.providers \subseteq DOMAIN c.providers
      /\ \A x \in (DOMAIN previous.providers \cap OtherProviders) \ DOMAIN next.providers :
            x \in DOMAIN c.providers /\ c.providers[x] = previous.providers[x]
      /\ \A x \in DOMAIN next.providers : c.providers[x] = next.providers[x]
  BY <1>1, <1>2, PreserveBackendOwnedKeeps
<1>4. /\ n \in Settings /\ DOMAIN c.providers \subseteq DOMAIN n.providers
      /\ BuiltIn \subseteq DOMAIN n.providers
      /\ \A x \in DOMAIN c.providers \ Mirrored : n.providers[x] = c.providers[x]
      /\ n.version = ConfigVersion
      /\ n.flat = c.flat /\ \A p \in Mirrored : n.providers[p].live = c.flat[p]
  BY <1>3, NormalizedKeeps
<1>5. KeepsForeign(c, n)
  BY <1>3, NormalizedKeepsForeign
<1> HIDE DEF n
<1>6. \A p \in BuiltIn : n.providers[p].live = roots[p]
  BY <1>2, <1>3, <1>4, NamesOfProviders
<1>7. \A p \in Mirrored : n.flat[p] = roots[p]
  BY <1>2, <1>3, <1>4
<1>8. \A x \in (DOMAIN previous.providers \cap OtherProviders) \ DOMAIN form.providers :
         x \in DOMAIN n.providers /\ n.providers[x] = previous.providers[x]
  <2>1. OtherProviders \cap Mirrored = {} /\ "gemini" \notin OtherProviders
    BY SettingsAssumption, NamesOfProviders
  <2> QED BY <1>2, <1>3, <1>4, <2>1
<1>9. KeepsForeign(form, c)
  <2>1. \A x \in DOMAIN form.providers : form.providers[x].extra => next.providers[x].extra
    BY <1>2
  <2> QED BY <1>2, <1>3, <2>1 DEF KeepsForeign
<1>10. KeepsForeign(form, n)
  BY <1>1, <1>3, <1>4, <1>5, <1>9, KeepsForeignOnward
<1> QED BY <1>1, <1>3, <1>4, <1>6, <1>7, <1>8, <1>10 DEF n, c, roots, previous

LEMMA SaveConfigKeeps == ASSUME SettingsInv, SaveConfig PROVE SettingsInv' /\ ForeignSettingsSurvive
<1> DEFINE c == pendingSave.next
           n == Normalized(c)
           roots == pendingSave.roots
<1>1. /\ n \in Settings /\ n.version = ConfigVersion /\ roots \in [BuiltIn -> RootSets]
      /\ c \in Settings /\ BuiltIn \subseteq DOMAIN n.providers
      /\ \A p \in BuiltIn : n.providers[p].live = roots[p]
      /\ \A p \in Mirrored : n.flat[p] = roots[p]
      /\ \A x \in (DOMAIN pendingSave.previous.providers \cap OtherProviders) \ DOMAIN form.providers :
            x \in DOMAIN n.providers /\ n.providers[x] = pendingSave.previous.providers[x]
      /\ KeepsForeign(form, n)
  BY StagedSave DEF SaveConfig
<1>2. /\ settingsFile' = n /\ wanted' = roots /\ form' = None /\ pendingSave' = None
      /\ running' = IF pendingSave.restarts THEN Discovered(c) ELSE running
      /\ strayed' = (strayed /\ ~pendingSave.restarts)
  BY DEF SaveConfig
<1>3. Discovered(n) = Discovered(c)
  BY <1>1, DiscoveredTwice
<1>4. Discovered(Normalized(n)) = Discovered(n)
  <2> HIDE DEF n
  <2> QED BY <1>1, DiscoveredTwice
<1>5. Loaded' = Normalized(n)
  <2> HIDE DEF n
  <2> QED BY <1>1, <1>2, SettingsAssumption DEF Loaded
<1>6. /\ form \in Settings /\ pendingSave # None
      /\ pendingSave.restarts <=> SourcesChanged(pendingSave.previous, c)
      /\ running # None /\ ~strayed => running = Discovered(pendingSave.previous)
  BY DEF SaveConfig, SettingsInv, PendingIsStaged
<1>7. ASSUME ~pendingSave.restarts PROVE Discovered(pendingSave.previous) = Discovered(c)
  <2>1. Normalized(pendingSave.previous).providers = Normalized(c).providers
    BY <1>6, <1>7 DEF SourcesChanged
  <2> QED BY <2>1 DEF Discovered
<1> HIDE DEF c, n, roots
<1>8. RunsWhatIsLoaded'
  <2>1. CASE pendingSave.restarts
    BY <1>2, <1>3, <1>4, <1>5, <2>1 DEF RunsWhatIsLoaded
  <2>2. CASE ~pendingSave.restarts
    <3>1. running' = running /\ (~strayed' => ~strayed)
      BY <1>2, <2>2
    <3>2. running # None /\ ~strayed => running = Discovered(Loaded')
      BY <1>3, <1>4, <1>5, <1>6, <1>7, <2>2
    <3> QED BY <3>1, <3>2 DEF RunsWhatIsLoaded
  <2> QED BY <2>1, <2>2
<1>9. HoldsWhatWasSaved'
  BY <1>1, <1>2 DEF HoldsWhatWasSaved
<1>10. SettingsInv'
  BY <1>1, <1>2, <1>8, <1>9 DEF SettingsInv, PendingIsStaged, FormIsCurrent
<1>11. ASSUME ~outdated PROVE KeepsForeign(Loaded, n)
  <2>1. KeepsForeign(Loaded, form)
    BY <1>6, <1>11, SettingsAssumption DEF SettingsInv, FormIsCurrent
  <2> QED BY <1>1, <1>6, <2>1, LoadedIsSettings, KeepsForeignOnward
<1>12. ForeignSettingsSurvive
  BY <1>1, <1>2, <1>11 DEF ForeignSettingsSurvive
<1> QED BY <1>10, <1>12

\* What another writes, or a write of its own that is cut short.
LEMMA AnotherWriteKeeps ==
    ASSUME SettingsInv, AnotherWrites, settingsFile' \in Settings \cup {Malformed},
           pendingSave' = pendingSave \/ pendingSave' = None
    PROVE  SettingsInv'
<1>1. wanted' = None /\ strayed' = TRUE /\ outdated' = (form # None) /\ form' = form /\ running' = running
  BY DEF AnotherWrites
<1>2. PendingIsStaged'
  <2>1. CASE pendingSave' = None
    BY <2>1 DEF PendingIsStaged
  <2>2. CASE pendingSave' = pendingSave
    <3>1. FormWith(pendingSave.roots)' = FormWith(pendingSave.roots)
      BY <1>1, <2>2 DEF FormWith
    <3> QED BY <1>1, <2>2, <3>1 DEF PendingIsStaged, SettingsInv
  <2> QED BY <2>1, <2>2
<1> QED BY <1>1, <1>2 DEF SettingsInv, HoldsWhatWasSaved, RunsWhatIsLoaded, FormIsCurrent

LEMMA NewerBuildKeeps == ASSUME SettingsInv, NewerBuildSaves PROVE SettingsInv'
<1>1. settingsFile \in Settings /\ AnotherWrites /\ pendingSave' = pendingSave
  BY DEF NewerBuildSaves, SettingsInv
<1>2. PICK id \in ProviderIds, live \in RootSets :
         settingsFile' = [Normalized(settingsFile) EXCEPT !.version = 2, !.extra = TRUE,
                        !.providers = Set(WithRoots(@, id, live), id, Provider(live, TRUE))]
  BY DEF NewerBuildSaves, ProviderIds
<1> DEFINE n == Normalized(settingsFile)
           g == WithRoots(n.providers, id, live)
           y == Provider(live, TRUE)
           h == Set(g, id, y)
<1>3. n \in Settings
  BY <1>1, NormalizedKeeps
<1>4. settingsFile' = [n EXCEPT !.version = 2, !.extra = TRUE, !.providers = h]
  BY <1>2, Zenon
<1> HIDE DEF n
<1>5. g \in ProviderMaps
  <2>1. n.providers \in ProviderMaps /\ live \in RootSets \cup {{}}
    BY <1>3, SettingsFields
  <2> DEFINE m == n.providers
  <2> HIDE DEF m
  <2>2. m \in ProviderMaps
    BY <2>1 DEF m
  <2>3. WithRoots(m, id, live) \in ProviderMaps
    BY <2>1, <2>2, WithRootsKeeps
  <2> QED BY <2>3 DEF m
<1> HIDE DEF g
<1>6. y \in KeptProviders
  BY DEF Provider, KeptProviders
<1> HIDE DEF y
<1>7. h \in ProviderMaps
  <2>1. DOMAIN g \subseteq ProviderIds /\ g \in [DOMAIN g -> KeptProviders]
    BY <1>5, MapsByDomain
  <2>2. h \in [DOMAIN g \cup {id} -> KeptProviders] /\ DOMAIN g \cup {id} \subseteq ProviderIds
    BY <1>6, <2>1 DEF Set
  <2>3. DOMAIN h = DOMAIN g \cup {id}
    BY DEF Set
  <2> HIDE DEF h
  <2> QED BY <2>2, <2>3, MapsByDomain
<1> HIDE DEF h
<1>8. settingsFile' \in Settings
  <2> DEFINE a == [n EXCEPT !.version = 2]
             b == [a EXCEPT !.extra = TRUE]
  <2>1. settingsFile' = [b EXCEPT !.providers = h]
    BY <1>4
  <2>2. a \in Settings
    BY <1>3 DEF Settings
  <2> HIDE DEF a
  <2>3. b \in Settings
    BY <2>2 DEF Settings
  <2> HIDE DEF b
  <2> QED BY <1>7, <2>1, <2>3 DEF Settings
<1> QED BY <1>1, <1>8, AnotherWriteKeeps

LEMMA OlderBuildKeeps == ASSUME SettingsInv, OlderBuildSaves PROVE SettingsInv'
<1>1. settingsFile \in Settings /\ AnotherWrites /\ pendingSave' = pendingSave
  BY DEF OlderBuildSaves, SettingsInv
<1>2. PICK p \in Mirrored, live \in RootSets :
         settingsFile' = [DefaultConfig EXCEPT !.flat = [settingsFile.flat EXCEPT ![p] = live]]
  BY DEF OlderBuildSaves
<1> DEFINE fl == [settingsFile.flat EXCEPT ![p] = live]
<1>3. fl \in [Mirrored -> RootSets \cup {{}}]
  BY <1>1, SettingsFields
<1> HIDE DEF fl
<1>4. settingsFile' = [DefaultConfig EXCEPT !.flat = fl]
  BY <1>2 DEF fl
<1>5. settingsFile' \in Settings
  BY <1>3, <1>4, DefaultIsSettings DEF Settings
<1> QED BY <1>1, <1>5, AnotherWriteKeeps

LEMMA SettingsStep ==
    ASSUME SettingsInv, [SettingsNext]_settingsVars PROVE SettingsInv' /\ ForeignSettingsSurvive
<1>1. CASE StartApp
  BY <1>1, StartAppKeeps DEF StartApp, ForeignSettingsSurvive
<1>2. CASE OpenSettings
  BY <1>2, OpenSettingsKeeps DEF OpenSettings, ForeignSettingsSurvive
<1>3. CASE BeginSetConfig
  BY <1>3, BeginSetConfigKeeps DEF BeginSetConfig, ForeignSettingsSurvive
<1>4. CASE RefuseSetConfig
  <2>1. Loaded' = Loaded
    BY <1>4 DEF RefuseSetConfig, Loaded
  <2>2. pendingSave' = None /\ UNCHANGED <<settingsFile, form, running, settingsSaves, wanted, strayed, outdated>>
    BY <1>4 DEF RefuseSetConfig, foreignVars
  <2>3. SettingsInv'
    BY <2>1, <2>2 DEF SettingsInv, HoldsWhatWasSaved, PendingIsStaged, RunsWhatIsLoaded, FormIsCurrent
  <2> QED BY <2>2, <2>3 DEF ForeignSettingsSurvive
<1>5. CASE SaveConfig
  BY <1>5, SaveConfigKeeps
<1>6. CASE SaveCutShort
  <2>1. SettingsInv'
    BY <1>6, AnotherWriteKeeps DEF SaveCutShort
  <2> QED BY <1>6, <2>1 DEF SaveCutShort, ForeignSettingsSurvive
<1>7. CASE NewerBuildSaves
  BY <1>7, NewerBuildKeeps DEF NewerBuildSaves, ForeignSettingsSurvive
<1>8. CASE OlderBuildSaves
  BY <1>8, OlderBuildKeeps DEF OlderBuildSaves, ForeignSettingsSurvive
<1>9. CASE DamageConfig
  <2>1. SettingsInv'
    BY <1>9, AnotherWriteKeeps DEF DamageConfig
  <2> QED BY <1>9, <2>1 DEF DamageConfig, ForeignSettingsSurvive
<1>10. CASE UNCHANGED settingsVars
  <2>1. UNCHANGED <<settingsFile, form, pendingSave, running, settingsSaves, wanted, strayed, outdated>>
    BY <1>10 DEF settingsVars, foreignVars
  <2>2. Loaded' = Loaded
    BY <2>1 DEF Loaded
  <2>3. PendingIsStaged'
    <3>1. FormWith(pendingSave.roots)' = FormWith(pendingSave.roots)
      BY <2>1 DEF FormWith
    <3> QED BY <2>1, <3>1 DEF PendingIsStaged, SettingsInv
  <2>4. SettingsInv'
    BY <2>1, <2>2, <2>3 DEF SettingsInv, HoldsWhatWasSaved, RunsWhatIsLoaded, FormIsCurrent
  <2> QED BY <2>1, <2>4 DEF ForeignSettingsSurvive
<1> QED BY <1>1, <1>2, <1>3, <1>4, <1>5, <1>6, <1>7, <1>8, <1>9, <1>10 DEF SettingsNext

LEMMA SettingsImplied == ASSUME SettingsInv PROVE SettingsAreKept
<1>1. ASSUME wanted # None
      PROVE  /\ \A p \in BuiltIn : Loaded.providers[p].live = wanted[p]
             /\ \A p \in Mirrored : settingsFile.flat[p] = wanted[p]
  <2>1. settingsFile \in Settings /\ ~IsLegacy(settingsFile) /\ settingsFile \notin {None, Malformed}
    BY <1>1, SettingsAssumption DEF SettingsInv, HoldsWhatWasSaved, IsLegacy, ConfigVersion
  <2>2. Loaded = Normalized(settingsFile)
    BY <2>1 DEF Loaded
  <2>3. \A p \in DOMAIN settingsFile.providers : Loaded.providers[p] = settingsFile.providers[p]
    BY <2>1, <2>2, NormalizedKeeps
  <2> QED BY <1>1, <2>3 DEF SettingsInv, HoldsWhatWasSaved
<1> QED BY <1>1 DEF SettingsAreKept, SettingsInv, RunsWhatIsLoaded

\* Whatever an older and a newer build save in between, what was last saved in
\* Settings (set_config, then Config::normalized) is what a scan discovers for each
\* provider and in the flat fields an older build reads; an emptied list stays empty.
\* And whichever saves fail, what is watched is what the file says until another
\* writes it.
THEOREM SettingsAreKeptHolds == SettingsSpec => []SettingsAreKept
  BY SettingsInitial, SettingsStep, SettingsImplied, PTL DEF SettingsSpec

\* A save of the Settings window (preserve_backend_owned_config, commands.rs) keeps
\* all that the window was shown of what other builds keep, and each provider that
\* only they know and it was not shown; where nobody else wrote the file since the
\* window was opened, it keeps all that is in the file.  What others added since to
\* settings the window shows is lost, and the theorem says nothing of it.
THEOREM ForeignSettingsSurviveHolds == SettingsSpec => [][ForeignSettingsSurvive]_settingsVars
  BY SettingsInitial, SettingsStep, PTL DEF SettingsSpec

-----------------------------------------------------------------------------
(***************************************************************************)
(* The findings of the workflow report.                                    *)
(***************************************************************************)

\* Reports, suppressions and observations of any selections.
WorkflowSpec == WorkflowInit /\ [][WorkflowNext]_workflowVars

Changes == {"new", "persistent", "improving", "resolved"}

\* What the rule must have where, for a change of this kind to be seen.
FoundIn(state) ==
    CASE state = "new" -> {"after"} [] state = "resolved" -> {"before"} [] OTHER -> Windows

\* A change that is reported, or recorded, rests on what was seen in both windows.
EarnedFinding(f) ==
    /\ f.state \in FindingStates /\ f.revision \in Nat /\ f.grounds \in [seen : BOOLEAN, found : SUBSET Windows]
    /\ f.state \in Changes => f.grounds.seen /\ f.grounds.found = FoundIn(f.state)

EarnedRow(row) ==
    /\ row \in FindingRows
    /\ row.first <= row.last /\ row.last <= time
    /\ row.suppressed => row.state = "suppressed"
    /\ row.state \in Changes => row.grounds.seen /\ ~row.changed /\ row.grounds.found = FoundIn(row.state)

EarnedReport(report) ==
    /\ report.at \in Nat /\ report.at <= time /\ report.analyzer \in Nat
    /\ DOMAIN report.findings \subseteq Rules
    /\ \A r \in DOMAIN report.findings : EarnedFinding(report.findings[r])

\* Every recorded row and every report on view is earned.
WorkflowInv ==
    /\ findingRows \in [Rules -> FindingRows \cup {None}]
    /\ time \in Nat /\ analyzer \in Nat
    /\ \A r \in Rules : findingRows[r] # None => EarnedRow(findingRows[r])
    /\ DOMAIN reports = Views
    /\ \A v \in Views : reports[v] # None => EarnedReport(reports[v])

-----------------------------------------------------------------------------
\* What is compared is seen in full.
LEMMA CompleteIsSeen ==
    ASSUME NEW s, Complete(s)
    PROVE  Contributes(s) => s.readable /\ \A w \in Windows : s[w].calls = s[w].observed
  BY DEF Complete

LEMMA FoundCounts ==
    ASSUME NEW sessions, IsFiniteSet(sessions), NEW rule, NEW w
    PROVE  LET where == {s \in sessions : s.readable /\ rule \in s[w].rules}
           IN  /\ Cardinality(where) \in Nat
               /\ Cardinality(where) = 0 <=> ~\E s \in sessions : s.readable /\ rule \in s[w].rules
<1> DEFINE where == {s \in sessions : s.readable /\ rule \in s[w].rules}
<1>1. IsFiniteSet(where)
  BY FS_Subset
<1>2. Cardinality(where) \in Nat /\ (Cardinality(where) = 0 <=> where = {})
  BY <1>1, FS_CardinalityType, FS_EmptySet
<1> QED BY <1>2

LEMMA ComparedIsEarned ==
    ASSUME NEW sessions, IsFiniteSet(sessions), NEW covered, NEW confounded, NEW rule,
           NEW state, state = CompareFinding(Observation(sessions, covered, rule, "before"),
                                             Observation(sessions, covered, rule, "after"), confounded),
           state \in Changes
    PROVE  LET g == Grounds(sessions, covered, confounded, rule)
           IN  g.seen /\ g.found = FoundIn(state)
<1> DEFINE before == Observation(sessions, covered, rule, "before")
           after == Observation(sessions, covered, rule, "after")
           g == Grounds(sessions, covered, confounded, rule)
           In(w) == \E s \in sessions : s.readable /\ rule \in s[w].rules
<1>1. Comparable(before, after, confounded)
  BY DEF CompareFinding, Changes
<1>2. /\ before.covered <=> covered /\ \A s \in sessions : Complete(s)
      /\ before.sessions = Cardinality({s \in sessions : Uses(s, "before")})
      /\ after.sessions = Cardinality({s \in sessions : Uses(s, "after")})
      /\ before.found = Cardinality({s \in sessions : s.readable /\ rule \in s["before"].rules})
      /\ after.found = Cardinality({s \in sessions : s.readable /\ rule \in s["after"].rules})
  BY DEF Observation
<1>3. /\ before.found \in Nat /\ (before.found = 0 <=> ~In("before"))
      /\ after.found \in Nat /\ (after.found = 0 <=> ~In("after"))
  <2> HIDE DEF before, after
  <2>1. \A w \in Windows :
          LET where == {s \in sessions : s.readable /\ rule \in s[w].rules}
          IN  Cardinality(where) \in Nat /\ (Cardinality(where) = 0 <=> ~In(w))
    BY FoundCounts
  <2>2. "before" \in Windows /\ "after" \in Windows
    BY DEF Windows
  <2> HIDE DEF In
  <2> QED BY <1>2, <2>1, <2>2
<1>4. g.found = {w \in Windows : In(w)}
  BY DEF Grounds
<1>5. g.seen <=> /\ covered /\ ~confounded
                 /\ \A s \in sessions : Contributes(s) => s.readable /\ \A w \in Windows : s[w].calls = s[w].observed
                 /\ \A w \in Windows : Cardinality({s \in sessions : Uses(s, w)}) >= MinimumSessions
  BY DEF Grounds
<1>6. g.seen
  <2>1. covered /\ ~confounded /\ \A s \in sessions : Complete(s)
    BY <1>1, <1>2 DEF Comparable
  <2>2. \A s \in sessions : Contributes(s) => s.readable /\ \A w \in Windows : s[w].calls = s[w].observed
    BY <2>1, CompleteIsSeen
  <2>3. before.sessions >= MinimumSessions /\ after.sessions >= MinimumSessions
    BY <1>1 DEF Comparable
  <2>4. \A w \in Windows : Cardinality({s \in sessions : Uses(s, w)}) >= MinimumSessions
    BY <1>2, <2>3 DEF Windows
  <2> QED BY <1>5, <2>1, <2>2, <2>4
<1> HIDE DEF before, after, g, In
<1>7. state = CompareFinding(before, after, confounded)
  BY DEF before, after
<1>8. CASE before.found = 0 /\ after.found > 0
  <2>1. state = "new"
    BY <1>1, <1>7, <1>8 DEF CompareFinding
  <2> QED BY <1>3, <1>4, <1>6, <1>8, <2>1 DEF g, FoundIn, Windows
<1>9. CASE before.found > 0 /\ after.found = 0
  <2>1. state = "resolved"
    BY <1>1, <1>7, <1>9 DEF CompareFinding
  <2> QED BY <1>3, <1>4, <1>6, <1>9, <2>1 DEF g, FoundIn, Windows
<1>10. CASE before.found = 0 /\ after.found = 0
  <2>1. state = "not_applicable"
    BY <1>1, <1>7, <1>10 DEF CompareFinding
  <2> QED BY <2>1 DEF Changes
<1>11. CASE before.found > 0 /\ after.found > 0
  <2>1. state \in {"improving", "persistent"}
    BY <1>1, <1>7, <1>11 DEF CompareFinding
  <2> QED BY <1>3, <1>4, <1>6, <1>11, <2>1 DEF g, FoundIn, Windows
<1> QED BY <1>3, <1>8, <1>9, <1>10, <1>11

LEMMA FindingIsEarned ==
    ASSUME WorkflowInv, NEW sessions, IsFiniteSet(sessions), NEW covered, NEW confounded, NEW rule \in Rules
    PROVE  EarnedFinding(Finding(sessions, covered, confounded, rule))
<1> DEFINE row == findingRows[rule]
           compared == CompareFinding(Observation(sessions, covered, rule, "before"),
                                      Observation(sessions, covered, rule, "after"), confounded)
           state == IF row # None /\ row.suppressed THEN "suppressed"
                    ELSE IF row # None /\ row.analyzer # analyzer THEN "not_applicable" ELSE compared
           revision == IF row = None THEN 0 ELSE row.revision
           g == Grounds(sessions, covered, confounded, rule)
<1>1. Finding(sessions, covered, confounded, rule) = [state |-> state, revision |-> revision, grounds |-> g]
  BY DEF Finding
<1>2. compared \in FindingStates
  BY DEF CompareFinding, FindingStates
<1>3. compared \in Changes => g.seen /\ g.found = FoundIn(compared)
  BY ComparedIsEarned
<1>4. g \in [seen : BOOLEAN, found : SUBSET Windows]
  BY DEF Grounds
<1>5. revision \in Nat
  BY DEF WorkflowInv, FindingRows
<1> HIDE DEF compared, g, revision
<1>6. state \in FindingStates /\ (state \in Changes => state = compared)
  BY <1>2 DEF FindingStates, Changes
<1> HIDE DEF state
<1> QED BY <1>1, <1>3, <1>4, <1>5, <1>6 DEF EarnedFinding

LEMMA WorkflowReportKeeps ==
    ASSUME WorkflowInv, NEW v \in Views, NEW sel \in Selections, WorkflowReport(v, sel)
    PROVE  WorkflowInv' /\ findingRows' = findingRows
<1> DEFINE rules == {q \in Rules : \E s \in sel.sessions, w \in Windows : s.readable /\ q \in s[w].rules}
           shown == [r \in rules |-> Finding(sel.sessions, sel.covered, sel.confounded, r)]
           report == [at |-> time, analyzer |-> analyzer, findings |-> shown]
<1>1. reports' = [reports EXCEPT ![v] = report] /\ UNCHANGED <<findingRows, analyzer, time>>
  BY DEF WorkflowReport
<1>2. \A r \in rules : EarnedFinding(shown[r])
  BY FindingIsEarned, FindingsAssumption
<1>3. DOMAIN shown = rules /\ rules \subseteq Rules
  OBVIOUS
<1>4. report.at = time /\ report.analyzer = analyzer /\ report.findings = shown
  OBVIOUS
<1> HIDE DEF shown, report, rules
<1>5. EarnedReport(report)
  BY <1>2, <1>3, <1>4 DEF EarnedReport, WorkflowInv
<1>6. \A u \in Views : reports'[u] # None => EarnedReport(reports'[u])
  BY <1>1, <1>5 DEF WorkflowInv
<1>7. \A u \in Views : reports'[u] # None => EarnedReport(reports[u])' 
  BY <1>1, <1>6 DEF EarnedReport
<1> QED BY <1>1, <1>7 DEF WorkflowInv, EarnedRow

-----------------------------------------------------------------------------
LEMMA SuppressKeeps ==
    ASSUME WorkflowInv, NEW v \in Views, NEW rule \in Rules, NEW b \in BOOLEAN, Suppress(v, rule, b)
    PROVE  WorkflowInv' /\ FindingsMoveOn
<1> DEFINE row == findingRows[rule]
           x == IF b THEN "suppressed" ELSE "not_applicable"
           c == [row EXCEPT !.suppressed = b, !.revision = @ + 1, !.state = x]
<1>1. row # None /\ row \in FindingRows /\ EarnedRow(row) /\ reports[v] # None
  BY DEF Suppress, WorkflowInv
<1>2. x \in FindingStates /\ x \notin Changes /\ (b => x = "suppressed")
  BY DEF FindingStates, Changes
<1>3. findingRows' = [findingRows EXCEPT ![rule] = c] /\ UNCHANGED <<reports, analyzer, time>>
  BY DEF Suppress
<1> HIDE DEF x, row
<1>4. /\ c \in FindingRows /\ c.suppressed = b /\ c.revision = row.revision + 1 /\ c.state = x
      /\ c.first = row.first /\ c.last = row.last /\ c.analyzer = row.analyzer
      /\ c.grounds = row.grounds /\ c.changed = row.changed
  <2> DEFINE a == [row EXCEPT !.suppressed = b]
             d == [a EXCEPT !.revision = row.revision + 1]
             e == [d EXCEPT !.state = x]
  <2>1. c = e
    OBVIOUS
  <2>2. /\ a \in FindingRows /\ a.suppressed = b /\ a.revision = row.revision /\ a.state = row.state
        /\ a.first = row.first /\ a.last = row.last /\ a.analyzer = row.analyzer
        /\ a.grounds = row.grounds /\ a.changed = row.changed
    BY <1>1 DEF FindingRows
  <2>3. row.revision + 1 \in Nat
    BY <1>1 DEF FindingRows
  <2> HIDE DEF c, a
  <2>4. /\ d \in FindingRows /\ d.suppressed = b /\ d.revision = row.revision + 1 /\ d.state = row.state
        /\ d.first = row.first /\ d.last = row.last /\ d.analyzer = row.analyzer
        /\ d.grounds = row.grounds /\ d.changed = row.changed
    BY <2>2, <2>3 DEF FindingRows
  <2> HIDE DEF d
  <2>5. /\ e \in FindingRows /\ e.suppressed = b /\ e.revision = row.revision + 1 /\ e.state = x
        /\ e.first = row.first /\ e.last = row.last /\ e.analyzer = row.analyzer
        /\ e.grounds = row.grounds /\ e.changed = row.changed
    BY <1>2, <2>4 DEF FindingRows
  <2> HIDE DEF e
  <2> QED BY <2>1, <2>5
<1> HIDE DEF c
<1>5. EarnedRow(c)
  BY <1>1, <1>2, <1>4 DEF EarnedRow
<1>6. /\ findingRows'[rule] = c /\ \A r \in Rules \ {rule} : findingRows'[r] = findingRows[r]
      /\ findingRows' \in [Rules -> FindingRows \cup {None}]
  BY <1>3, <1>4 DEF WorkflowInv
<1>7. WorkflowInv'
  BY <1>3, <1>5, <1>6 DEF WorkflowInv, EarnedRow, EarnedReport
<1> USE DEF row
<1>8. FindingsMoveOn
  <2>1. row.revision \in Nat /\ row.last \in Nat
    BY <1>1 DEF FindingRows
  <2> QED BY <1>1, <1>4, <1>6, <2>1 DEF FindingsMoveOn
<1> QED BY <1>7, <1>8

\* A row of another analyzer says nothing any more, and is otherwise as it was.
LEMMA InvalidatedKeeps ==
    ASSUME NEW row, row # None => EarnedRow(row), NEW by
    PROVE  LET c == Invalidated(row, by)
           IN  /\ row = None => c = None
               /\ row # None => /\ EarnedRow(c) /\ c.first = row.first /\ c.last = row.last
                                /\ c.suppressed = row.suppressed /\ c.analyzer = row.analyzer
                                /\ c = row \/ c.revision = row.revision + 1
<1>1. CASE Invalidated(row, by) = row
  BY <1>1
<1>2. CASE row # None /\ row.analyzer # by /\ row.state \notin {"suppressed", "not_applicable"}
  <2> DEFINE x == IF row.suppressed THEN "suppressed" ELSE "not_applicable"
             d == [row EXCEPT !.state = x]
             c == [d EXCEPT !.revision = row.revision + 1]
  <2>1. row \in FindingRows /\ EarnedRow(row) /\ x \in FindingStates
    BY <1>2 DEF EarnedRow, FindingStates
  <2>2. Invalidated(row, by) = c
    BY <1>2 DEF Invalidated
  <2>3. /\ d \in FindingRows /\ d.suppressed = row.suppressed /\ d.revision = row.revision /\ d.state = x
        /\ d.first = row.first /\ d.last = row.last /\ d.analyzer = row.analyzer
        /\ d.grounds = row.grounds /\ d.changed = row.changed
    BY <2>1 DEF FindingRows
  <2>4. row.revision + 1 \in Nat
    BY <2>1 DEF FindingRows
  <2>5. x \notin Changes /\ (row.suppressed => x = "suppressed")
    BY DEF Changes
  <2> HIDE DEF d, x
  <2>6. /\ c \in FindingRows /\ c.suppressed = row.suppressed /\ c.revision = row.revision + 1 /\ c.state = x
        /\ c.first = row.first /\ c.last = row.last /\ c.analyzer = row.analyzer
        /\ c.grounds = row.grounds /\ c.changed = row.changed
    BY <2>3, <2>4 DEF FindingRows
  <2> HIDE DEF c
  <2> QED BY <1>2, <2>1, <2>2, <2>5, <2>6 DEF EarnedRow
<1> QED BY <1>1, <1>2 DEF Invalidated

\* What a measurement makes of a row is earned, and follows the row.
LEMMA ObservedKeeps ==
    ASSUME NEW row, NEW report, row # None => EarnedRow(row) /\ row.last <= report.at,
           report.at \in Nat, report.at <= time, time \in Nat, report.analyzer \in Nat,
           NEW finding, EarnedFinding(finding)
    PROVE  LET c == Observed(row, report, finding)
           IN  /\ EarnedRow(c)
               /\ row # None => /\ c.first = row.first /\ c.last = report.at /\ c.revision = row.revision + 1
                                /\ c.suppressed <=> row.suppressed
<1> DEFINE changed == row # None /\ row.analyzer # report.analyzer
           suppressed == KeepsSuppression(row, finding)
           first == IF row = None THEN report.at ELSE row.first
           revision == IF row = None THEN 1 ELSE row.revision + 1
           state == IF suppressed THEN "suppressed" ELSE IF changed THEN "not_applicable" ELSE finding.state
           c == [first |-> first, last |-> report.at, analyzer |-> report.analyzer, suppressed |-> suppressed,
                 revision |-> revision, state |-> state, grounds |-> finding.grounds, changed |-> changed]
<1>1. Observed(row, report, finding) = c
  BY DEF Observed
<1>2. row # None => /\ row \in FindingRows /\ row.first \in Nat /\ row.last \in Nat /\ row.revision \in Nat
                    /\ row.first <= row.last
  BY DEF EarnedRow, FindingRows
<1>3. changed \in BOOLEAN /\ suppressed \in BOOLEAN /\ (row # None => (suppressed <=> row.suppressed))
  BY DEF KeepsSuppression
<1>4. first \in Nat /\ first <= report.at /\ (row # None => first = row.first)
  BY <1>2
<1>5. revision \in Nat /\ (row # None => revision = row.revision + 1)
  BY <1>2
<1> HIDE DEF changed, suppressed, first, revision
<1>6. state \in FindingStates /\ (state \in Changes => state = finding.state /\ ~changed)
      /\ (suppressed => state = "suppressed")
  BY DEF EarnedFinding, FindingStates, Changes
<1> HIDE DEF state
<1>7. c \in FindingRows
  BY <1>3, <1>4, <1>5, <1>6 DEF FindingRows, EarnedFinding
<1>8. /\ c.first = first /\ c.last = report.at /\ c.suppressed = suppressed /\ c.revision = revision
      /\ c.state = state /\ c.grounds = finding.grounds /\ c.changed = changed
  OBVIOUS
<1> HIDE DEF c
<1>9. EarnedRow(c)
  BY <1>3, <1>4, <1>6, <1>7, <1>8 DEF EarnedRow, EarnedFinding
<1> QED BY <1>1, <1>3, <1>4, <1>5, <1>8, <1>9

LEMMA RecordMeasurementKeeps ==
    ASSUME WorkflowInv, NEW v \in Views, RecordMeasurement(v)
    PROVE  WorkflowInv' /\ FindingsMoveOn
<1> DEFINE report == reports[v]
           row(r) == Invalidated(findingRows[r], report.analyzer)
           next(r) == IF r \in DOMAIN report.findings THEN Observed(row(r), report, report.findings[r]) ELSE row(r)
<1>1. /\ EarnedReport(report) /\ NoneNewer(report)
      /\ reports' = [reports EXCEPT ![v] = None] /\ UNCHANGED <<analyzer, time>>
  BY DEF RecordMeasurement, WorkflowInv
<1>2. findingRows' = [r \in Rules |-> next(r)]
  BY DEF RecordMeasurement
<1>3. ASSUME NEW r \in Rules
      PROVE  /\ next(r) # None => EarnedRow(next(r))
             /\ findingRows[r] # None =>
                  /\ next(r).first = findingRows[r].first /\ next(r).last >= findingRows[r].last
                  /\ next(r).suppressed = findingRows[r].suppressed
                  /\ next(r) = findingRows[r] \/ next(r).revision > findingRows[r].revision
             /\ next(r) \in FindingRows \cup {None}
  <2> DEFINE old == findingRows[r]
             new == row(r)
  <2>1. old # None => EarnedRow(old) /\ old \in FindingRows /\ new \in FindingRows
    BY InvalidatedKeeps DEF WorkflowInv, EarnedRow
  <2>2. old # None => /\ EarnedRow(new) /\ new.first = old.first /\ new.last = old.last
                      /\ new.suppressed = old.suppressed
                      /\ new = old \/ new.revision = old.revision + 1
    BY <2>1, InvalidatedKeeps
  <2>3. old = None => new = None
    BY <2>1, InvalidatedKeeps
  <2>4. old # None => /\ old.revision \in Nat /\ new.revision \in Nat /\ old.last \in Nat /\ new.last \in Nat
                      /\ old.suppressed \in BOOLEAN /\ new.suppressed \in BOOLEAN /\ new # None
    BY <2>1, FindingsAssumption DEF FindingRows
  <2> HIDE DEF old, new
  <2>5. CASE r \in DOMAIN report.findings
    <3> DEFINE c == Observed(new, report, report.findings[r])
    <3>1. old # None => old.last <= report.at
      BY <1>1, <2>5 DEF NoneNewer, old
    <3>2. new # None => EarnedRow(new) /\ new.last <= report.at
      BY <2>2, <2>3, <3>1
    <3>3. /\ report.at \in Nat /\ report.at <= time /\ report.analyzer \in Nat
          /\ EarnedFinding(report.findings[r]) /\ time \in Nat
      BY <1>1, <2>5 DEF EarnedReport, WorkflowInv
    <3>4. /\ EarnedRow(c)
          /\ new # None => /\ c.first = new.first /\ c.last = report.at /\ c.revision = new.revision + 1
                           /\ c.suppressed <=> new.suppressed
      <4> DEFINE rep == report
                 finding == report.findings[r]
      <4>1. rep.at \in Nat /\ rep.at <= time /\ rep.analyzer \in Nat /\ EarnedFinding(finding)
            /\ (new # None => EarnedRow(new) /\ new.last <= rep.at) /\ time \in Nat
        BY <3>2, <3>3
      <4> HIDE DEF rep, finding
      <4>2. /\ EarnedRow(Observed(new, rep, finding))
            /\ new # None => /\ Observed(new, rep, finding).first = new.first
                             /\ Observed(new, rep, finding).last = rep.at
                             /\ Observed(new, rep, finding).revision = new.revision + 1
                             /\ Observed(new, rep, finding).suppressed <=> new.suppressed
        BY <4>1, ObservedKeeps
      <4> QED BY <4>2 DEF rep, finding
    <3>5. next(r) = c
      BY <2>5 DEF new
    <3>6. c \in FindingRows /\ c.suppressed \in BOOLEAN
      BY <3>4 DEF EarnedRow, FindingRows
    <3> HIDE DEF next, c
    <3> QED BY <2>2, <2>4, <3>1, <3>3, <3>4, <3>5, <3>6 DEF old
  <2>6. CASE r \notin DOMAIN report.findings
    <3>1. next(r) = new
      BY <2>6 DEF new
    <3> HIDE DEF next
    <3> QED BY <2>1, <2>2, <2>3, <2>4, <3>1 DEF old
  <2> QED BY <2>5, <2>6
<1> HIDE DEF next
<1>4. WorkflowInv'
  <2>1. \A r \in Rules : findingRows'[r] = next(r)
    BY <1>2
  <2>2. findingRows' \in [Rules -> FindingRows \cup {None}]
    BY <1>2, <1>3
  <2>3. \A r \in Rules : findingRows'[r] # None => EarnedRow(findingRows'[r])
    BY <1>3, <2>1
  <2> QED BY <1>1, <2>2, <2>3 DEF WorkflowInv, EarnedRow, EarnedReport
<1>5. FindingsMoveOn
  BY <1>2, <1>3 DEF FindingsMoveOn
<1> QED BY <1>4, <1>5

LEMMA WorkflowStep ==
    ASSUME WorkflowInv, [WorkflowNext]_workflowVars PROVE WorkflowInv' /\ FindingsMoveOn
<1>1. ASSUME NEW v \in Views, NEW sel \in Selections, WorkflowReport(v, sel)
      PROVE  WorkflowInv' /\ FindingsMoveOn
  BY <1>1, WorkflowReportKeeps DEF FindingsMoveOn
<1>2. ASSUME NEW v \in Views, RecordMeasurement(v) PROVE WorkflowInv' /\ FindingsMoveOn
  BY <1>2, RecordMeasurementKeeps
<1>3. ASSUME NEW v \in Views, NEW r \in Rules, NEW b \in BOOLEAN, Suppress(v, r, b)
      PROVE  WorkflowInv' /\ FindingsMoveOn
  BY <1>3, SuppressKeeps
<1>4. CASE Upgrade
  <2>1. analyzer' \in Nat
    BY <1>4 DEF Upgrade, WorkflowInv
  <2> QED BY <1>4, <2>1 DEF Upgrade, WorkflowInv, EarnedRow, FindingsMoveOn
<1>5. CASE TimePasses
  <2>1. time' = time + 1 /\ UNCHANGED <<findingRows, reports, analyzer>> /\ time \in Nat
    BY <1>5 DEF TimePasses, WorkflowInv
  <2>2. \A r \in Rules : findingRows[r] # None => findingRows[r].last \in Nat
    BY DEF WorkflowInv, EarnedRow, FindingRows
  <2> QED BY <2>1, <2>2 DEF WorkflowInv, EarnedRow, EarnedReport, FindingsMoveOn
<1>6. CASE UNCHANGED workflowVars
  BY <1>6 DEF workflowVars, WorkflowInv, EarnedRow, EarnedReport, FindingsMoveOn
<1> QED BY <1>1, <1>2, <1>3, <1>4, <1>5, <1>6 DEF WorkflowNext

LEMMA WorkflowInitial == ASSUME WorkflowInit PROVE WorkflowInv
  BY DEF WorkflowInit, WorkflowInv

LEMMA WorkflowImplied == ASSUME WorkflowInv PROVE FindingsAreEarned
<1> SUFFICES ASSUME NEW r \in Rules, findingRows[r] # None
             PROVE  LET row == findingRows[r] IN
                    /\ row.first <= row.last /\ row.last <= time
                    /\ row.suppressed => row.state = "suppressed"
                    /\ row.state \in {"new", "persistent", "improving", "resolved"} =>
                          /\ row.grounds.seen /\ ~row.changed
                          /\ row.grounds.found = CASE row.state = "new" -> {"after"}
                                                   [] row.state = "resolved" -> {"before"}
                                                   [] OTHER -> Windows
  BY DEF FindingsAreEarned
<1> QED BY DEF WorkflowInv, EarnedRow, Changes, FoundIn

\* For any selections of sessions and any order of reports, measurements, upgrades
\* and suppressions (workflow_lifecycle.rs, history_workflow.rs), a recorded row
\* speaks of a change only when both windows were seen in full and nothing else
\* changed, and a suppressed one says nothing.
THEOREM FindingsAreEarnedHolds == WorkflowSpec => []FindingsAreEarned
  BY WorkflowInitial, WorkflowStep, WorkflowImplied, PTL DEF WorkflowSpec

\* A recorded row is only moved on (history_workflow.rs): a late or repeated
\* measurement changes nothing, every change has a higher revision, and only the
\* user starts or ends a suppression.
THEOREM FindingsMoveOnHolds == WorkflowSpec => [][FindingsMoveOn]_workflowVars
  BY WorkflowInitial, WorkflowStep, PTL DEF WorkflowSpec

-----------------------------------------------------------------------------
(***************************************************************************)
(* The accounting export.                                                  *)
(***************************************************************************)

\* An export beside the writers of the ledger, the rates and the coverage.
ExportSpec == ExportInit /\ [][ExportNext]_exportVars

\* The rows that were reviewed are the ones there are.
RowsAreTrue ==
    /\ job.content.row = RowsOf(job.kind, job.keys).row
    /\ job.content.priced = RowsOf(job.kind, job.keys).priced

Locked == {"writing", "persisting"}

\* An export is written under the locks it took, from the rows that were reviewed.
ExportInv ==
    /\ job # None =>
        /\ DOMAIN job = {"at", "kind", "keys", "review", "content"}
        /\ job.at \in {"publishing"} \cup Locked /\ Priced(job.kind) => ratesHeld
        /\ job.at \in Locked => /\ txHeld /\ ProveAccounting(job.kind, job.keys) /\ RowsAreTrue
                                /\ Priced(job.kind) => saves = job.review.saves
    /\ totals # None => DOMAIN totals = {"at", "kind", "keys", "rows"}

-----------------------------------------------------------------------------
LEMMA ExportInitial == ASSUME ExportInit PROVE ExportInv
  BY DEF ExportInit, ExportInv

\* What the open export rests on.
LEMMA UntouchedExport ==
    ASSUME ExportInv, UNCHANGED <<job, ratesHeld, txHeld>>,
           job # None /\ job.at \in Locked => UNCHANGED <<ledger, pending>>,
           ratesHeld => UNCHANGED <<card, saves>>
    PROVE  job' # None =>
              /\ DOMAIN job' = {"at", "kind", "keys", "review", "content"}
              /\ job'.at \in {"publishing"} \cup Locked /\ Priced(job'.kind) => ratesHeld'
              /\ job'.at \in Locked => /\ txHeld' /\ ProveAccounting(job.kind, job.keys)' /\ RowsAreTrue'
                                       /\ Priced(job'.kind) => saves' = job'.review.saves
<1> SUFFICES ASSUME job # None, job.at \in Locked
             PROVE  /\ txHeld' /\ ProveAccounting(job.kind, job.keys)' /\ RowsAreTrue'
                    /\ Priced(job'.kind) => saves' = job'.review.saves
  BY DEF ExportInv
<1>1. ledger' = ledger /\ pending' = pending /\ job' = job
  OBVIOUS
<1>2. ProveAccounting(job.kind, job.keys)'
  BY <1>1 DEF ExportInv, ProveAccounting, Ambiguous, Uncertain
<1>3. Priced(job.kind) => card' = card /\ saves' = saves
  BY DEF ExportInv
<1>4. RowsOf(job.kind, job.keys)'.row = RowsOf(job.kind, job.keys).row
  BY <1>1 DEF RowsOf
<1>5. RowsOf(job.kind, job.keys)'.priced = RowsOf(job.kind, job.keys).priced
  BY <1>1, <1>3 DEF RowsOf
<1>6. RowsAreTrue'
  BY <1>1, <1>4, <1>5 DEF ExportInv, RowsAreTrue
<1> QED BY <1>1, <1>2, <1>3, <1>6 DEF ExportInv

\* Steps that leave the export, the file and what is shown alone.
LEMMA SurroundingsKeep ==
    ASSUME ExportInv, UNCHANGED <<job, ratesHeld, txHeld, exported, totals>>,
           txHeld => UNCHANGED <<ledger, pending>>, ratesHeld => UNCHANGED <<card, saves>>
    PROVE  ExportInv' /\ ExportsAreTrue
<1>1. job # None /\ job.at \in Locked => UNCHANGED <<ledger, pending>>
  BY DEF ExportInv
<1> QED BY <1>1, UntouchedExport DEF ExportInv, ExportsAreTrue, TotalsAreTrue

\* Steps of what is shown.
LEMMA TotalsKeep ==
    ASSUME ExportInv, NEW kind, NEW keys, AskTotals(kind, keys) \/ ReadTotals \/ ShowTotals
    PROVE  ExportInv' /\ ExportsAreTrue
<1>1. UNCHANGED <<ledgerVars, coverage, cardVars, clock, exportOnly>>
  BY DEF AskTotals, ReadTotals, ShowTotals
<1>2. UNCHANGED <<job, ratesHeld, txHeld, exported, ledger, pending, card, saves, staleMarks>>
  BY <1>1 DEF exportOnly, ledgerVars, cardVars
<1>3. (totals' # None => DOMAIN totals' = {"at", "kind", "keys", "rows"}) /\ TotalsAreTrue
  <2>1. CASE AskTotals(kind, keys)
    <3>1. totals'.at = "asked" /\ DOMAIN totals' = {"at", "kind", "keys", "rows"}
      BY <2>1 DEF AskTotals
    <3> QED BY <3>1 DEF TotalsAreTrue
  <2>2. CASE ReadTotals
    <3>1. CASE ProveAccounting(totals.kind, totals.keys)
      <4> DEFINE rows == [s \in totals.keys |-> ledger[s].events]
      <4>1. totals' = [totals EXCEPT !.at = "read", !.rows = rows] /\ DOMAIN totals = {"at", "kind", "keys", "rows"}
        BY <2>2, <3>1 DEF ReadTotals, ExportInv
      <4> HIDE DEF rows
      <4>2. totals'.at = "read" /\ DOMAIN totals' = {"at", "kind", "keys", "rows"}
        BY <4>1
      <4> QED BY <3>1, <4>2 DEF TotalsAreTrue, ProveAccounting, CountsOnce
    <3>2. CASE ~ProveAccounting(totals.kind, totals.keys)
      BY <2>2, <3>2 DEF ReadTotals, TotalsAreTrue
    <3> QED BY <3>1, <3>2
  <2>3. CASE ShowTotals
    <3>1. CASE StillNotStale(totals.keys)
      <4>1. totals' = [totals EXCEPT !.at = "shown"] /\ DOMAIN totals = {"at", "kind", "keys", "rows"}
        BY <2>3, <3>1 DEF ShowTotals, ExportInv
      <4>2. totals'.at = "shown" /\ DOMAIN totals' = {"at", "kind", "keys", "rows"}
        BY <4>1
      <4>3. \A s \in totals.keys : <<s, "failed">> \notin staleMarks
        BY <3>1 DEF StillNotStale, NotStale
      <4> QED BY <4>2, <4>3 DEF TotalsAreTrue
    <3>2. CASE ~StillNotStale(totals.keys)
      BY <2>3, <3>2 DEF ShowTotals, TotalsAreTrue
    <3> QED BY <3>1, <3>2
  <2> QED BY <2>1, <2>2, <2>3
<1>4. exported' = exported
  BY <1>2
<1> QED BY <1>2, <1>3, <1>4, UntouchedExport DEF ExportInv, ExportsAreTrue

-----------------------------------------------------------------------------
\* The export itself.
JobOnly == UNCHANGED <<ledgerVars, coverage, cardVars, clock, exported, totals>>

\* A step of an export that is not written yet.
LEMMA EarlyStepsKeep ==
    ASSUME ExportInv, JobOnly,
           job' # None => /\ DOMAIN job' = {"at", "kind", "keys", "review", "content"}
                          /\ job'.at \in {"publishing"} \cup Locked /\ Priced(job'.kind) => ratesHeld'
                          /\ job'.at \notin Locked
    PROVE  ExportInv' /\ ExportsAreTrue
  BY DEF ExportInv, JobOnly, ExportsAreTrue, TotalsAreTrue

LEMMA PrepareKeeps ==
    ASSUME ExportInv, NEW keys, NEW kind, Prepare(kind, keys) \/ AskUnpriced(kind, keys)
    PROVE  ExportInv' /\ ExportsAreTrue
<1>1. CASE Prepare(kind, keys)
  <2>1. /\ DOMAIN job' = {"at", "kind", "keys", "review", "content"} /\ job'.at = "reading" /\ JobOnly
    BY <1>1 DEF Prepare, JobOnly
  <2> QED BY <2>1, EarlyStepsKeep DEF Locked
<1>2. CASE AskUnpriced(kind, keys)
  <2> DEFINE review == [at |-> clock, saves |-> None]
             content == RowsOf(kind, keys)
  <2>1. job' = [at |-> "picking", kind |-> kind, keys |-> keys, review |-> review, content |-> content] /\ JobOnly
    BY <1>2 DEF AskUnpriced, JobOnly
  <2> HIDE DEF review, content
  <2>2. DOMAIN job' = {"at", "kind", "keys", "review", "content"} /\ job'.at = "picking"
    BY <2>1
  <2> QED BY <2>1, <2>2, EarlyStepsKeep DEF Locked
<1> QED BY <1>1, <1>2

LEMMA ReadRowsKeeps == ASSUME ExportInv, ReadRows PROVE ExportInv' /\ ExportsAreTrue
<1>1. JobOnly
  BY DEF ReadRows, JobOnly
<1>2. CASE ProveAccounting(job.kind, job.keys)
  <2> DEFINE review == [at |-> clock, saves |-> saves]
             content == RowsOf(job.kind, job.keys)
             a == [job EXCEPT !.at = "read", !.review = review]
             b == [a EXCEPT !.content = content]
  <2>1. job' = b /\ DOMAIN job = {"at", "kind", "keys", "review", "content"}
    BY <1>2 DEF ReadRows, ExportInv
  <2> HIDE DEF review, content
  <2>2. DOMAIN a = {"at", "kind", "keys", "review", "content"} /\ a.at = "read"
    BY <2>1
  <2> HIDE DEF a
  <2>3. DOMAIN b = {"at", "kind", "keys", "review", "content"} /\ b.at = "read"
    BY <2>2
  <2> QED BY <1>1, <2>1, <2>3, EarlyStepsKeep DEF Locked
<1>3. CASE ~ProveAccounting(job.kind, job.keys)
  BY <1>1, <1>3, EarlyStepsKeep DEF ReadRows
<1> QED BY <1>2, <1>3

LEMMA ReviewedKeeps == ASSUME ExportInv, Reviewed PROVE ExportInv' /\ ExportsAreTrue
<1>1. JobOnly
  BY DEF Reviewed, JobOnly
<1>2. job' # None => DOMAIN job' = {"at", "kind", "keys", "review", "content"} /\ job'.at = "picking"
  <2>1. DOMAIN job = {"at", "kind", "keys", "review", "content"}
    BY DEF Reviewed, ExportInv
  <2> QED BY <2>1 DEF Reviewed
<1> QED BY <1>1, <1>2, EarlyStepsKeep DEF Locked

LEMMA PickedKeeps == ASSUME ExportInv, Picked PROVE ExportInv' /\ ExportsAreTrue
<1>1. JobOnly
  BY DEF Picked, JobOnly
<1>2. CASE job' = [job EXCEPT !.at = "publishing"]
  <2>1. DOMAIN job = {"at", "kind", "keys", "review", "content"}
    BY DEF Picked, ExportInv
  <2>2. /\ DOMAIN job' = {"at", "kind", "keys", "review", "content"}
        /\ job'.at = "publishing" /\ job'.kind = job.kind
    BY <1>2, <2>1
  <2>3. job' # None /\ Priced(job.kind) => ratesHeld'
    BY DEF Picked
  <2> QED BY <1>1, <2>2, <2>3, EarlyStepsKeep DEF Locked
<1>3. CASE job' = None
  BY <1>1, <1>3, EarlyStepsKeep
<1> QED BY <1>2, <1>3 DEF Picked

LEMMA BeginPublicationKeeps == ASSUME ExportInv, BeginPublication PROVE ExportInv' /\ ExportsAreTrue
<1>1. JobOnly /\ job # None /\ job.at = "publishing"
  BY DEF BeginPublication, JobOnly
<1>2. CASE InTime /\ StillTrue
  <2>1. DOMAIN job = {"at", "kind", "keys", "review", "content"}
    BY <1>1 DEF ExportInv
  <2>2. /\ job' = [job EXCEPT !.at = "writing"] /\ txHeld' = TRUE /\ ratesHeld' = ratesHeld
    BY <1>2 DEF BeginPublication, TakesWriteLock
  <2>3. /\ DOMAIN job' = {"at", "kind", "keys", "review", "content"} /\ job'.kind = job.kind
        /\ job'.keys = job.keys /\ job'.content = job.content /\ job'.review = job.review /\ job'.at = "writing"
    BY <2>1, <2>2
  <2>4. UNCHANGED <<ledger, pending, card, saves, coverage>>
    BY <1>1 DEF JobOnly, ledgerVars, cardVars
  <2>5. ProveAccounting(job.kind, job.keys)' 
    <3>1. ProveAccounting(job.kind, job.keys)
      BY <1>2 DEF StillTrue
    <3> QED BY <2>3, <2>4, <3>1 DEF ProveAccounting, Ambiguous, Uncertain
  <2>6. RowsAreTrue'
    <3>1. job.content = RowsOf(job.kind, job.keys)
      BY <1>2 DEF StillTrue
    <3>2. RowsOf(job.kind, job.keys)' = RowsOf(job.kind, job.keys)
      BY <2>3, <2>4 DEF RowsOf
    <3> QED BY <2>3, <3>1, <3>2 DEF RowsAreTrue
  <2>7. Priced(job.kind) => ratesHeld /\ saves = job.review.saves
    BY <1>1, <1>2 DEF ExportInv, StillTrue, Authority
  <2>8. ExportInv'
    BY <1>1, <2>2, <2>3, <2>4, <2>5, <2>6, <2>7 DEF ExportInv, JobOnly, Locked
  <2>9. ExportsAreTrue
    BY <1>1 DEF JobOnly, ExportsAreTrue, TotalsAreTrue
  <2> QED BY <2>8, <2>9
<1>3. CASE ~(InTime /\ StillTrue)
  BY <1>1, <1>3, EarlyStepsKeep DEF BeginPublication
<1> QED BY <1>2, <1>3

LEMMA LookAgainKeeps == ASSUME ExportInv, LookAgain PROVE ExportInv' /\ ExportsAreTrue
<1>1. JobOnly /\ job # None /\ job.at = "writing" /\ DOMAIN job = {"at", "kind", "keys", "review", "content"}
  BY DEF LookAgain, JobOnly, ExportInv
<1>2. CASE job' = [job EXCEPT !.at = "persisting"] /\ UNCHANGED <<ratesHeld, txHeld>>
  <2>1. /\ DOMAIN job' = {"at", "kind", "keys", "review", "content"} /\ job'.kind = job.kind
        /\ job'.keys = job.keys /\ job'.content = job.content /\ job'.review = job.review /\ job'.at = "persisting"
    BY <1>1, <1>2
  <2>2. UNCHANGED <<ledger, pending, card, saves, totals, exported>>
    BY <1>1 DEF JobOnly, ledgerVars, cardVars
  <2>3. /\ txHeld /\ ProveAccounting(job.kind, job.keys) /\ RowsAreTrue
        /\ Priced(job.kind) => ratesHeld /\ saves = job.review.saves
    BY <1>1 DEF ExportInv, Locked
  <2>4. ProveAccounting(job.kind, job.keys)'
    BY <2>1, <2>2, <2>3 DEF ProveAccounting, Ambiguous, Uncertain
  <2>5. RowsAreTrue'
    <3>1. RowsOf(job.kind, job.keys)'.row = RowsOf(job.kind, job.keys).row
      BY <2>1, <2>2 DEF RowsOf
    <3>2. RowsOf(job.kind, job.keys)'.priced = RowsOf(job.kind, job.keys).priced
      BY <2>1, <2>2 DEF RowsOf
    <3> QED BY <2>1, <2>3, <3>1, <3>2 DEF RowsAreTrue
  <2>6. ExportInv'
    BY <1>2, <2>1, <2>2, <2>3, <2>4, <2>5 DEF ExportInv
  <2> QED BY <2>2, <2>6 DEF ExportsAreTrue, TotalsAreTrue
<1>3. CASE job' = None
  BY <1>1, <1>3, EarlyStepsKeep
<1> QED BY <1>2, <1>3 DEF LookAgain

LEMMA PersistExportKeeps == ASSUME ExportInv, PersistExport PROVE ExportInv' /\ ExportsAreTrue
<1>1. /\ job # None /\ job.at = "persisting" /\ job' = None
      /\ UNCHANGED <<ledgerVars, coverage, cardVars, clock, totals>>
  BY DEF PersistExport
<1>2. ExportInv'
  BY <1>1 DEF ExportInv
<1>3. ASSUME exported' # exported PROVE LET e == exported' IN
        /\ e.content = job.content
        /\ \A s \in e.keys : ledger[s] # None
        /\ e.content.row = RowsOf(e.kind, e.keys).row
        /\ e.content.priced = RowsOf(e.kind, e.keys).priced
        /\ CountsOnce(e.kind, e.keys)
        /\ Priced(e.kind) => saves = job.review.saves
  <2>1. exported'.kind = job.kind /\ exported'.keys = job.keys /\ exported'.content = job.content
    BY <1>3 DEF PersistExport
  <2>2. ProveAccounting(job.kind, job.keys) /\ RowsAreTrue /\ (Priced(job.kind) => saves = job.review.saves)
    BY <1>1 DEF ExportInv, Locked
  <2> QED BY <2>1, <2>2 DEF ProveAccounting, CountsOnce, RowsAreTrue
<1>4. TotalsAreTrue
  BY <1>1 DEF TotalsAreTrue
<1> QED BY <1>2, <1>3, <1>4 DEF ExportsAreTrue

-----------------------------------------------------------------------------
LEMMA WritersKeep ==
    ASSUME ExportInv, NEW s \in Ledgers,
           \/ \E events \in SUBSET Events, late \in BOOLEAN : StoreSession(s, events, late)
           \/ StoreFails(s) \/ SupersedeSession(s) \/ Purged(s)
    PROVE  ExportInv' /\ ExportsAreTrue
<1>1. UNCHANGED <<job, ratesHeld, txHeld, exported, totals>> /\ UNCHANGED <<card, saves>>
  BY DEF StoreSession, StoreFails, SupersedeSession, Purged, cardVars
<1>2. txHeld => UNCHANGED <<ledger, pending>>
  BY DEF StoreSession, StoreFails, SupersedeSession, Purged, Stored
<1> QED BY <1>1, <1>2, SurroundingsKeep

LEMMA SaveRatesKeeps ==
    ASSUME ExportInv, NEW c \in Cards, SaveRates(c) PROVE ExportInv' /\ ExportsAreTrue
<1>1. UNCHANGED <<job, ratesHeld, txHeld, exported, totals>> /\ UNCHANGED <<ledger, pending>>
  BY DEF SaveRates, ledgerVars
<1>2. ratesHeld => UNCHANGED <<card, saves>>
  BY DEF SaveRates
<1> QED BY <1>1, <1>2, SurroundingsKeep

LEMMA ExportStep == ASSUME ExportInv, [ExportNext]_exportVars PROVE ExportInv' /\ ExportsAreTrue
<1>1. ASSUME NEW keys \in (SUBSET Ledgers) \ {{}}, NEW kind \in {"sessions", "dated"}, AskTotals(kind, keys)
      PROVE  ExportInv' /\ ExportsAreTrue
  BY <1>1, TotalsKeep
<1>2. ASSUME NEW keys \in (SUBSET Ledgers) \ {{}}, NEW kind \in {"sessions", "dated"}, Prepare(kind, keys)
      PROVE  ExportInv' /\ ExportsAreTrue
  BY <1>2, PrepareKeeps
<1>3. ASSUME NEW keys \in (SUBSET Ledgers) \ {{}}, NEW kind \in {"activity", "tools"}, AskUnpriced(kind, keys)
      PROVE ExportInv' /\ ExportsAreTrue
  BY <1>3, PrepareKeeps
<1>4. CASE ReadTotals \/ ShowTotals
  BY <1>4, TotalsKeep
<1>5. CASE ReadRows
  BY <1>5, ReadRowsKeeps
<1>6. CASE Reviewed
  BY <1>6, ReviewedKeeps
<1>7. CASE Picked
  BY <1>7, PickedKeeps
<1>8. CASE BeginPublication
  BY <1>8, BeginPublicationKeeps
<1>9. CASE LookAgain \/ PersistExport
  BY <1>9, LookAgainKeeps, PersistExportKeeps
<1>10. ASSUME NEW s \in Ledgers,
              \/ \E events \in SUBSET Events, late \in BOOLEAN : StoreSession(s, events, late)
              \/ StoreFails(s) \/ SupersedeSession(s) \/ Purged(s)
       PROVE  ExportInv' /\ ExportsAreTrue
  BY <1>10, WritersKeep
<1>11. CASE MarkDeferred \/ RebuildRows
  <2>1. UNCHANGED <<job, ratesHeld, txHeld, exported, totals>> /\ UNCHANGED <<card, saves>>
    BY <1>11 DEF MarkDeferred, RebuildRows, cardVars
  <2>2. txHeld => UNCHANGED <<ledger, pending>>
    BY <1>11 DEF MarkDeferred, RebuildRows
  <2> QED BY <2>1, <2>2, SurroundingsKeep
<1>12. CASE CoverageChanges \/ Tick \/ UNCHANGED exportVars
  <2>1. UNCHANGED <<job, ratesHeld, txHeld, exported, totals>> /\ UNCHANGED <<ledger, pending, card, saves>>
    BY <1>12 DEF CoverageChanges, Tick, ledgerVars, cardVars, exportVars
  <2> QED BY <2>1, SurroundingsKeep
<1>13. ASSUME NEW c \in Cards, SaveRates(c) PROVE ExportInv' /\ ExportsAreTrue
  BY <1>13, SaveRatesKeeps
<1> QED BY <1>1, <1>2, <1>3, <1>4, <1>5, <1>6, <1>7, <1>8, <1>9, <1>10, <1>11, <1>12, <1>13 DEF ExportNext

\* Whatever is stored, replaced, purged, rebuilt or priced anew between the review of
\* an export and its publication (history_accounting_export.rs), what is written is
\* what was reviewed and still true of the ledger then, under the card of the review;
\* and the totals of the desktop are shown only of a ledger without ambiguity.
THEOREM ExportsAreTrueHolds == ExportSpec => [][ExportsAreTrue]_exportVars
  BY ExportInitial, ExportStep, PTL DEF ExportSpec

-----------------------------------------------------------------------------
(***************************************************************************)
(* Composed.  A behaviour of MCSurfaces has one subject; here without the  *)
(* bounds of its instance.                                                 *)
(***************************************************************************)

\* The subjects whose steps the property is about, with their variables.
SteppedVars == <<exportVars, setupVars, workflowVars, settingsVars>>
SteppedInv == ExportInv /\ SetupInv /\ WorkflowInv /\ SettingsInv

SteppedInit == ExportInit /\ SetupInit /\ WorkflowInit /\ SettingsInit

\* A step of the subject, of any size; the other subjects are free to do anything.
SteppedNext ==
    \/ subject = "export" /\ ExportNext /\ Only("export")
    \/ subject = "setup" /\ SetupNext /\ Only("setup")
    \/ subject = "workflow" /\ WorkflowNext /\ Only("workflow")
    \/ subject = "settings" /\ SettingsNext /\ Only("settings")
    \/ /\ subject \notin {"export", "setup", "workflow", "settings"}
       /\ UNCHANGED <<SteppedVars, subject>>

SteppedSpec == SteppedInit /\ [][SteppedNext]_surfaceVars

\* The instance that is model-checked is one of these.
LEMMA InstanceIsStepped == MCSpec => SteppedSpec
<1>1. MCInit => SteppedInit
  BY DEF MCInit, SteppedInit
<1>2. [MCNext]_surfaceVars => [SteppedNext]_surfaceVars
  <2> SUFFICES ASSUME [MCNext]_surfaceVars PROVE [SteppedNext]_surfaceVars
    OBVIOUS
  <2>1. CASE subject \in {"export", "setup", "workflow", "settings"}
    BY <2>1 DEF MCNext, SteppedNext, Only
  <2>2. CASE subject \notin {"export", "setup", "workflow", "settings"} /\ MCNext
    <3>1. PICK s \in Subjects \ {"export", "setup", "workflow", "settings"} : subject = s /\ Only(s)
      BY <2>2 DEF MCNext, Subjects
    <3> QED BY <2>2, <3>1 DEF SteppedNext, SteppedVars, Only
  <2> QED BY <2>1, <2>2
<1> QED BY <1>1, <1>2, PTL DEF MCSpec, SteppedSpec

LEMMA SteppedStep ==
    ASSUME SteppedInv, [SteppedNext]_surfaceVars
    PROVE  /\ SteppedInv'
           /\ CASE subject = "export" -> ExportsAreTrue
                [] subject = "setup" -> OnlyTheOwnEntryChanges
                [] subject = "workflow" -> FindingsMoveOn
                [] subject = "settings" -> ForeignSettingsSurvive
                [] OTHER -> TRUE
<1>1. CASE subject = "export" /\ ExportNext /\ Only("export")
  <2>1. ExportInv' /\ ExportsAreTrue
    BY <1>1, ExportStep DEF SteppedInv
  <2>2. SetupInv' /\ WorkflowInv' /\ SettingsInv'
    BY <1>1, SetupStep, WorkflowStep, SettingsStep DEF SteppedInv, Only
  <2> QED BY <1>1, <2>1, <2>2 DEF SteppedInv
<1>2. CASE subject = "setup" /\ SetupNext /\ Only("setup")
  <2>1. SetupInv' /\ OnlyTheOwnEntryChanges
    BY <1>2, SetupStep DEF SteppedInv
  <2>2. ExportInv' /\ WorkflowInv' /\ SettingsInv'
    BY <1>2, ExportStep, WorkflowStep, SettingsStep DEF SteppedInv, Only
  <2> QED BY <1>2, <2>1, <2>2 DEF SteppedInv
<1>3. CASE subject = "workflow" /\ WorkflowNext /\ Only("workflow")
  <2>1. WorkflowInv' /\ FindingsMoveOn
    BY <1>3, WorkflowStep DEF SteppedInv
  <2>2. ExportInv' /\ SetupInv' /\ SettingsInv'
    BY <1>3, ExportStep, SetupStep, SettingsStep DEF SteppedInv, Only
  <2> QED BY <1>3, <2>1, <2>2 DEF SteppedInv
<1>4. CASE subject = "settings" /\ SettingsNext /\ Only("settings")
  <2>1. SettingsInv' /\ ForeignSettingsSurvive
    BY <1>4, SettingsStep DEF SteppedInv
  <2>2. ExportInv' /\ SetupInv' /\ WorkflowInv'
    BY <1>4, ExportStep, SetupStep, WorkflowStep DEF SteppedInv, Only
  <2> QED BY <1>4, <2>1, <2>2 DEF SteppedInv
<1>5. CASE UNCHANGED <<SteppedVars, subject>>
  <2>1. ExportInv' /\ ExportsAreTrue
    BY <1>5, ExportStep DEF SteppedInv, SteppedVars
  <2>2. SetupInv' /\ OnlyTheOwnEntryChanges
    BY <1>5, SetupStep DEF SteppedInv, SteppedVars
  <2>3. WorkflowInv' /\ FindingsMoveOn
    BY <1>5, WorkflowStep DEF SteppedInv, SteppedVars
  <2>4. SettingsInv' /\ ForeignSettingsSurvive
    BY <1>5, SettingsStep DEF SteppedInv, SteppedVars
  <2> QED BY <2>1, <2>2, <2>3, <2>4 DEF SteppedInv
<1>6. UNCHANGED surfaceVars => UNCHANGED <<SteppedVars, subject>>
  BY DEF surfaceVars, SteppedVars
<1> QED BY <1>1, <1>2, <1>3, <1>4, <1>5, <1>6 DEF SteppedNext

\* What a step of each of these subjects may do to an export, to a client's
\* configuration, to what is recorded of a finding and to the settings of other
\* builds holds for every value of their constants, without the bounds of the run;
\* and so of the instance that the run checks.
THEOREM SurfaceStepsAreSoundHolds ==
    /\ SteppedSpec => SurfaceStepsAreSound
    /\ MCSpec => SurfaceStepsAreSound
<1>1. SteppedInit => SteppedInv
  BY ExportInitial, SetupInitial, WorkflowInitial, SettingsInitial DEF SteppedInit, SteppedInv
<1>2. SteppedSpec => SurfaceStepsAreSound
  BY <1>1, SteppedStep, PTL DEF SteppedSpec, SurfaceStepsAreSound
<1> QED BY <1>2, InstanceIsStepped, PTL
=============================================================================
