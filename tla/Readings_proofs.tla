---------------------------- MODULE Readings_proofs ----------------------------
(***************************************************************************)
(* Proofs about what is read of quotas, status pages and transcripts, for  *)
(* any number of instances, accounts, sessions, requests and scans.        *)
(*                                                                         *)
(* QuotaConsent: what an instance holds in memory goes back to the consent *)
(* file it last read (durable_file), not to the disk, which other          *)
(* instances change at any time.  IInv says so of the runtime, of the      *)
(* request under way and of the save that holds the mutex; a load that     *)
(* finds durable_file unlike the disk drops all of it, and a save is       *)
(* refused, which gives the properties about the disk.  QuotaIndex: what   *)
(* the index lacks is older than the points it reads, since it has lost    *)
(* fewer than it holds beyond those, and its cache serves nothing too old. *)
(* AppServer: a reading is of the approved account.  ProviderStatus: what  *)
(* was asked for before an opt-out is not shown after it.  ScanCache: two  *)
(* looks at a file that agree have seen the same file, since no change of  *)
(* it gives it its earlier stamp.  Attention: what was told is not newer   *)
(* than its session's watermark until it is too old to be told.            *)
(***************************************************************************)
EXTENDS QuotaConsent, QuotaIndex, AppServer, ProviderStatus, ScanCache, Attention, FiniteSetTheorems, WellFoundedInduction, TLAPS

\* Every consent of `file' is one of `durable', and enabled only if it is there.
Kept(file, durable) ==
    \A a \in DOMAIN file :
        /\ durable \in Files
        /\ a \in DOMAIN durable
        /\ file[a].at = durable[a].at
        /\ file[a].enabled => durable[a].enabled

\* The runtime holds nothing beyond the file it last read, and nothing at all
\* of a file it cannot read.
Backed(rt) ==
    /\ Kept(rt.file, rt.durable_file)
    /\ rt.reading /= NoReading =>
          /\ rt.durable_file \in Files
          /\ rt.reading.account \in DOMAIN rt.durable_file
          /\ rt.durable_file[rt.reading.account].at = rt.reading.at
    /\ rt.configuration_error => rt.reading = NoReading /\ Enabled(rt.file) = {}

\* A request whose generation still stands was begun under the file last read.
RequestBacked(rq, rt) ==
    rq.fresh =>
        /\ ~rt.configuration_error
        /\ rq.kind = "poll" =>
              /\ rt.durable_file \in Files
              /\ rq.account \in DOMAIN rt.durable_file
              /\ rt.durable_file[rq.account].at = rq.at

\* The file an instance is about to save adds nothing but what its call names.
SaveBacked(sv, rt, rq) ==
    /\ sv.kind /= "none" =>
          /\ ~rt.configuration_error
          /\ \A b \in DOMAIN sv.file :
                \/ sv.kind = "approve" /\ b = sv.account
                \/ /\ b \in DOMAIN rt.durable_file
                   /\ sv.file[b].at = rt.durable_file[b].at
                   /\ sv.file[b].enabled =>
                         rt.durable_file[b].enabled \/ (sv.kind = "enable" /\ b = sv.account)
    /\ sv.kind \in {"enable", "pause", "revoke"} => ~rq.fresh /\ rt.reading = NoReading

\* A denial that stands is a local pause, and no poll begun before it counts.
DenialKept(dn, rt, rq) ==
    dn => rt.locally_paused /\ (rq.kind = "poll" => ~rq.fresh)

IInv ==
    /\ TypeOK
    /\ \A i \in Instances :
          /\ Backed(runtime[i])
          /\ RequestBacked(request[i], runtime[i])
          /\ SaveBacked(saving[i], runtime[i], request[i])
          /\ DenialKept(denied[i], runtime[i], request[i])

-----------------------------------------------------------------------------
\* A function from known accounts to consents is a consent file.
LEMMA FileType ==
    ASSUME NEW known \in SUBSET Accounts, NEW f \in [known -> Consent]
    PROVE  f \in Files /\ DOMAIN f = known
  BY DEF Files

\* And a consent file is nothing else.
LEMMA FileParts ==
    ASSUME NEW f \in Files
    PROVE  /\ DOMAIN f \in SUBSET Accounts
           /\ f \in [DOMAIN f -> Consent]
           /\ \A a \in DOMAIN f : f[a] \in Consent /\ f[a].at \in Times /\ f[a].enabled \in BOOLEAN
  BY DEF Files, Consent

\* Pausing every account keeps the accounts and their approvals.
LEMMA PausedFile ==
    ASSUME NEW f \in Files
    PROVE  /\ AllPaused(f) \in Files
           /\ DOMAIN AllPaused(f) = DOMAIN f
           /\ \A a \in DOMAIN f : AllPaused(f)[a].at = f[a].at /\ ~AllPaused(f)[a].enabled
           /\ Enabled(AllPaused(f)) = {}
<1>1. \A a \in DOMAIN f : [f[a] EXCEPT !.enabled = FALSE] \in Consent
  BY FileParts DEF Consent
<1>2. AllPaused(f) \in [DOMAIN f -> Consent]
  BY <1>1 DEF AllPaused
<1>3. AllPaused(f) \in Files /\ DOMAIN AllPaused(f) = DOMAIN f
  BY <1>2, FileParts, FileType
<1>4. \A a \in DOMAIN f : AllPaused(f)[a].at = f[a].at /\ ~AllPaused(f)[a].enabled
  BY FileParts DEF AllPaused, Consent
<1> QED BY <1>3, <1>4 DEF Enabled

\* The empty file is a file.
LEMMA EmptyFile == NoFileYet \in Files /\ DOMAIN NoFileYet = {}
  BY BoundsAssumption DEF NoFileYet, Files, Consent, Times

\* A paused copy of a kept file is kept.
LEMMA PausedIsKept ==
    ASSUME NEW f \in Files, NEW d, Kept(f, d)
    PROVE  Kept(AllPaused(f), d)
  BY PausedFile DEF Kept

-----------------------------------------------------------------------------
\* What load does to a runtime, whatever the disk holds.
LEMMA LoadFacts ==
    ASSUME disk \in Files, readable \in BOOLEAN, NEW rt \in Runtimes, Backed(rt)
    PROVE  /\ Load(rt) \in Runtimes
           /\ Backed(Load(rt))
           /\ Load(rt).configuration_error = ~readable
           /\ Load(rt).locally_paused = rt.locally_paused
           /\ rt.locally_paused => Enabled(Load(rt).file) = {}
           /\ readable => Load(rt).durable_file = disk
           /\ ~readable => Load(rt).durable_file = rt.durable_file
           /\ ~Invalidates(rt) => /\ Load(rt).durable_file = rt.durable_file
                                  /\ Load(rt).reading = rt.reading
           /\ Invalidates(rt) => Load(rt).reading = NoReading
           /\ rt.reading = NoReading => Load(rt).reading = NoReading
<1> DEFINE r == Reread(rt)
           e == [r EXCEPT !.configuration_error = ~readable, !.loaded = TRUE]
<1>0. /\ rt.file \in Files /\ rt.durable_file \in Files \cup {NoFile}
      /\ rt.locally_paused \in BOOLEAN /\ rt.configuration_error \in BOOLEAN
      /\ rt.loaded \in BOOLEAN
  BY DEF Runtimes
<1>1. /\ r \in Runtimes
      /\ r.locally_paused = rt.locally_paused
      /\ readable => r.durable_file = disk
      /\ ~readable => r.durable_file = rt.durable_file
      /\ ~Invalidates(rt) => r = rt
      /\ Invalidates(rt) => r.reading = NoReading
      /\ rt.reading = NoReading => r.reading = NoReading
      /\ r.file \in Files
  <2>1. CASE ~Invalidates(rt)
    BY <1>0, <2>1 DEF Reread, Invalidates
  <2>2. CASE Invalidates(rt) /\ readable
    BY <1>0, <2>2 DEF Reread, Invalidate, Runtimes
  <2>3. CASE Invalidates(rt) /\ ~readable
    BY <1>0, <2>3, PausedFile DEF Reread, Invalidate, Runtimes
  <2> QED BY <2>1, <2>2, <2>3
<1>2. /\ Kept(r.file, r.durable_file)
      /\ r.reading /= NoReading =>
            /\ r.durable_file \in Files
            /\ r.reading.account \in DOMAIN r.durable_file
            /\ r.durable_file[r.reading.account].at = r.reading.at
      /\ ~readable => r.reading = NoReading /\ Enabled(r.file) = {}
  <2>1. CASE ~Invalidates(rt)
    BY <1>0, <1>1, <2>1 DEF Invalidates, Backed
  <2>2. CASE Invalidates(rt) /\ readable
    <3>1. r.file = disk /\ r.durable_file = disk
      BY <2>2 DEF Reread, Invalidate, Runtimes
    <3> QED BY <1>1, <2>2, <3>1, FileParts DEF Kept
  <2>3. CASE Invalidates(rt) /\ ~readable
    <3>1. r.file = AllPaused(rt.file) /\ r.durable_file = rt.durable_file
      BY <2>3 DEF Reread, Invalidate, Runtimes
    <3>2. Kept(r.file, r.durable_file) /\ Enabled(r.file) = {}
      BY <1>0, <3>1, PausedIsKept, PausedFile DEF Backed
    <3> QED BY <1>1, <2>3, <3>2
  <2> QED BY <2>1, <2>2, <2>3
<1>3. /\ e \in Runtimes /\ e.file = r.file /\ e.durable_file = r.durable_file
      /\ e.reading = r.reading /\ e.locally_paused = r.locally_paused
      /\ e.configuration_error = ~readable
  BY <1>1 DEF Runtimes
<1>4. /\ Load(rt) \in Runtimes
      /\ Load(rt).file = IF e.locally_paused THEN AllPaused(e.file) ELSE e.file
      /\ Load(rt).durable_file = e.durable_file /\ Load(rt).reading = e.reading
      /\ Load(rt).locally_paused = e.locally_paused
      /\ Load(rt).configuration_error = e.configuration_error
  <2>1. e.file \in Files /\ AllPaused(e.file) \in Files
    BY <1>1, <1>3, PausedFile
  <2>2. Load(rt) = EnforceLocalPause(e)
    BY DEF Load
  <2> HIDE DEF e
  <2> QED BY <1>3, <2>1, <2>2 DEF EnforceLocalPause, Runtimes
<1>5. /\ Kept(Load(rt).file, Load(rt).durable_file)
      /\ Enabled(r.file) = {} \/ rt.locally_paused => Enabled(Load(rt).file) = {}
  BY <1>1, <1>2, <1>3, <1>4, PausedIsKept, PausedFile
<1> QED BY <1>1, <1>2, <1>3, <1>4, <1>5 DEF Backed

\* A step of one instance preserves the invariant when what it leaves that
\* instance with is backed.
LEMMA StepOfOne ==
    ASSUME IInv, NEW i \in Instances,
           NEW rt \in Runtimes, NEW rq \in Requests, NEW sv \in Saves, NEW dn \in BOOLEAN,
           runtime' = [runtime EXCEPT ![i] = rt],
           request' = [request EXCEPT ![i] = rq],
           saving' = [saving EXCEPT ![i] = sv],
           denied' = [denied EXCEPT ![i] = dn],
           disk' \in Files, readable' = readable, approvals' \in 0..MaxApprovals,
           Backed(rt), RequestBacked(rq, rt), SaveBacked(sv, rt, rq),
           DenialKept(dn, rt, rq)
    PROVE  IInv'
<1>1. TypeOK'
  BY DEF IInv, TypeOK
<1>2. ASSUME NEW j \in Instances
      PROVE  /\ Backed(runtime'[j])
             /\ RequestBacked(request'[j], runtime'[j])
             /\ SaveBacked(saving'[j], runtime'[j], request'[j])
             /\ DenialKept(denied'[j], runtime'[j], request'[j])
  <2>1. CASE j = i
    BY <2>1 DEF IInv, TypeOK
  <2>2. CASE j /= i
    BY <2>2 DEF IInv, TypeOK
  <2> QED BY <2>1, <2>2
<1> QED BY <1>1, <1>2 DEF IInv, Backed, RequestBacked, SaveBacked, DenialKept

\* The request under way after a load stays backed.
LEMMA RenewedIsBacked ==
    ASSUME IInv, NEW i \in Instances
    PROVE  /\ Renewed(i) \in Requests
           /\ Renewed(i).kind = request[i].kind
           /\ Renewed(i).account = request[i].account
           /\ Renewed(i).at = request[i].at
           /\ Renewed(i).fresh => request[i].fresh
           /\ Renewed(i).fresh => ~Invalidates(runtime[i]) /\ readable
           /\ RequestBacked(Renewed(i), Load(runtime[i]))
<1>1. /\ disk \in Files /\ readable \in BOOLEAN /\ runtime[i] \in Runtimes
      /\ request[i] \in Requests /\ Backed(runtime[i])
      /\ RequestBacked(request[i], runtime[i])
  BY DEF IInv, TypeOK
<1>2. /\ Renewed(i) \in Requests /\ Renewed(i).kind = request[i].kind
      /\ Renewed(i).account = request[i].account /\ Renewed(i).at = request[i].at
      /\ Renewed(i).fresh = (request[i].fresh /\ ~Invalidates(runtime[i]))
  <2>1. (request[i].fresh /\ ~Invalidates(runtime[i])) \in BOOLEAN
    OBVIOUS
  <2> QED BY <1>1, <2>1 DEF Renewed, Requests
<1>3. Renewed(i).fresh => readable
  BY <1>1, <1>2 DEF RequestBacked, Invalidates
<1>4. RequestBacked(Renewed(i), Load(runtime[i]))
  BY <1>1, <1>2, <1>3, LoadFacts DEF RequestBacked
<1> QED BY <1>2, <1>3, <1>4

\* Every file of consents the program may find at its start satisfies the invariant.
LEMMA InitIInv == Init => IInv
<1> SUFFICES ASSUME Init PROVE IInv
  OBVIOUS
<1>1. 1 \in Times
  BY BoundsAssumption DEF Times
<1>2. disk \in Files /\ approvals \in 0..MaxApprovals
  <2>1. CASE disk = NoFileYet
    BY <2>1, EmptyFile, FS_EmptySet, BoundsAssumption DEF Init
  <2>2. ASSUME NEW b \in Accounts, disk = [a \in {b} |-> [at |-> 1, enabled |-> TRUE]]
        PROVE  disk \in Files /\ approvals \in 0..MaxApprovals
    <3>1. disk \in [{b} -> Consent]
      BY <1>1, <2>2 DEF Consent
    <3>2. disk \in Files /\ DOMAIN disk = {b}
      BY <3>1, FileType
    <3>3. Cardinality({b}) = 1
      BY FS_Singleton
    <3> QED BY <3>2, <3>3, BoundsAssumption DEF Init
  <2> QED BY <2>1, <2>2 DEF Init
<1>3. DefaultRuntime \in Runtimes /\ Backed(DefaultRuntime)
  BY EmptyFile DEF DefaultRuntime, Runtimes, Backed, Kept
<1>4. NoRequest \in Requests /\ NoSave \in Saves
  BY EmptyFile DEF NoRequest, Requests, NoSave, Saves
<1>5. RequestBacked(NoRequest, DefaultRuntime) /\ SaveBacked(NoSave, DefaultRuntime, NoRequest)
  BY DEF RequestBacked, SaveBacked, NoRequest, NoSave
<1> QED BY <1>2, <1>3, <1>4, <1>5 DEF Init, IInv, TypeOK, DenialKept

-----------------------------------------------------------------------------
\* The files that approve and change are about to save.
LEMMA ApprovedFile ==
    ASSUME NEW f \in Files, NEW a \in Accounts, approvals + 1 \in Times
    PROVE  /\ Approved(f, a) \in Files
           /\ DOMAIN Approved(f, a) = DOMAIN f \cup {a}
           /\ \A b \in DOMAIN f \ {a} : Approved(f, a)[b].at = f[b].at /\ ~Approved(f, a)[b].enabled
<1>1. \A b \in DOMAIN f : [f[b] EXCEPT !.enabled = FALSE] \in Consent
  BY FileParts DEF Consent
<1>2. [at |-> approvals + 1, enabled |-> TRUE] \in Consent
  BY DEF Consent
<1>3. Approved(f, a) \in [DOMAIN f \cup {a} -> Consent]
  BY <1>1, <1>2 DEF Approved
<1>4. DOMAIN f \cup {a} \in SUBSET Accounts
  BY FileParts
<1>5. \A b \in DOMAIN f \ {a} : Approved(f, a)[b].at = f[b].at /\ ~Approved(f, a)[b].enabled
  BY FileParts DEF Approved, Consent
<1> QED BY <1>3, <1>4, <1>5, FileType

LEMMA ChangedFile ==
    ASSUME NEW f \in Files, NEW a \in DOMAIN f, NEW kind \in {"enable", "pause", "revoke"}
    PROVE  /\ Changed(f, a, kind) \in Files
           /\ DOMAIN Changed(f, a, kind) \subseteq DOMAIN f
           /\ \A b \in DOMAIN Changed(f, a, kind) :
                 /\ Changed(f, a, kind)[b].at = f[b].at
                 /\ Changed(f, a, kind)[b].enabled =>
                       f[b].enabled \/ (kind = "enable" /\ b = a)
<1> DEFINE After == [b \in DOMAIN f |->
                      IF b = a THEN [f[b] EXCEPT !.enabled = (kind = "enable")]
                      ELSE IF kind = "enable" THEN [f[b] EXCEPT !.enabled = FALSE]
                      ELSE f[b]]
           Less == [b \in DOMAIN f \ {a} |-> After[b]]
<1>1. (kind = "enable") \in BOOLEAN
  OBVIOUS
<1>2. \A b \in DOMAIN f :
        /\ After[b] \in Consent
        /\ After[b].at = f[b].at
        /\ After[b].enabled => f[b].enabled \/ (kind = "enable" /\ b = a)
  <2> SUFFICES ASSUME NEW b \in DOMAIN f
               PROVE  /\ After[b] \in Consent
                      /\ After[b].at = f[b].at
                      /\ After[b].enabled => f[b].enabled \/ (kind = "enable" /\ b = a)
    OBVIOUS
  <2>1. f[b] \in Consent
    BY FileParts
  <2>2. CASE b = a
    BY <1>1, <2>1, <2>2 DEF Consent
  <2>3. CASE b /= a /\ kind = "enable"
    BY <2>1, <2>3 DEF Consent
  <2>4. CASE b /= a /\ kind /= "enable"
    BY <2>1, <2>4 DEF Consent
  <2> QED BY <2>2, <2>3, <2>4
<1>3. /\ After \in [DOMAIN f -> Consent]
      /\ Less \in [DOMAIN f \ {a} -> Consent]
      /\ \A b \in DOMAIN f \ {a} : Less[b] = After[b]
  <2> HIDE DEF After
  <2>1. Less \in [DOMAIN f \ {a} -> Consent] /\ \A b \in DOMAIN f \ {a} : Less[b] = After[b]
    BY <1>2
  <2>2. DOMAIN After = DOMAIN f /\ After = [b \in DOMAIN f |-> After[b]]
    BY DEF After
  <2> QED BY <1>2, <2>1, <2>2
<1>4. /\ After \in Files /\ DOMAIN After = DOMAIN f
      /\ Less \in Files /\ DOMAIN Less = DOMAIN f \ {a}
  BY <1>3, FileParts, FileType
<1>5. Changed(f, a, kind) = IF kind = "revoke" THEN Less ELSE After
  BY DEF Changed
<1> HIDE DEF After, Less
<1> QED BY <1>2, <1>3, <1>4, <1>5

-----------------------------------------------------------------------------
\* Every step of every instance preserves the invariant.
LEMMA IInvPreserved == ASSUME IInv, [Next]_vars PROVE IInv'
<1>1. ASSUME NEW i \in Instances
      PROVE  /\ disk \in Files /\ readable \in BOOLEAN /\ approvals \in 0..MaxApprovals
             /\ runtime[i] \in Runtimes /\ request[i] \in Requests
             /\ saving[i] \in Saves /\ denied[i] \in BOOLEAN
             /\ Backed(runtime[i]) /\ RequestBacked(request[i], runtime[i])
             /\ SaveBacked(saving[i], runtime[i], request[i])
             /\ DenialKept(denied[i], runtime[i], request[i])
             /\ denied = [denied EXCEPT ![i] = denied[i]]
             /\ request = [request EXCEPT ![i] = request[i]]
             /\ runtime = [runtime EXCEPT ![i] = runtime[i]]
             /\ saving = [saving EXCEPT ![i] = saving[i]]
  BY DEF IInv, TypeOK
<1>2. /\ NoRequest \in Requests /\ NoSave \in Saves
      /\ NoRequest.kind = "none" /\ ~NoRequest.fresh /\ NoSave.kind = "none"
  BY EmptyFile DEF NoRequest, Requests, NoSave, Saves
<1>3. ASSUME NEW i \in Instances
      PROVE  /\ Load(runtime[i]) \in Runtimes
             /\ Backed(Load(runtime[i]))
             /\ Load(runtime[i]).locally_paused = runtime[i].locally_paused
             /\ Load(runtime[i]).file \in Files
             /\ RequestBacked(Renewed(i), Load(runtime[i]))
             /\ Renewed(i) \in Requests
             /\ DenialKept(denied[i], Load(runtime[i]), Renewed(i))
  BY <1>1, LoadFacts, RenewedIsBacked DEF DenialKept, Runtimes
<1>4. ASSUME NEW i \in Instances, Status(i) PROVE IInv'
  <2> DEFINE rt == Load(runtime[i])
             rq == Renewed(i)
  <2>1. /\ runtime' = [runtime EXCEPT ![i] = rt] /\ request' = [request EXCEPT ![i] = rq]
        /\ saving[i].kind = "none" /\ UNCHANGED <<disk, readable, saving, denied, approvals>>
    BY <1>4 DEF Status, Unlocked
  <2>2. /\ rt \in Runtimes /\ rq \in Requests /\ Backed(rt) /\ RequestBacked(rq, rt)
        /\ DenialKept(denied[i], rt, rq)
    BY <1>3
  <2> HIDE DEF rt, rq
  <2>3. SaveBacked(saving[i], rt, rq)
    BY <2>1 DEF SaveBacked
  <2> QED BY <1>1, <2>1, <2>2, <2>3, StepOfOne
<1>5. ASSUME NEW i \in Instances, IdentifyBegin(i) PROVE IInv'
  <2> DEFINE rt == [Load(runtime[i]) EXCEPT !.candidate = NoAccount]
             rq == [NoRequest EXCEPT !.kind = "identify", !.fresh = TRUE]
  <2>1. /\ rt \in Runtimes /\ rt.file = Load(runtime[i]).file
        /\ rt.durable_file = Load(runtime[i]).durable_file
        /\ rt.reading = Load(runtime[i]).reading
        /\ rt.locally_paused = Load(runtime[i]).locally_paused
        /\ rt.configuration_error = Load(runtime[i]).configuration_error
    BY <1>3 DEF Runtimes
  <2>2. rq \in Requests /\ rq.kind = "identify"
    BY <1>2 DEF NoRequest, Requests
  <2>3. /\ runtime' = [runtime EXCEPT ![i] = rt] /\ request' = [request EXCEPT ![i] = rq]
        /\ ~rt.configuration_error /\ saving[i].kind = "none"
        /\ UNCHANGED <<disk, readable, saving, denied, approvals>>
    BY <1>5, <2>1 DEF IdentifyBegin, Unlocked
  <2> HIDE DEF rt, rq
  <2>4. /\ Backed(rt) /\ RequestBacked(rq, rt) /\ SaveBacked(saving[i], rt, rq)
        /\ DenialKept(denied[i], rt, rq)
    BY <1>1, <1>3, <2>1, <2>2, <2>3 DEF Backed, RequestBacked, SaveBacked, DenialKept
  <2> QED BY <1>1, <2>1, <2>2, <2>3, <2>4, StepOfOne
<1>6. ASSUME NEW i \in Instances, NEW a \in Accounts \cup {NoAccount}, IdentifyEnd(i, a) PROVE IInv'
  <2>1. PICK rt \in Runtimes :
          /\ runtime' = [runtime EXCEPT ![i] = rt]
          /\ rt.file = Load(runtime[i]).file
          /\ rt.durable_file = Load(runtime[i]).durable_file
          /\ rt.reading = Load(runtime[i]).reading
          /\ rt.locally_paused = Load(runtime[i]).locally_paused
          /\ rt.configuration_error = Load(runtime[i]).configuration_error
    <3>1. CASE Renewed(i).fresh /\ a /= NoAccount
      <4> DEFINE rt == [Load(runtime[i]) EXCEPT !.candidate = a]
      <4>1. /\ rt \in Runtimes
            /\ rt.file = Load(runtime[i]).file
            /\ rt.durable_file = Load(runtime[i]).durable_file
            /\ rt.reading = Load(runtime[i]).reading
            /\ rt.locally_paused = Load(runtime[i]).locally_paused
            /\ rt.configuration_error = Load(runtime[i]).configuration_error
        BY <1>3 DEF Runtimes
      <4>2. runtime' = [runtime EXCEPT ![i] = rt]
        BY <1>6, <3>1 DEF IdentifyEnd
      <4> QED BY <4>1, <4>2
    <3>2. CASE ~(Renewed(i).fresh /\ a /= NoAccount)
      BY <1>3, <1>6, <3>2 DEF IdentifyEnd
    <3> QED BY <3>1, <3>2
  <2>2. /\ request' = [request EXCEPT ![i] = NoRequest] /\ saving[i].kind = "none"
        /\ UNCHANGED <<disk, readable, saving, denied, approvals>>
    BY <1>6 DEF IdentifyEnd, Unlocked
  <2>3. /\ Backed(rt) /\ RequestBacked(NoRequest, rt) /\ SaveBacked(saving[i], rt, NoRequest)
        /\ DenialKept(denied[i], rt, NoRequest)
    BY <1>1, <1>2, <1>3, <2>1, <2>2 DEF Backed, RequestBacked, SaveBacked, DenialKept
  <2> QED BY <1>1, <1>2, <2>1, <2>2, <2>3, StepOfOne
<1>7. ASSUME NEW i \in Instances, PollBegin(i) PROVE IInv'
  <2> DEFINE rt == Load(runtime[i])
  <2>1. PICK a \in Enabled(rt.file) :
          request' = [request EXCEPT ![i] =
                        [kind |-> "poll", fresh |-> TRUE, account |-> a, at |-> rt.file[a].at]]
    BY <1>7 DEF PollBegin
  <2> DEFINE rq == [kind |-> "poll", fresh |-> TRUE, account |-> a, at |-> rt.file[a].at]
  <2>2. a \in DOMAIN rt.file /\ rt.file[a].at \in Times /\ a \in Accounts
    BY <1>3, <2>1, FileParts DEF Enabled
  <2>3. rq \in Requests
    BY <2>2 DEF Requests
  <2>4. ~denied[i]
    BY <1>1, <2>1, LoadFacts DEF DenialKept
  <2>5. RequestBacked(rq, rt)
    BY <1>3, <1>7, <2>2 DEF RequestBacked, Backed, Kept, PollBegin
  <2>6. SaveBacked(saving[i], rt, rq) /\ DenialKept(denied[i], rt, rq)
    BY <1>7, <2>4 DEF SaveBacked, DenialKept, PollBegin, Unlocked
  <2>7. /\ runtime' = [runtime EXCEPT ![i] = rt] /\ request' = [request EXCEPT ![i] = rq]
        /\ UNCHANGED <<disk, readable, saving, denied, approvals>>
    BY <1>7, <2>1 DEF PollBegin
  <2> HIDE DEF rt, rq
  <2>8. rt \in Runtimes /\ Backed(rt)
    BY <1>3 DEF rt
  <2> QED BY <1>1, <2>3, <2>5, <2>6, <2>7, <2>8, StepOfOne
<1>8. ASSUME NEW i \in Instances, NEW ok \in BOOLEAN, PollEnd(i, ok) PROVE IInv'
  <2> DEFINE rt == FinishRead(i, Load(runtime[i]), ok)
             got == IF ok THEN [account |-> request[i].account, at |-> request[i].at] ELSE NoReading
  <2>1. /\ runtime' = [runtime EXCEPT ![i] = rt] /\ request' = [request EXCEPT ![i] = NoRequest]
        /\ saving[i].kind = "none" /\ request[i].kind = "poll"
        /\ UNCHANGED <<disk, readable, saving, denied, approvals>>
    BY <1>8 DEF PollEnd, Unlocked
  <2>2. CASE ~Renewed(i).fresh
    <3>1. rt = Load(runtime[i])
      BY <2>2 DEF FinishRead
    <3>2. rt \in Runtimes /\ Backed(rt) /\ rt.locally_paused = runtime[i].locally_paused
      BY <1>3, <3>1
    <3> HIDE DEF rt
    <3>3. RequestBacked(NoRequest, rt) /\ SaveBacked(saving[i], rt, NoRequest)
          /\ DenialKept(denied[i], rt, NoRequest)
      BY <1>1, <1>2, <2>1, <3>2 DEF RequestBacked, SaveBacked, DenialKept
    <3> QED BY <1>1, <1>2, <2>1, <3>2, <3>3, StepOfOne
  <2>3. CASE Renewed(i).fresh
    <3>1. /\ request[i].fresh /\ readable /\ Load(runtime[i]).durable_file \in Files
          /\ request[i].account \in DOMAIN Load(runtime[i]).durable_file
          /\ Load(runtime[i]).durable_file[request[i].account].at = request[i].at
          /\ ~Load(runtime[i]).configuration_error
      BY <1>1, <1>3, <2>1, <2>3, RenewedIsBacked, LoadFacts DEF RequestBacked
    <3>2. request[i].account \in Accounts /\ request[i].at \in Times
      BY <3>1, FileParts
    <3>3. /\ got \in Reading \cup {NoReading}
          /\ got /= NoReading => got.account = request[i].account /\ got.at = request[i].at
      BY <3>2 DEF Reading
    <3>4. rt = [Load(runtime[i]) EXCEPT !.reading = got]
      BY <2>3 DEF FinishRead
    <3> HIDE DEF rt, got
    <3>5. /\ rt \in Runtimes /\ rt.file = Load(runtime[i]).file
          /\ rt.durable_file = Load(runtime[i]).durable_file
          /\ rt.reading = got
          /\ rt.locally_paused = Load(runtime[i]).locally_paused
          /\ rt.configuration_error = Load(runtime[i]).configuration_error
      BY <1>3, <3>3, <3>4 DEF Runtimes
    <3>6. Backed(rt)
      BY <1>3, <3>1, <3>3, <3>5 DEF Backed
    <3>7. RequestBacked(NoRequest, rt) /\ SaveBacked(saving[i], rt, NoRequest)
          /\ DenialKept(denied[i], rt, NoRequest)
      BY <1>2, <1>3, <2>1, <3>5 DEF RequestBacked, SaveBacked, DenialKept
    <3> QED BY <1>1, <1>2, <2>1, <3>5, <3>6, <3>7, StepOfOne
  <2> QED BY <2>2, <2>3
<1>9. ASSUME NEW i \in Instances, NEW a \in Accounts, ApproveBegin(i, a) PROVE IInv'
  <2> DEFINE rt == Load(runtime[i])
             rq == Renewed(i)
             sv == [kind |-> "approve", account |-> a, file |-> Approved(rt.file, a)]
  <2>1. approvals + 1 \in Times /\ approvals' \in 0..MaxApprovals
    BY <1>1, <1>9, BoundsAssumption DEF ApproveBegin, Times
  <2>2. /\ sv \in Saves
        /\ DOMAIN sv.file = DOMAIN rt.file \cup {a}
        /\ \A b \in DOMAIN rt.file \ {a} : sv.file[b].at = rt.file[b].at /\ ~sv.file[b].enabled
    BY <1>3, <2>1, ApprovedFile DEF Saves
  <2>3. /\ runtime' = [runtime EXCEPT ![i] = rt] /\ request' = [request EXCEPT ![i] = rq]
        /\ saving' = [saving EXCEPT ![i] = sv] /\ UNCHANGED <<disk, readable, denied>>
        /\ ~rt.configuration_error
    BY <1>9 DEF ApproveBegin
  <2>4. /\ rt \in Runtimes /\ rq \in Requests /\ Backed(rt) /\ RequestBacked(rq, rt)
        /\ DenialKept(denied[i], rt, rq)
    BY <1>3
  <2>5. sv.kind = "approve" /\ sv.account = a
    OBVIOUS
  <2> HIDE DEF sv, rt, rq
  <2>6. SaveBacked(sv, rt, rq)
    BY <2>2, <2>3, <2>4, <2>5 DEF SaveBacked, Backed, Kept
  <2>7. /\ denied' = [denied EXCEPT ![i] = denied[i]] /\ denied[i] \in BOOLEAN
        /\ disk' \in Files /\ readable' = readable /\ sv \in Saves
    BY <1>1, <2>2, <2>3
  <2>8. approvals' \in 0..MaxApprovals
    BY <2>1
  <2>9. /\ runtime' = [runtime EXCEPT ![i] = rt] /\ request' = [request EXCEPT ![i] = rq]
        /\ saving' = [saving EXCEPT ![i] = sv]
    BY <2>3
  <2> QED BY <2>4, <2>6, <2>7, <2>8, <2>9, StepOfOne
<1>10. ASSUME NEW i \in Instances, NEW a \in Accounts, NEW kind \in {"enable", "pause", "revoke"},
              ChangeBegin(i, a, kind) PROVE IInv'
  <2> DEFINE ld == Load(runtime[i])
             rt == [Invalidate(ld) EXCEPT !.file = AllPaused(ld.file)]
             rq == [request[i] EXCEPT !.fresh = FALSE]
             sv == [kind |-> kind, account |-> a, file |-> Changed(ld.file, a, kind)]
  <2>1. /\ runtime' = [runtime EXCEPT ![i] = rt] /\ request' = [request EXCEPT ![i] = rq]
        /\ saving' = [saving EXCEPT ![i] = sv] /\ UNCHANGED <<disk, readable, denied, approvals>>
        /\ a \in DOMAIN ld.file /\ ~ld.configuration_error
    BY <1>1, <1>10 DEF ChangeBegin
  <2>2. /\ sv \in Saves /\ sv.kind = kind /\ sv.account = a
        /\ DOMAIN sv.file \subseteq DOMAIN ld.file
        /\ \A b \in DOMAIN sv.file :
              /\ sv.file[b].at = ld.file[b].at
              /\ sv.file[b].enabled => ld.file[b].enabled \/ (kind = "enable" /\ b = a)
    BY <1>3, <2>1, ChangedFile DEF Saves
  <2>3. rq \in Requests /\ ~rq.fresh
    BY <1>1 DEF Requests
  <2>4. AllPaused(ld.file) \in Files
    BY <1>3, PausedFile
  <2>5. /\ rt \in Runtimes /\ rt.file = AllPaused(ld.file) /\ rt.durable_file = ld.durable_file
        /\ rt.reading = NoReading /\ rt.locally_paused = ld.locally_paused
        /\ rt.configuration_error = ld.configuration_error
    BY <1>3, <2>4 DEF Invalidate, Runtimes
  <2>6. ld.file \in Files /\ Backed(ld) /\ ld.locally_paused = runtime[i].locally_paused
    BY <1>3
  <2> HIDE DEF ld, rt, rq, sv
  <2>7. Backed(rt)
    BY <2>5, <2>6, PausedIsKept, PausedFile DEF Backed
  <2>8. SaveBacked(sv, rt, rq)
    BY <2>1, <2>2, <2>3, <2>5, <2>6 DEF SaveBacked, Backed, Kept
  <2>9. RequestBacked(rq, rt) /\ DenialKept(denied[i], rt, rq)
    BY <1>1, <2>3, <2>5, <2>6 DEF RequestBacked, DenialKept
  <2> QED BY <1>1, <2>1, <2>2, <2>3, <2>5, <2>7, <2>8, <2>9, StepOfOne
<1>11. ASSUME NEW i \in Instances, ApproveSaved(i) PROVE IInv'
  <2> DEFINE f == saving[i].file
             rt == [Invalidate(runtime[i]) EXCEPT !.durable_file = f, !.file = f,
                                                  !.locally_paused = FALSE]
             rq == [request[i] EXCEPT !.fresh = FALSE]
  <2>1. /\ runtime' = [runtime EXCEPT ![i] = rt] /\ request' = [request EXCEPT ![i] = rq]
        /\ saving' = [saving EXCEPT ![i] = NoSave] /\ denied' = [denied EXCEPT ![i] = FALSE]
        /\ disk' = f /\ UNCHANGED <<readable, approvals>>
        /\ saving[i].kind = "approve"
    BY <1>1, <1>11 DEF ApproveSaved
  <2>2. f \in Files
    BY <1>1 DEF Saves
  <2>3. rq \in Requests /\ ~rq.fresh
    BY <1>1 DEF Requests
  <2>4. /\ rt \in Runtimes /\ rt.file = f /\ rt.durable_file = f
        /\ rt.reading = NoReading /\ rt.configuration_error = runtime[i].configuration_error
    BY <1>1, <2>2 DEF Invalidate, Runtimes
  <2>5. ~runtime[i].configuration_error
    BY <1>1, <2>1 DEF SaveBacked
  <2> HIDE DEF rt, rq
  <2>6. /\ Backed(rt) /\ RequestBacked(rq, rt) /\ SaveBacked(NoSave, rt, rq)
        /\ DenialKept(FALSE, rt, rq)
    BY <1>2, <2>2, <2>3, <2>4, <2>5 DEF Backed, Kept, RequestBacked, SaveBacked, DenialKept
  <2> QED BY <1>1, <1>2, <2>1, <2>2, <2>3, <2>4, <2>6, StepOfOne
<1>12. ASSUME NEW i \in Instances, ApproveRefused(i) PROVE IInv'
  <2>1. SaveBacked(NoSave, runtime[i], request[i])
    BY <1>2 DEF SaveBacked
  <2> QED BY <1>1, <1>2, <1>12, <2>1, StepOfOne DEF ApproveRefused
<1>13. ASSUME NEW i \in Instances, ChangeSaved(i) PROVE IInv'
  <2> DEFINE f == saving[i].file
             keeps == saving[i].kind /= "enable"
             bare == [runtime[i] EXCEPT !.durable_file = f, !.file = f,
                                        !.locally_paused = @ /\ keeps]
             rt == EnforceLocalPause(bare)
  <2>1. /\ runtime' = [runtime EXCEPT ![i] = rt] /\ saving' = [saving EXCEPT ![i] = NoSave]
        /\ denied' = [denied EXCEPT ![i] = denied[i] /\ keeps]
        /\ disk' = f /\ UNCHANGED <<readable, request, approvals>>
        /\ saving[i].kind \in {"enable", "pause", "revoke"}
    <3>1. denied' = [denied EXCEPT ![i] = denied[i] /\ keeps]
      BY <1>13 DEF ChangeSaved
    <3>2. runtime' = [runtime EXCEPT ![i] = rt]
      BY <1>13 DEF ChangeSaved
    <3> QED BY <1>13, <3>1, <3>2 DEF ChangeSaved
  <2>2. f \in Files /\ AllPaused(f) \in Files
    BY <1>1, PausedFile DEF Saves
  <2>3. (runtime[i].locally_paused /\ keeps) \in BOOLEAN /\ (denied[i] /\ keeps) \in BOOLEAN
    OBVIOUS
  <2>4. /\ bare \in Runtimes /\ bare.file = f /\ bare.durable_file = f
        /\ bare.reading = runtime[i].reading
        /\ bare.locally_paused = (runtime[i].locally_paused /\ keeps)
        /\ bare.configuration_error = runtime[i].configuration_error
    BY <1>1, <2>2, <2>3 DEF Runtimes
  <2>5. ~runtime[i].configuration_error /\ runtime[i].reading = NoReading /\ ~request[i].fresh
    BY <1>1, <2>1 DEF SaveBacked
  <2>6. /\ rt \in Runtimes /\ rt.file = (IF bare.locally_paused THEN AllPaused(f) ELSE f)
        /\ rt.durable_file = f /\ rt.reading = NoReading /\ ~rt.configuration_error
        /\ rt.locally_paused = bare.locally_paused
    <3> HIDE DEF bare
    <3> QED BY <2>2, <2>4, <2>5 DEF EnforceLocalPause, Runtimes
  <2>7. Kept(f, f)
    BY <2>2 DEF Kept
  <2>8. Kept(rt.file, f)
    BY <2>2, <2>6, <2>7, PausedIsKept
  <2>9. /\ Backed(rt) /\ RequestBacked(request[i], rt) /\ SaveBacked(NoSave, rt, request[i])
    BY <1>2, <2>5, <2>6, <2>8 DEF Backed, RequestBacked, SaveBacked
  <2>10. DenialKept(denied[i] /\ keeps, rt, request[i])
    BY <1>1, <2>4, <2>5, <2>6 DEF DenialKept
  <2> HIDE DEF rt, keeps
  <2> QED BY <1>1, <1>2, <2>1, <2>2, <2>3, <2>6, <2>9, <2>10, StepOfOne
<1>14. ASSUME NEW i \in Instances, ChangeRefused(i) PROVE IInv'
  <2> DEFINE rt == [runtime[i] EXCEPT !.locally_paused = TRUE]
             dn == denied[i] \/ saving[i].kind /= "enable"
  <2>1. /\ runtime' = [runtime EXCEPT ![i] = rt] /\ saving' = [saving EXCEPT ![i] = NoSave]
        /\ denied' = [denied EXCEPT ![i] = dn]
        /\ UNCHANGED <<disk, readable, request, approvals>>
        /\ saving[i].kind \in {"enable", "pause", "revoke"}
    BY <1>1, <1>14 DEF ChangeRefused
  <2>2. /\ rt \in Runtimes /\ rt.file = runtime[i].file
        /\ rt.durable_file = runtime[i].durable_file
        /\ rt.reading = runtime[i].reading /\ rt.locally_paused
        /\ rt.configuration_error = runtime[i].configuration_error
    BY <1>1 DEF Runtimes
  <2>3. dn \in BOOLEAN /\ ~request[i].fresh
    BY <1>1, <2>1 DEF SaveBacked
  <2> HIDE DEF rt, dn
  <2>4. /\ Backed(rt) /\ RequestBacked(request[i], rt) /\ SaveBacked(NoSave, rt, request[i])
        /\ DenialKept(dn, rt, request[i])
    BY <1>1, <1>2, <2>2, <2>3 DEF Backed, RequestBacked, SaveBacked, DenialKept
  <2> QED BY <1>1, <1>2, <2>1, <2>2, <2>3, <2>4, StepOfOne
<1>15. ASSUME NEW i \in Instances, Restart(i) PROVE IInv'
  <2>1. DefaultRuntime \in Runtimes /\ Backed(DefaultRuntime)
    BY EmptyFile DEF DefaultRuntime, Runtimes, Backed, Kept
  <2>2. /\ RequestBacked(NoRequest, DefaultRuntime) /\ SaveBacked(NoSave, DefaultRuntime, NoRequest)
        /\ DenialKept(FALSE, DefaultRuntime, NoRequest)
    BY <1>2 DEF RequestBacked, SaveBacked, DenialKept
  <2> QED BY <1>1, <1>2, <1>15, <2>1, <2>2, StepOfOne DEF Restart
<1>16. CASE Break \/ Mend \/ UNCHANGED vars
  <2>1. /\ readable' \in BOOLEAN
        /\ UNCHANGED <<disk, runtime, request, saving, denied, approvals>>
    BY <1>16 DEF Break, Mend, vars, IInv, TypeOK
  <2>2. TypeOK'
    BY <2>1 DEF IInv, TypeOK
  <2> QED BY <2>1, <2>2 DEF IInv, Backed, RequestBacked, SaveBacked, DenialKept
<1> QED BY <1>4, <1>5, <1>6, <1>7, <1>8, <1>9, <1>10, <1>11, <1>12, <1>13, <1>14, <1>15, <1>16 DEF Next

-----------------------------------------------------------------------------
\* The invariant holds in every reachable state.
THEOREM InductiveInvariant == Spec => []IInv
<1>1. IInv /\ [Next]_vars => IInv'
  BY IInvPreserved
<1> QED BY InitIInv, <1>1, PTL DEF Spec

\* The consent file, every runtime, every request and every save stay what the
\* code declares them to be, for any number of instances and accounts.
THEOREM TypeCorrect == Spec => []TypeOK
<1>1. IInv => TypeOK
  BY DEF IInv
<1> QED BY <1>1, InductiveInvariant, PTL

\* What any instance's status would hand out was polled under the approval the
\* consent file holds now (Runtime::load, finish_read, status).
THEOREM ShownHasConsentHolds == Spec => []ShownHasConsent
<1>1. IInv => ShownHasConsent
  <2> SUFFICES ASSUME IInv, NEW i \in Instances, NEW a \in Shown(Load(runtime[i]))
               PROVE  /\ readable /\ a \in Enabled(disk)
                      /\ disk[a].at = Load(runtime[i]).reading.at
    BY DEF ShownHasConsent
  <2> DEFINE rt == Load(runtime[i])
  <2>1. /\ disk \in Files /\ readable \in BOOLEAN /\ rt \in Runtimes /\ Backed(rt)
        /\ rt.configuration_error = ~readable
        /\ readable => rt.durable_file = disk
    BY LoadFacts DEF IInv, TypeOK
  <2>2. a \in Enabled(rt.file) /\ rt.reading.account = a
    BY DEF Shown
  <2> HIDE DEF rt
  <2>3. a \in DOMAIN rt.file /\ rt.file[a].enabled
    BY <2>2 DEF Enabled
  <2>4. readable /\ rt.durable_file = disk
    BY <2>1, <2>2 DEF Backed
  <2>5. a \in Enabled(disk)
    BY <2>1, <2>3, <2>4 DEF Backed, Kept, Enabled
  <2>6. a \in Accounts
    BY <2>1, <2>3, FileParts DEF Runtimes
  <2>7. rt.reading /= NoReading
    BY <2>2, <2>6, NamesAssumption DEF NoReading
  <2> QED BY <2>1, <2>2, <2>4, <2>5, <2>7 DEF Backed, rt
<1> QED BY <1>1, InductiveInvariant, PTL

\* A pause or revoke that could not be saved still denies polling in its
\* instance (change, enforce_local_pause).
THEOREM FailedDenialHoldsAlways == Spec => []FailedDenialHolds
<1>1. IInv => FailedDenialHolds
  <2> SUFFICES ASSUME IInv, NEW i \in Instances, denied[i]
               PROVE  /\ Enabled(Load(runtime[i]).file) = {}
                      /\ request[i].kind = "poll" => ~request[i].fresh
    BY DEF FailedDenialHolds
  <2>1. /\ disk \in Files /\ readable \in BOOLEAN /\ runtime[i] \in Runtimes
        /\ Backed(runtime[i]) /\ DenialKept(denied[i], runtime[i], request[i])
    BY DEF IInv, TypeOK
  <2>2. runtime[i].locally_paused /\ (request[i].kind = "poll" => ~request[i].fresh)
    BY <2>1 DEF DenialKept
  <2> QED BY <2>1, <2>2, LoadFacts
<1> QED BY <1>1, InductiveInvariant, PTL

\* No save restores an account that another instance paused or revoked
\* (save_file's comparison with the consents this instance last read).
THEOREM NothingIsRestoredHolds == Spec => NothingIsRestored
<1> DEFINE Restored(a) ==
       \/ a \in DOMAIN disk /\ disk'[a].at = disk[a].at
          /\ (disk'[a].enabled => disk[a].enabled \/ \E i \in Instances :
                 ChangeSaved(i) /\ saving[i].kind = "enable" /\ saving[i].account = a)
       \/ \E i \in Instances : ApproveSaved(i) /\ saving[i].account = a
<1>1. ASSUME IInv, [Next]_vars, NEW a \in DOMAIN disk' PROVE Restored(a)
  <2>1. CASE disk' = disk
    BY <1>1, <2>1
  <2>2. CASE disk' /= disk
    <3>1. PICK i \in Instances : ApproveSaved(i) \/ ChangeSaved(i)
      BY <1>1, <2>2 DEF Next, vars, Status, IdentifyBegin, IdentifyEnd, PollBegin, PollEnd,
           ApproveBegin, ChangeBegin, ApproveRefused, ChangeRefused, Restart, Break, Mend
    <3>2. disk' = saving[i].file /\ disk = runtime[i].durable_file
      BY <3>1 DEF ApproveSaved, ChangeSaved, MaySave
    <3>3. SaveBacked(saving[i], runtime[i], request[i]) /\ saving[i].kind /= "none"
      BY <1>1, <3>1 DEF IInv, ApproveSaved, ChangeSaved
    <3>4. \/ saving[i].kind = "approve" /\ a = saving[i].account
          \/ /\ a \in DOMAIN disk /\ disk'[a].at = disk[a].at
             /\ disk'[a].enabled => disk[a].enabled \/ (saving[i].kind = "enable" /\ a = saving[i].account)
      BY <1>1, <3>2, <3>3 DEF SaveBacked
    <3>5. (saving[i].kind = "approve" => ApproveSaved(i)) /\ (saving[i].kind = "enable" => ChangeSaved(i))
      BY <3>1 DEF ApproveSaved, ChangeSaved
    <3> QED BY <3>4, <3>5
  <2> QED BY <2>1, <2>2
<1>2. IInv /\ [Next]_vars => [\A a \in DOMAIN disk' : Restored(a)]_vars
  BY <1>1
<1> QED BY <1>2, InductiveInvariant, PTL DEF Spec, NothingIsRestored


-----------------------------------------------------------------------------
(* The cached snapshots (QuotaIndex).  What is in the cache was computed    *)
(* under the present settings or in the tick of their last change, and a    *)
(* reader that has read older ones is still in that tick.                   *)

CacheInv ==
    /\ ticks \in Nat /\ changedAt \in 0..ticks
    /\ reader # None => reader = settings \/ changedAt = ticks
    /\ cache # None => /\ cache.at \in 0..ticks
                       /\ cache.age = settings \/ cache.at = changedAt

LEMMA CacheInvariant == IndexSpec => []CacheInv
<1>1. IndexInit => CacheInv
  BY DEF IndexInit, CacheInv
<1>2. CacheInv /\ [IndexNext]_indexVars => CacheInv'
  <2> SUFFICES ASSUME CacheInv, [IndexNext]_indexVars PROVE CacheInv'
    OBVIOUS
  <2>1. CASE /\ UNCHANGED <<settings, changedAt, cache, reader, ticks>>
    BY <2>1 DEF CacheInv
  <2>2. ASSUME NEW age, SaveSettings(age) PROVE CacheInv'
    BY <2>2 DEF CacheInv, SaveSettings
  <2>3. CASE Tick
    BY <2>3 DEF CacheInv, Tick
  <2>4. CASE BeginRead
    BY <2>4 DEF CacheInv, BeginRead
  <2>5. CASE ServeRead
    <3> DEFINE entry == [at |-> ticks, generation |-> generation, age |-> reader, of |-> IndexReading(index)]
    <3>1. entry.at = ticks /\ entry.age = reader
      OBVIOUS
    <3>2. cache' = entry \/ cache' = cache
      BY <2>5 DEF ServeRead
    <3>3. reader # None /\ reader' = None /\ UNCHANGED <<settings, changedAt, ticks>>
      BY <2>5 DEF ServeRead
    <3> HIDE DEF entry
    <3> QED BY <3>1, <3>2, <3>3 DEF CacheInv
  <2>6. CASE UNCHANGED indexVars
    BY <2>1, <2>6 DEF indexVars
  <2>7. ASSUME NEW w, NEW s, NEW c, PublishIndex(w, s, c) \/ PublishSession(w) \/ Withdraw(s)
        PROVE  CacheInv'
    BY <2>1, <2>7 DEF PublishIndex, PublishSession, Withdraw
  <2> QED BY <2>2, <2>3, <2>4, <2>5, <2>6, <2>7 DEF IndexNext
<1> QED BY <1>1, <1>2, PTL DEF IndexSpec

\* get_or_recompute never serves a snapshot older than QUOTA_SNAPSHOT_MAX_AGE,
\* nor one computed under settings that were replaced longer ago than that,
\* whatever saves and writers come between a command's look at the settings and
\* its look at the cache.
THEOREM ServedIsCurrentHolds == IndexSpec => ServedIsCurrent
<1>1. ASSUME CacheInv, IndexNext, reader # None, reader' = None
      PROVE  /\ ticks - cache'.at < MaxAge
             /\ cache'.age = settings \/ ticks - changedAt < MaxAge
  <2>1. ServeRead
    BY <1>1 DEF IndexNext, PublishIndex, PublishSession, Withdraw, Tick, SaveSettings, BeginRead
  <2>2. CASE ShouldRecompute(cache)
    <3> DEFINE entry == [at |-> ticks, generation |-> generation, age |-> reader, of |-> IndexReading(index)]
    <3>1. entry.at = ticks /\ entry.age = reader
      OBVIOUS
    <3>2. cache' = entry
      BY <2>1, <2>2 DEF ServeRead
    <3> HIDE DEF entry
    <3> QED BY <1>1, <3>1, <3>2, AgeAssumption DEF CacheInv
  <2>3. CASE ~ShouldRecompute(cache)
    <3>1. cache' = cache /\ cache # None /\ ~(ticks - cache.at >= MaxAge)
      BY <2>1, <2>3 DEF ServeRead, ShouldRecompute
    <3> QED BY <1>1, <3>1, AgeAssumption DEF CacheInv
  <2> QED BY <2>2, <2>3
<1> QED BY <1>1, CacheInvariant, PTL DEF IndexSpec, ServedIsCurrent


-----------------------------------------------------------------------------
(* The conversation with the command line (AppServer).                     *)

Messages == [kind : {"ok", "error", "notification", "garbage"}, id : Int,
             account : {ApprovedAccount, OtherAccount, None}]
ClientRecords ==
    [phase : {"idle", "initialize", "account", "rates", "done", "failed"}, asked : Nat,
     received : Nat, reading : {ApprovedAccount, None},
     error : {None, "offline", "launch_failed", "account_changed", "protocol_mismatch",
              "provider_error", "provider_outage", "timeout"}]
Children == [alive : BOOLEAN, reader : BOOLEAN, said : Seq(Messages)]

ConversationTypes ==
    /\ client \in [Clients -> ClientRecords]
    /\ child \in [Clients -> Children]
    /\ readers \in Nat
    /\ account \in {ApprovedAccount, OtherAccount}

ConversationInv == ConversationTypes /\ ReadingsAreApproved

\* The pipe readers are finitely many; one more and one less are counted so.
LEMMA ReadersAreCounted ==
    ASSUME NEW S \in SUBSET Clients, NEW T \in SUBSET Clients, NEW c \in Clients
    PROVE  /\ IsFiniteSet(S) /\ Cardinality(S) \in Nat
           /\ c \notin S /\ T = S \cup {c} => Cardinality(T) = Cardinality(S) + 1
           /\ c \in S /\ T = S \ {c} => Cardinality(T) = Cardinality(S) - 1
<1>1. IsFiniteSet(S)
  BY ReadersAssumption, FS_Subset
<1> QED BY <1>1, FS_CardinalityType, FS_AddElement, FS_RemoveElement

\* A step that leaves the pipe reader alone, and a process only to a request
\* that still waits.
LEMMA ConversationGoesOn ==
    ASSUME ConversationInv, NEW c \in Clients, NEW r \in ClientRecords, NEW h \in Children,
           client' = [client EXCEPT ![c] = r], child' = [child EXCEPT ![c] = h],
           h.reader = child[c].reader, readers' = readers,
           h.alive => r.phase \in {"initialize", "account", "rates"},
           account' \in {ApprovedAccount, OtherAccount}
    PROVE  ConversationInv'
<1>1. ConversationTypes'
  BY DEF ConversationInv, ConversationTypes
<1>2. \A d \in Clients : /\ client'[d] = (IF d = c THEN r ELSE client[d])
                         /\ child'[d] = (IF d = c THEN h ELSE child[d])
  BY DEF ConversationInv, ConversationTypes
<1>3. {d \in Clients : child'[d].reader} = {d \in Clients : child[d].reader}
  BY <1>2
<1>4. \A d \in Clients : client'[d].reading # None => client'[d].reading = ApprovedAccount
  BY <1>2 DEF ClientRecords, ConversationInv, ReadingsAreApproved
<1>5. \A d \in Clients : child'[d].alive => Waiting(d)'
  BY <1>2 DEF ConversationInv, ReadingsAreApproved, Waiting
<1>6. readers' = Cardinality({d \in Clients : child'[d].reader}) /\ readers' <= MaxReaders
  BY <1>3 DEF ConversationInv, ReadingsAreApproved
<1> QED BY <1>1, <1>4, <1>5, <1>6 DEF ConversationInv, ReadingsAreApproved

\* The same when the process is killed: the request is over.
LEMMA ConversationEnds ==
    ASSUME ConversationInv, NEW c \in Clients, NEW r \in ClientRecords,
           client' = [client EXCEPT ![c] = r], child' = Killed(c), readers' = readers,
           account' = account
    PROVE  ConversationInv'
<1> DEFINE h == [child[c] EXCEPT !.alive = FALSE, !.said = << >>]
<1>1. child \in [Clients -> Children] /\ child[c] \in Children
  BY DEF ConversationInv, ConversationTypes
<1>2. h \in Children /\ h.reader = child[c].reader /\ ~h.alive
  <2> DEFINE k == [child[c] EXCEPT !.alive = FALSE]
  <2>1. k \in Children /\ k.reader = child[c].reader
    BY <1>1 DEF Children
  <2>2. k.alive = FALSE
    BY <1>1 DEF Children
  <2>3. h = [k EXCEPT !.said = << >>] /\ << >> \in Seq(Messages)
    OBVIOUS
  <2> HIDE DEF h, k
  <2> QED BY <2>1, <2>2, <2>3 DEF Children
<1>3. child' = [child EXCEPT ![c] = h]
  BY <1>1 DEF Killed
<1>4. account' \in {ApprovedAccount, OtherAccount}
  BY DEF ConversationInv, ConversationTypes
<1> HIDE DEF h
<1> QED BY <1>2, <1>3, <1>4, ConversationGoesOn

LEMMA Failing ==
    ASSUME NEW why \in {"offline", "launch_failed", "account_changed", "protocol_mismatch",
                        "provider_error", "provider_outage", "timeout"}
    PROVE  /\ NoClient \in ClientRecords
           /\ [NoClient EXCEPT !.phase = "failed", !.error = why] \in ClientRecords
  BY DEF NoClient, ClientRecords

\* A message taken from the channel leaves a child of the same kind.
LEMMA Taken ==
    ASSUME ConversationTypes, NEW c \in Clients, child[c].said # << >>
    PROVE  LET h == [child[c] EXCEPT !.said = Tail(@)]
           IN  /\ h \in Children /\ h.reader = child[c].reader /\ h.alive = child[c].alive
               /\ Head(child[c].said) \in Messages
<1>1. child[c] \in Children
  BY DEF ConversationTypes
<1>2. child[c].said \in Seq(Messages)
  BY <1>1 DEF Children
<1>3. Tail(child[c].said) \in Seq(Messages) /\ Head(child[c].said) \in Messages
  BY <1>2
<1> QED BY <1>1, <1>3 DEF Children

LEMMA ReceiveKeeps ==
    ASSUME ConversationInv, NEW c \in Clients, Receive(c)
    PROVE  ConversationInv'
<1> DEFINE message == Head(child[c].said)
<1> DEFINE h == [child[c] EXCEPT !.said = Tail(@)]
<1>1. /\ Waiting(c) /\ readers' = readers /\ account' = account
      /\ account' \in {ApprovedAccount, OtherAccount}
  BY DEF Receive, ConversationInv, ConversationTypes
<1>2. /\ h \in Children /\ h.reader = child[c].reader /\ h.alive = child[c].alive
      /\ message \in Messages
  BY Taken DEF Receive, ConversationInv
<1>3. client[c] \in ClientRecords
  BY DEF ConversationInv, ConversationTypes
<1>4. ASSUME NEW why \in {"account_changed", "protocol_mismatch", "provider_error"},
             client' = Fails(c, why), child' = Killed(c)
      PROVE  ConversationInv'
  BY <1>1, <1>4, Failing, ConversationEnds DEF Fails
<1>5. CASE /\ client' = [client EXCEPT ![c].received = @ + 1]
           /\ child' = [child EXCEPT ![c].said = Tail(@)]
  <2> DEFINE r == [client[c] EXCEPT !.received = @ + 1]
  <2>1. r \in ClientRecords /\ r.phase = client[c].phase
    BY <1>3 DEF ClientRecords
  <2>2. client' = [client EXCEPT ![c] = r] /\ child' = [child EXCEPT ![c] = h]
    BY <1>5
  <2> HIDE DEF r, h
  <2> QED BY <1>1, <1>2, <2>1, <2>2, ConversationGoesOn DEF Waiting
<1>6. CASE Accept(c, message)
  <2>1. CASE client' = Fails(c, "account_changed") /\ child' = Killed(c)
    BY <1>4, <2>1
  <2>2. CASE /\ ApprovedRates(c, message) /\ child' = Killed(c)
             /\ client' = [client EXCEPT ![c].phase = "done", ![c].reading = message.account]
    <3> DEFINE r == [client[c] EXCEPT !.phase = "done", !.reading = message.account]
    <3>1. message.account = ApprovedAccount
      BY <2>2 DEF ApprovedRates
    <3>2. r \in ClientRecords
      BY <1>3, <3>1 DEF ClientRecords
    <3>3. client' = [client EXCEPT ![c] = r]
      BY <2>2, <1>3 DEF ConversationInv, ConversationTypes
    <3> HIDE DEF r
    <3> QED BY <1>1, <2>2, <3>2, <3>3, ConversationEnds
  <2>3. CASE /\ client[c].phase # "rates" /\ child' = [child EXCEPT ![c].said = Tail(@)]
             /\ client' = [client EXCEPT ![c].phase = Steps[client[c].phase], ![c].asked = @ + 1,
                                         ![c].received = @ + 1]
    <3>1. PICK next \in {"account", "rates"} : next = Steps[client[c].phase]
      BY <1>1, <2>3 DEF Waiting, Steps
    <3> DEFINE r == [client[c] EXCEPT !.phase = next, !.asked = @ + 1, !.received = @ + 1]
    <3>2. r \in ClientRecords /\ r.phase \in {"account", "rates"}
      <4> DEFINE q == [client[c] EXCEPT !.phase = next]
      <4>1. q \in ClientRecords /\ q.phase = next /\ q.asked = client[c].asked
        BY <1>3 DEF ClientRecords
      <4> DEFINE u == [q EXCEPT !.asked = @ + 1]
      <4>2. r = [u EXCEPT !.received = @ + 1]
        BY <4>1, <1>3 DEF ClientRecords
      <4> HIDE DEF q, r
      <4>3. u \in ClientRecords /\ u.phase = next
        BY <4>1 DEF ClientRecords
      <4> HIDE DEF u
      <4> QED BY <4>2, <4>3 DEF ClientRecords
    <3>3. client' = [client EXCEPT ![c] = r] /\ child' = [child EXCEPT ![c] = h]
      BY <2>3, <1>3, <3>1 DEF ConversationInv, ConversationTypes
    <3> HIDE DEF r, h
    <3> QED BY <1>1, <1>2, <3>2, <3>3, ConversationGoesOn
  <2> QED BY <1>6, <2>1, <2>2, <2>3 DEF Accept
<1> QED BY <1>4, <1>5, <1>6 DEF Receive


LEMMA SpawnKeeps ==
    ASSUME ConversationInv, NEW c \in Clients, Spawn(c)
    PROVE  ConversationInv'
<1>1. /\ client[c] \in ClientRecords /\ child[c] \in Children /\ account' = account
      /\ account' \in {ApprovedAccount, OtherAccount} /\ client[c].phase = "idle"
      /\ ~child[c].reader
  BY DEF ConversationInv, ConversationTypes, Spawn
<1>2. ASSUME NEW why \in {"offline", "launch_failed"}, client' = Fails(c, why),
             UNCHANGED <<child, readers>>
      PROVE  ConversationInv'
  <2> DEFINE r == [NoClient EXCEPT !.phase = "failed", !.error = why]
  <2>1. r \in ClientRecords /\ client' = [client EXCEPT ![c] = r]
    BY <1>2, Failing DEF Fails
  <2>2. ~child[c].alive
    BY <1>1 DEF ConversationInv, ReadingsAreApproved, Waiting
  <2>3. child' = [child EXCEPT ![c] = child[c]]
    BY <1>2 DEF ConversationInv, ConversationTypes
  <2> HIDE DEF r
  <2> QED BY <1>1, <1>2, <2>1, <2>2, <2>3, ConversationGoesOn
<1>3. ASSUME Permit,
             client' = [client EXCEPT ![c] = [NoClient EXCEPT !.phase = "initialize", !.asked = 1]],
             child' = [child EXCEPT ![c] = [alive |-> TRUE, reader |-> TRUE, said |-> << >>]],
             readers' = readers + 1
      PROVE  ConversationInv'
  <2> DEFINE r == [NoClient EXCEPT !.phase = "initialize", !.asked = 1]
             h == [alive |-> TRUE, reader |-> TRUE, said |-> << >>]
             S == {d \in Clients : child[d].reader}
             T == {d \in Clients : child'[d].reader}
  <2>1. /\ r \in ClientRecords /\ r.phase = "initialize" /\ r.reading = None
        /\ h \in Children /\ h.alive /\ h.reader
    <3>1. NoClient.asked = 0 /\ NoClient.reading = None
      BY DEF NoClient
    <3>2. r \in ClientRecords
      BY DEF NoClient, ClientRecords
    <3>3. r.phase = "initialize" /\ r.reading = None
      BY DEF NoClient
    <3>4. h \in Children
      BY DEF Children
    <3> QED BY <3>2, <3>3, <3>4
  <2>2. client' = [client EXCEPT ![c] = r] /\ child' = [child EXCEPT ![c] = h]
    BY <1>3
  <2> HIDE DEF r, h
  <2>3. ConversationTypes'
    <3>1. readers' \in Nat
      BY <1>3 DEF ConversationInv, ConversationTypes
    <3>2. client' \in [Clients -> ClientRecords] /\ child' \in [Clients -> Children]
      BY <2>1, <2>2 DEF ConversationInv, ConversationTypes
    <3> QED BY <1>1, <3>1, <3>2 DEF ConversationTypes
  <2>4. \A d \in Clients : /\ client'[d] = (IF d = c THEN r ELSE client[d])
                           /\ child'[d] = (IF d = c THEN h ELSE child[d])
    BY <2>2 DEF ConversationInv, ConversationTypes
  <2>5. c \notin S /\ T = S \cup {c}
    BY <1>1, <2>1, <2>4
  <2>6. Cardinality(T) = Cardinality(S) + 1
    <3> HIDE DEF S, T
    <3>1. S \in SUBSET Clients /\ T \in SUBSET Clients
      BY DEF S, T
    <3> QED BY <2>5, <3>1, ReadersAreCounted
  <2>7. readers' = Cardinality(T) /\ readers' <= MaxReaders
    BY <1>3, <2>6, ReadersAssumption
       DEF ConversationInv, ConversationTypes, ReadingsAreApproved, Permit
  <2>8. \A d \in Clients : /\ client'[d].reading # None => client'[d].reading = ApprovedAccount
                           /\ child'[d].alive => Waiting(d)'
    BY <2>1, <2>4 DEF ConversationInv, ReadingsAreApproved, Waiting
  <2> HIDE DEF S
  <2> QED BY <2>3, <2>7, <2>8 DEF ConversationInv, ReadingsAreApproved
<1> QED BY <1>2, <1>3 DEF Spawn

LEMMA ReaderEndsKeeps ==
    ASSUME ConversationInv, NEW c \in Clients, ReaderEnds(c)
    PROVE  ConversationInv'
<1> DEFINE h == [child[c] EXCEPT !.reader = FALSE]
           S == {d \in Clients : child[d].reader}
           T == {d \in Clients : child'[d].reader}
<1>1. child[c] \in Children /\ child[c].reader /\ readers' = readers - 1 /\ UNCHANGED <<client, account>>
  BY DEF ConversationInv, ConversationTypes, ReaderEnds
<1>2. h \in Children /\ h.alive = child[c].alive /\ ~h.reader
  BY <1>1 DEF Children
<1>3. child' = [child EXCEPT ![c] = h]
  BY DEF ReaderEnds
<1> HIDE DEF h
<1>4. \A d \in Clients : child'[d] = IF d = c THEN h ELSE child[d]
  BY <1>3 DEF ConversationInv, ConversationTypes
<1>5. c \in S /\ T = S \ {c}
  BY <1>1, <1>2, <1>4
<1>6. Cardinality(T) = Cardinality(S) - 1 /\ Cardinality(T) \in Nat /\ Cardinality(S) \in Nat
  <2>1. S \in SUBSET Clients /\ T \in SUBSET Clients
    OBVIOUS
  <2> HIDE DEF S, T
  <2> QED BY <1>5, <2>1, ReadersAreCounted
<1>7. readers' = Cardinality(T) /\ readers' \in Nat /\ readers' <= MaxReaders
  BY <1>1, <1>6, ReadersAssumption DEF ConversationInv, ReadingsAreApproved
<1>8. ConversationTypes'
  BY <1>1, <1>2, <1>3, <1>7 DEF ConversationInv, ConversationTypes
<1> HIDE DEF S
<1> QED BY <1>1, <1>2, <1>4, <1>7, <1>8 DEF ConversationInv, ReadingsAreApproved, Waiting

LEMMA SpeakKeeps ==
    ASSUME ConversationInv, NEW c \in Clients, Speak(c)
    PROVE  ConversationInv'
<1>1. /\ client[c] \in ClientRecords /\ child[c] \in Children
      /\ account \in {ApprovedAccount, OtherAccount}
  BY DEF ConversationInv, ConversationTypes
<1>2. PICK m \in Messages : Says(c, m)
  <2>1. client[c].asked \in Nat
    BY <1>1 DEF ClientRecords
  <2> QED BY <1>1, <2>1 DEF Speak, Messages
<1> DEFINE h == [child[c] EXCEPT !.said = Append(@, m)]
<1>3. Append(child[c].said, m) \in Seq(Messages)
  BY <1>1 DEF Children
<1>4. h \in Children /\ h.reader = child[c].reader /\ h.alive = child[c].alive
  BY <1>1, <1>3 DEF Children
<1>5. child' = [child EXCEPT ![c] = h] /\ UNCHANGED <<client, readers, account>>
  BY <1>2 DEF Says
<1>6. client' = [client EXCEPT ![c] = client[c]]
  BY <1>5 DEF ConversationInv, ConversationTypes
<1>7. h.alive => client[c].phase \in {"initialize", "account", "rates"}
  BY <1>4 DEF ConversationInv, ReadingsAreApproved, Waiting
<1> HIDE DEF h
<1> QED BY <1>1, <1>4, <1>5, <1>6, <1>7, ConversationGoesOn

\* A quota reading is of the approved account and of no other, however often the
\* user logs in elsewhere between the answers of one conversation; no process
\* outlives its request, and every pipe reader holds one of the MAX_READERS
\* permits for as long as it lives.
THEOREM ReadingsAreApprovedHolds == ConversationSpec => []ReadingsAreApproved
<1>1. ServerInit => ConversationInv
  <2> SUFFICES ASSUME ServerInit PROVE ConversationInv
    OBVIOUS
  <2>1. {c \in Clients : child[c].reader} = {}
    BY DEF ServerInit, NoChild
  <2>2. Cardinality({c \in Clients : child[c].reader}) = 0
    BY <2>1, FS_EmptySet
  <2>3. NoClient \in ClientRecords /\ NoChild \in Children
    BY DEF NoClient, NoChild, ClientRecords, Children
  <2>4. ConversationTypes
    BY <2>3 DEF ServerInit, ConversationTypes
  <2>5. \A c \in Clients : client[c].reading = None /\ ~child[c].alive
    BY DEF ServerInit, NoClient, NoChild
  <2>6. readers = 0
    BY DEF ServerInit
  <2> QED BY <2>2, <2>4, <2>5, <2>6, ReadersAssumption DEF ConversationInv, ReadingsAreApproved
<1>2. ConversationInv /\ [ServerNext]_serverVars => ConversationInv'
  <2> SUFFICES ASSUME ConversationInv, [ServerNext]_serverVars PROVE ConversationInv'
    OBVIOUS
  <2>1. ASSUME NEW c \in Clients,
               Spawn(c) \/ Speak(c) \/ ReaderEnds(c) \/ Receive(c)
        PROVE  ConversationInv'
    BY <2>1, SpawnKeeps, SpeakKeeps, ReaderEndsKeeps, ReceiveKeeps
  <2>2. ASSUME NEW c \in Clients, Disconnected(c) \/ Timeout(c) PROVE ConversationInv'
    <3>1. \E why \in {"provider_outage", "timeout"} :
              client' = Fails(c, why) /\ child' = Killed(c) /\ UNCHANGED <<readers, account>>
      BY <2>2 DEF Disconnected, Timeout
    <3> QED BY <3>1, Failing, ConversationEnds DEF Fails
  <2>3. ASSUME NEW c \in Clients, Return(c) PROVE ConversationInv'
    <3>1. /\ client' = [client EXCEPT ![c] = NoClient] /\ ~child[c].alive
          /\ UNCHANGED <<child, readers, account>>
      BY <2>3 DEF Return, ConversationInv, ReadingsAreApproved, Waiting
    <3>2. child[c] \in Children /\ child' = [child EXCEPT ![c] = child[c]]
      BY <3>1 DEF ConversationInv, ConversationTypes
    <3>3. NoClient \in ClientRecords /\ account' \in {ApprovedAccount, OtherAccount}
      BY <3>1 DEF ConversationInv, ConversationTypes, NoClient, ClientRecords
    <3> QED BY <3>1, <3>2, <3>3, ConversationGoesOn
  <2>4. CASE SwitchAccount \/ UNCHANGED serverVars
    BY <2>4 DEF SwitchAccount, serverVars, ConversationInv, ConversationTypes,
       ReadingsAreApproved, Waiting
  <2> QED BY <2>1, <2>2, <2>3, <2>4 DEF ServerNext
<1>3. ConversationInv => ReadingsAreApproved
  BY DEF ConversationInv
<1> QED BY <1>1, <1>2, <1>3, PTL DEF ConversationSpec

-----------------------------------------------------------------------------
(* Provider status.                                                        *)

\* Opt-ins, opt-outs and the tasks of any number of requests.
StatusSpec == StatusInit /\ [][StatusNext]_statusVars

Moments == Nat \cup {None}
StatusRows ==
    [indicator : Indicators \cup {None}, checked : Moments, attempted : Moments, next : Moments,
     failure : BOOLEAN, failures : Nat, in_flight : BOOLEAN, of : Moments]
Phases == {"none", "queued", "fetching"}

\* A request of the present opt-in.
Current(k) == task[k].phase # "none" /\ task[k].opt = toggles

StatusTypes ==
    /\ enabled \in BOOLEAN /\ toggles \in 0..MaxToggles /\ service = toggles /\ instant \in Nat
    /\ row \in StatusRows
    /\ task \in [Tasks -> [phase : Phases, generation : Nat, opt : Nat]]

\* The generation tells the opt-ins apart.
OfAnOptIn == \A k \in Tasks : task[k].phase # "none" => task[k].opt <= toggles
      /\ task[k].generation = task[k].opt

\* The row says of the present opt-in what its requests did.
RowIsCurrent ==
    /\ \A k \in Tasks : Current(k) => row.in_flight
    /\ row.in_flight => enabled /\ row.attempted # None
    /\ row.checked # None => enabled /\ row.attempted # None
    /\ row.of # None => row.of = toggles
    /\ row.attempted # None => row.attempted <= instant
    /\ row.next # None => row.attempted # None /\ row.next >= row.attempted + Interval

StatusInv ==
    /\ StatusTypes /\ OfAnOptIn /\ RowIsCurrent
    /\ \A j, k \in Tasks : Current(j) /\ Current(k) => j = k

-----------------------------------------------------------------------------
\* However often it fails, the next request is an interval away at least.
LEMMA BackoffIsAnInterval ==
    ASSUME NEW n \in Nat \ {0}, NEW retry \in Nat
    PROVE  Max({Backoff(n), retry}) \in Nat /\ Max({Backoff(n), retry}) >= Interval
<1>1. \A a, b \in Int : Min({a, b}) = (IF a <= b THEN a ELSE b) /\ Max({a, b}) = (IF a >= b THEN a ELSE b)
  BY DEF Min, Max
<1>2. PICK d \in {1, 2, 4, 8, 16} : d = Doubled[Min({n, 4}) + 1]
  <2>1. Min({n, 4}) \in 1..4
    BY <1>1
  <2> QED BY <2>1 DEF Doubled
<1>3. Interval * d \in Nat /\ Interval * d >= Interval
  <2>1. Interval \in Nat
    BY StatusAssumption
  <2>2. CASE d = 1 BY <2>1, <2>2
  <2>3. CASE d = 2 BY <2>1, <2>3
  <2>4. CASE d = 4 BY <2>1, <2>4
  <2>5. CASE d = 8 BY <2>1, <2>5
  <2>6. CASE d = 16 BY <2>1, <2>6
  <2> QED BY <2>2, <2>3, <2>4, <2>5, <2>6
<1> DEFINE product == Interval * d
<1>4. Backoff(n) = Min({product, BackoffLimit})
  BY <1>2 DEF Backoff
<1>5. product \in Nat /\ product >= Interval
  BY <1>3
<1> HIDE DEF product
<1>6. Backoff(n) \in Nat /\ Backoff(n) >= Interval
  BY <1>1, <1>4, <1>5, StatusAssumption
<1> DEFINE wait == Backoff(n)
<1>7. wait \in Nat /\ wait >= Interval
  BY <1>6
<1> HIDE DEF wait
<1>8. Max({wait, retry}) = IF wait >= retry THEN wait ELSE retry
  BY <1>1, <1>7
<1>9. Max({wait, retry}) \in Nat /\ Max({wait, retry}) >= Interval
  BY <1>7, <1>8, StatusAssumption
<1> QED BY <1>9 DEF wait

LEMMA StatusInitial == ASSUME StatusInit PROVE StatusInv
<1>1. NoRow \in StatusRows /\ NoTask \in [phase : Phases, generation : Nat, opt : Nat]
  BY DEF NoRow, StatusRows, Moments, NoTask, Phases
<1>2. StatusTypes
  <2>0. enabled \in BOOLEAN
    BY DEF StatusInit
  <2>1. toggles \in 0..MaxToggles /\ service = toggles /\ instant \in Nat
    BY StatusAssumption DEF StatusInit
  <2>2. row \in StatusRows /\ task \in [Tasks -> [phase : Phases, generation : Nat, opt : Nat]]
    BY <1>1 DEF StatusInit
  <2> QED BY <2>0, <2>1, <2>2 DEF StatusTypes
<1>3. \A k \in Tasks : task[k].phase = "none"
  BY DEF StatusInit, NoTask
<1>4. RowIsCurrent
  BY <1>3 DEF StatusInit, RowIsCurrent, Current, NoRow
<1> QED BY <1>2, <1>3, <1>4 DEF StatusInv, OfAnOptIn, Current

LEMMA ConfigureKeeps == ASSUME StatusInv, Configure PROVE StatusInv'
<1>1. NoRow \in StatusRows
  BY DEF NoRow, StatusRows, Moments
<1>2. /\ toggles' = toggles + 1 /\ toggles' \in 0..MaxToggles /\ service' = toggles'
      /\ enabled' = ~enabled /\ row' = NoRow /\ UNCHANGED <<task, instant>>
  <2>1. (toggles + 1) % GenerationLimit = toggles + 1
    BY StatusAssumption DEF Configure, StatusInv, StatusTypes
  <2> QED BY <2>1, StatusAssumption DEF Configure, StatusInv, StatusTypes
<1>3. \A k \in Tasks : ~Current(k)'
  BY <1>2, StatusAssumption DEF StatusInv, StatusTypes, OfAnOptIn, Current
<1> QED BY <1>1, <1>2, <1>3, StatusAssumption
        DEF StatusInv, StatusTypes, OfAnOptIn, RowIsCurrent, NoRow

LEMMA BeginRequestKeeps == ASSUME StatusInv, NEW k \in Tasks, BeginRequest(k) PROVE StatusInv'
<1> DEFINE a == [row EXCEPT !.in_flight = TRUE]
           b == [a EXCEPT !.attempted = instant]
           c == [b EXCEPT !.next = instant + Interval]
           t == [phase |-> "queued", generation |-> service, opt |-> toggles]
<1>1. row' = c /\ enabled /\ ~row.in_flight /\ task' = [task EXCEPT ![k] = t]
      /\ UNCHANGED <<enabled, service, instant, toggles>>
  BY DEF BeginRequest
<1>2. a \in StatusRows /\ a.in_flight /\ a.checked = row.checked /\ a.of = row.of
  BY DEF StatusInv, StatusTypes, StatusRows
<1> HIDE DEF a
<1>3. b \in StatusRows /\ b.in_flight /\ b.checked = row.checked /\ b.of = row.of /\ b.attempted = instant
  BY <1>2 DEF StatusInv, StatusTypes, StatusRows, Moments
<1> HIDE DEF b
<1>4. /\ c \in StatusRows /\ c.in_flight /\ c.checked = row.checked /\ c.of = row.of
      /\ c.attempted = instant /\ c.next = instant + Interval
  BY <1>3, StatusAssumption DEF StatusInv, StatusTypes, StatusRows, Moments
<1> HIDE DEF c
<1>5. /\ t \in [phase : Phases, generation : Nat, opt : Nat]
      /\ t.phase = "queued" /\ t.generation = toggles /\ t.opt = toggles
  BY StatusAssumption DEF StatusInv, StatusTypes, Phases
<1> HIDE DEF t
<1>6. /\ task' \in [Tasks -> [phase : Phases, generation : Nat, opt : Nat]]
      /\ task'[k] = t /\ \A j \in Tasks \ {k} : task'[j] = task[j]
  BY <1>1, <1>5 DEF StatusInv, StatusTypes
<1>7. \A j \in Tasks : Current(j)' => j = k
  BY <1>1, <1>6 DEF StatusInv, RowIsCurrent, Current
<1>8. OfAnOptIn' /\ StatusTypes'
  BY <1>1, <1>4, <1>5, <1>6 DEF StatusInv, StatusTypes, OfAnOptIn
<1>9. RowIsCurrent'
  BY <1>1, <1>4, StatusAssumption DEF StatusInv, StatusTypes, RowIsCurrent
<1> QED BY <1>7, <1>8, <1>9 DEF StatusInv

\* A task that ends, or goes on, keeps what was said of the others.
LEMMA StartFetchKeeps == ASSUME StatusInv, NEW k \in Tasks, StartFetch(k) PROVE StatusInv'
<1>1. UNCHANGED <<enabled, service, row, instant, toggles>>
  BY DEF StartFetch
<1>2. /\ task' \in [Tasks -> [phase : Phases, generation : Nat, opt : Nat]]
      /\ \A j \in Tasks : task'[j].phase # "none" =>
            task[j].phase # "none" /\ task'[j].opt = task[j].opt /\ task'[j].generation = task[j].generation
  <2>1. CASE enabled /\ task[k].generation = service
    <3>1. task' = [task EXCEPT ![k].phase = "fetching"] /\ task[k].phase = "queued"
      BY <2>1 DEF StartFetch
    <3> QED BY <3>1 DEF StatusInv, StatusTypes, Phases
  <2>2. CASE ~(enabled /\ task[k].generation = service)
    <3>1. task' = [task EXCEPT ![k] = NoTask]
      BY <2>2 DEF StartFetch, Ends
    <3> QED BY <3>1 DEF StatusInv, StatusTypes, Phases, NoTask
  <2> QED BY <2>1, <2>2
<1>3. \A j \in Tasks : Current(j)' => Current(j)
  BY <1>1, <1>2 DEF Current
<1>4. StatusTypes' /\ OfAnOptIn'
  BY <1>1, <1>2 DEF StatusInv, StatusTypes, OfAnOptIn
<1>5. RowIsCurrent'
  BY <1>1, <1>3 DEF StatusInv, RowIsCurrent
<1> QED BY <1>3, <1>4, <1>5 DEF StatusInv

\* A late answer changes nothing; an answer in time is to the only request.
LEMMA FinishKeeps ==
    ASSUME StatusInv, NEW k \in Tasks, NEW changed \in StatusRows, FinishWith(k, changed),
           ~changed.in_flight, changed.attempted = row.attempted,
           changed.of \in {row.of, task[k].opt}, changed.checked \in {row.checked, instant},
           changed.next \in Nat, changed.next >= instant + Interval
    PROVE  StatusInv'
<1>1. task[k].phase = "fetching" /\ UNCHANGED <<enabled, service, instant, toggles>>
      /\ task' = [task EXCEPT ![k] = NoTask] /\ row' = IF Applies(k) THEN changed ELSE row
  BY DEF FinishWith, Ends
<1>2. task' \in [Tasks -> [phase : Phases, generation : Nat, opt : Nat]] /\ task'[k].phase = "none"
      /\ \A j \in Tasks \ {k} : task'[j] = task[j]
  BY <1>1 DEF StatusInv, StatusTypes, Phases, NoTask
<1>3. \A j \in Tasks : Current(j)' => Current(j) /\ j # k
  BY <1>1, <1>2 DEF Current
<1>4. OfAnOptIn'
  BY <1>1, <1>2 DEF StatusInv, OfAnOptIn
<1>5. StatusTypes'
  BY <1>1, <1>2 DEF StatusInv, StatusTypes
<1>6. RowIsCurrent'
  <2>1. CASE ~Applies(k)
    BY <1>1, <1>3, <2>1 DEF StatusInv, RowIsCurrent
  <2>2. CASE Applies(k)
    <3>1. enabled /\ Current(k) /\ task[k].opt = toggles
      BY <1>1, <2>2 DEF Applies, StatusInv, StatusTypes, OfAnOptIn, Current
    <3>2. \A j \in Tasks : ~Current(j)'
      BY <3>1, <1>3 DEF StatusInv
    <3>3. row.in_flight /\ row.attempted # None /\ row.attempted \in Nat /\ row.attempted <= instant
          /\ instant \in Nat
      BY <3>1 DEF StatusInv, StatusTypes, StatusRows, Moments, RowIsCurrent
    <3>4. row' = changed /\ changed.of # None => changed.of = toggles
      BY <1>1, <2>2, <3>1 DEF StatusInv, RowIsCurrent
    <3>5. changed.next >= changed.attempted + Interval
      BY <3>3, StatusAssumption
    <3>6. row' = changed
      BY <1>1, <2>2
    <3> QED BY <1>1, <3>1, <3>2, <3>3, <3>4, <3>5, <3>6 DEF StatusInv, RowIsCurrent
  <2> QED BY <2>1, <2>2
<1> QED BY <1>3, <1>4, <1>5, <1>6 DEF StatusInv

LEMMA FetchSucceedsKeeps == ASSUME StatusInv, NEW k \in Tasks, FetchSucceeds(k) PROVE StatusInv'
<1>1. PICK ind \in Indicators :
        FinishWith(k, [row EXCEPT !.in_flight = FALSE, !.indicator = ind, !.checked = instant,
                                  !.failure = FALSE, !.failures = 0, !.next = instant + Interval,
                                  !.of = task[k].opt])
  BY DEF FetchSucceeds
<1> DEFINE a == [row EXCEPT !.in_flight = FALSE]
           b == [a EXCEPT !.indicator = ind]
           c == [b EXCEPT !.checked = instant]
           d == [c EXCEPT !.failure = FALSE]
           e == [d EXCEPT !.failures = 0]
           f == [e EXCEPT !.next = instant + Interval]
           g == [f EXCEPT !.of = task[k].opt]
<1>2. FinishWith(k, g)
  <2>1. g = [row EXCEPT !.in_flight = FALSE, !.indicator = ind, !.checked = instant,
                        !.failure = FALSE, !.failures = 0, !.next = instant + Interval, !.of = task[k].opt]
    OBVIOUS
  <2> HIDE DEF g
  <2> QED BY <1>1, <2>1
<1>t. row \in StatusRows /\ instant \in Nat /\ instant + Interval \in Nat /\ task[k].opt \in Nat
  BY StatusAssumption DEF StatusInv, StatusTypes
<1>3. a \in StatusRows /\ ~a.in_flight /\ a.attempted = row.attempted
  BY <1>t DEF StatusRows
<1> HIDE DEF a
<1>4. b \in StatusRows /\ ~b.in_flight /\ b.attempted = row.attempted
  BY <1>3 DEF StatusRows
<1> HIDE DEF b
<1>5. c \in StatusRows /\ ~c.in_flight /\ c.attempted = row.attempted /\ c.checked = instant
  BY <1>t, <1>4 DEF StatusRows, Moments
<1> HIDE DEF c
<1>6. d \in StatusRows /\ ~d.in_flight /\ d.attempted = row.attempted /\ d.checked = instant
  BY <1>5 DEF StatusRows
<1> HIDE DEF d
<1>7. e \in StatusRows /\ ~e.in_flight /\ e.attempted = row.attempted /\ e.checked = instant
  BY <1>6 DEF StatusRows
<1> HIDE DEF e
<1>8. f \in StatusRows /\ ~f.in_flight /\ f.attempted = row.attempted /\ f.checked = instant
      /\ f.next = instant + Interval
  BY <1>t, <1>7 DEF StatusRows, Moments
<1> HIDE DEF f
<1>9. /\ g \in StatusRows /\ ~g.in_flight /\ g.attempted = row.attempted /\ g.checked = instant
      /\ g.next = instant + Interval /\ g.of = task[k].opt
  BY <1>t, <1>8 DEF StatusRows, Moments
<1> HIDE DEF g
<1> QED BY <1>t, <1>2, <1>9, StatusAssumption, FinishKeeps

LEMMA FetchFailsKeeps == ASSUME StatusInv, NEW k \in Tasks, FetchFails(k) PROVE StatusInv'
<1>1. PICK retry \in RetryAfters :
        FinishWith(k, [row EXCEPT !.in_flight = FALSE, !.failure = TRUE, !.failures = @ + 1,
                                  !.next = instant + Max({Backoff(row.failures + 1), retry})])
  BY DEF FetchFails
<1> DEFINE later == Max({Backoff(row.failures + 1), retry})
           a == [row EXCEPT !.in_flight = FALSE]
           b == [a EXCEPT !.failure = TRUE]
           c == [b EXCEPT !.failures = row.failures + 1]
           d == [c EXCEPT !.next = instant + later]
<1>t. row \in StatusRows /\ instant \in Nat /\ row.failures + 1 \in Nat \ {0} /\ retry \in Nat
  BY StatusAssumption DEF StatusInv, StatusTypes, StatusRows
<1>l. later \in Nat /\ later >= Interval
  BY <1>t, BackoffIsAnInterval
<1>2. FinishWith(k, d)
  <2>1. d = [row EXCEPT !.in_flight = FALSE, !.failure = TRUE, !.failures = @ + 1, !.next = instant + later]
    BY <1>t DEF StatusRows
  <2> HIDE DEF d
  <2> QED BY <1>1, <2>1
<1> HIDE DEF later
<1>3. a \in StatusRows /\ ~a.in_flight /\ a.attempted = row.attempted /\ a.checked = row.checked
      /\ a.of = row.of
  BY <1>t DEF StatusRows
<1> HIDE DEF a
<1>4. b \in StatusRows /\ ~b.in_flight /\ b.attempted = row.attempted /\ b.checked = row.checked
      /\ b.of = row.of
  BY <1>3 DEF StatusRows
<1> HIDE DEF b
<1>5. c \in StatusRows /\ ~c.in_flight /\ c.attempted = row.attempted /\ c.checked = row.checked
      /\ c.of = row.of
  BY <1>t, <1>4 DEF StatusRows
<1> HIDE DEF c
<1>6. /\ d \in StatusRows /\ ~d.in_flight /\ d.attempted = row.attempted /\ d.checked = row.checked
      /\ d.of = row.of
      /\ d.next = instant + later
  BY <1>t, <1>l, <1>5 DEF StatusRows, Moments
<1> HIDE DEF d
<1>7. d.next \in Nat /\ d.next >= instant + Interval
  BY <1>t, <1>l, <1>6, StatusAssumption
<1> QED BY <1>2, <1>6, <1>7, FinishKeeps

LEMMA StatusStep == ASSUME StatusInv, [StatusNext]_statusVars PROVE StatusInv'
<1>1. CASE Configure
  BY <1>1, ConfigureKeeps
<1>2. CASE Elapse
  BY <1>2 DEF Elapse, StatusInv, StatusTypes, StatusRows, Moments, OfAnOptIn, RowIsCurrent, Current
<1>3. ASSUME NEW k \in Tasks, BeginRequest(k) \/ StartFetch(k) \/ FetchSucceeds(k) \/ FetchFails(k)
      PROVE StatusInv'
  BY <1>3, BeginRequestKeeps, StartFetchKeeps, FetchSucceedsKeeps, FetchFailsKeeps
<1>4. CASE UNCHANGED statusVars
  BY <1>4 DEF statusVars, StatusInv, StatusTypes, OfAnOptIn, RowIsCurrent, Current
<1> QED BY <1>1, <1>2, <1>3, <1>4 DEF StatusNext

LEMMA StatusImplied == ASSUME StatusInv PROVE OptOutHolds
<1>1. Cardinality({k \in Tasks : task[k].phase # "none" /\ task[k].opt = toggles}) <= 1
  <2> DEFINE S == {k \in Tasks : Current(k)}
  <2>0. {k \in Tasks : task[k].phase # "none" /\ task[k].opt = toggles} = S
    BY DEF Current
  <2>1. CASE S = {}
    BY <2>0, <2>1, FS_EmptySet
  <2>2. CASE S # {}
    <3>1. PICK k \in S : S = {k}
      BY <2>2 DEF StatusInv
    <3>2. Cardinality({k}) = 1
      BY FS_Singleton
    <3> HIDE DEF S
    <3> QED BY <2>0, <3>1, <3>2
  <2> QED BY <2>1, <2>2
<1>2. row.checked # None => row.attempted # None /\ Availability # "disabled"
  <2>1. enabled => Availability # "disabled"
    BY DEF Availability
  <2> QED BY <2>1 DEF StatusInv, RowIsCurrent
<1> QED BY <1>1, <1>2 DEF StatusInv, RowIsCurrent, OptOutHolds

\* Whatever order opt-outs, opt-ins and late answers come in (provider_status.rs:
\* configure, begin, finish), nothing asked for before an opt-out is shown after it,
\* at most one request is under way for the present opt-in, and after a request the
\* next one waits an interval at least, however it ended.
THEOREM OptOutAlwaysHolds == StatusSpec => []OptOutHolds
  BY StatusInitial, StatusStep, StatusImplied, PTL DEF StatusSpec

-----------------------------------------------------------------------------
(* The scan cache.                                                         *)

\* Scans, a rebuild, releases of the program and writers of the file.
CacheSpec == CacheInit /\ [][CacheNext]_cacheVars

ScanStages == {"closed", "opened", "observed", "stamped", "looked", "missed", "restamped",
               "parsed", "ready", "pruning"}
ScanRecords ==
    [at : ScanStages, generation : Nat, key : Spellings, before : FileGenerations \cup {Nothing},
     stamp : Nat \cup {Nothing}, session : ParsedSessions \cup {Nothing}, touched : SUBSET Spellings,
     result : Handed \cup {Nothing}]
RebuildRecords ==
    [at : {"idle", "observed", "parsed", "recorded", "swept"}, before : FileGenerations \cup {Nothing},
     session : ParsedSessions \cup {Nothing}, written : {DiskSpelling, Nothing}]

CacheTypes ==
    /\ onDisk \in FileGenerations \cup {Nothing}
    /\ rows \in [Spellings -> CachedRows \cup {Nothing}]
    /\ cacheMeta \in [generation : Nat, parse_version : Nat]
    /\ build \in [parse_version : Nat, revision : Nat]
    /\ scans \in [Scans -> ScanRecords]
    /\ rebuild \in RebuildRecords

\* A session is of the generation of the file that is there now.
OfTheFile(session) == session.version = onDisk.version /\ session.identity = onDisk.identity

\* A file that looks as it did before has not changed since.
LookedAtEarlier(before) ==
    before # Nothing /\ onDisk # Nothing =>
        before.version <= onDisk.version /\ (before.version = onDisk.version => before = onDisk)

\* What a scan has read between two looks that agree is of the file.
ReadsAgree(s) ==
    scans[s].before # Nothing /\ scans[s].before = onDisk =>
        /\ scans[s].at \in {"stamped", "looked", "restamped", "parsed"} => scans[s].stamp = onDisk.version
        /\ \/ scans[s].at = "looked" /\ scans[s].session # Nothing
           \/ scans[s].at \in {"parsed", "ready"}
           => scans[s].session # Nothing /\ OfTheFile(scans[s].session)

\* The rows that the newest scan used carry its generation.
Marked(s) ==
    /\ scans[s].generation <= cacheMeta.generation
    /\ scans[s].at \in {"opened", "observed", "stamped"} => scans[s].touched = {}
    /\ scans[s].generation = cacheMeta.generation =>
          \A k \in scans[s].touched : rows[k] # Nothing /\ rows[k].seen >= scans[s].generation

HandedOver(s) ==
    scans[s].result # Nothing /\ scans[s].result.before # Nothing =>
        /\ scans[s].result.session.version = scans[s].result.before.version
        /\ scans[s].result.session.identity = scans[s].result.before.identity

ScanInv(s) == LookedAtEarlier(scans[s].before) /\ ReadsAgree(s) /\ Marked(s) /\ HandedOver(s)

\* A rebuild runs alone, and what it parsed is of its build.
RebuildInv ==
    /\ rebuild.at # "idle" =>
          \A s \in Scans : scans[s].at = "closed" /\ scans[s].generation < cacheMeta.generation
    /\ LookedAtEarlier(rebuild.before)
    /\ rebuild.at \in {"observed", "parsed"} => rebuild.before # Nothing
    /\ rebuild.at = "parsed" /\ rebuild.session # Nothing =>
          /\ rebuild.session.revision = build.revision
          /\ rebuild.before = onDisk => OfTheFile(rebuild.session)
    /\ rebuild.at = "recorded" /\ rebuild.written # Nothing /\ rows[rebuild.written] # Nothing =>
          rows[rebuild.written].session.revision = build.revision
    /\ RebuildRefreshesRows

ScanCacheInv == CacheTypes /\ RowsMatchTheirStamp /\ (\A s \in Scans : ScanInv(s)) /\ RebuildInv

LEMMA SeenIsLater ==
    ASSUME NEW old \in Nat, NEW number \in Nat
    PROVE  Seen(old, number) \in Nat /\ Seen(old, number) >= old /\ Seen(old, number) >= number
<1> DEFINE top == IF old >= number THEN old ELSE number
<1>1. top \in {old, number} /\ \A y \in {old, number} : top >= y
  OBVIOUS
<1> QED BY <1>1 DEF Seen, Max

LEMMA CacheInitial == ASSUME CacheInit PROVE ScanCacheInv
<1>1. CacheTypes
  BY CacheAssumption DEF CacheInit, CacheTypes, FileGenerations, ScanRecords, RebuildRecords, ScanStages,
        Idle, NoRebuild
<1>2. RowsMatchTheirStamp /\ \A s \in Scans : ScanInv(s)
  BY CacheAssumption DEF CacheInit, RowsMatchTheirStamp, ScanInv, LookedAtEarlier, ReadsAgree, Marked,
        HandedOver, Idle
<1>3. RebuildInv
  BY CacheAssumption DEF CacheInit, RebuildInv, LookedAtEarlier, RebuildRefreshesRows, NoRebuild
<1> QED BY <1>1, <1>2, <1>3 DEF ScanCacheInv

\* Where the file, its reads and the generation stand, a scan needs its rows only.
LEMMA ScanStands ==
    ASSUME ScanCacheInv, NEW s \in Scans, scans'[s] = scans[s], UNCHANGED <<onDisk, cacheMeta>>,
           \A k \in scans[s].touched : scans[s].generation = cacheMeta.generation =>
               rows'[k] # Nothing /\ rows'[k].seen >= scans[s].generation
    PROVE  ScanInv(s)'
BY DEF ScanCacheInv, CacheTypes, ScanInv, LookedAtEarlier, ReadsAgree, OfTheFile, Marked, HandedOver,
      ScanRecords

LEMMA RebuildStands ==
    ASSUME ScanCacheInv, UNCHANGED <<onDisk, cacheMeta, build, rebuild>>, rebuild.at = "idle"
    PROVE  RebuildInv'
BY DEF ScanCacheInv, RebuildInv, LookedAtEarlier, RebuildRefreshesRows

-----------------------------------------------------------------------------
LEMMA ChangeFileKeeps == ASSUME ScanCacheInv, ChangeFile PROVE ScanCacheInv'
<1> USE DEF ScanCacheInv, ChangeFile
<1>1. onDisk \in FileGenerations
  BY DEF CacheTypes
<1>2. /\ onDisk' \in FileGenerations \cup {Nothing}
      /\ onDisk' # Nothing => onDisk'.version = onDisk.version + 1
  <2>1. CASE onDisk' = [onDisk EXCEPT !.version = @ + 1]
    BY <1>1, <2>1 DEF FileGenerations
  <2>2. CASE onDisk' = [identity |-> onDisk.identity + 1, version |-> onDisk.version + 1]
    BY <1>1, <2>2 DEF FileGenerations
  <2> QED BY <2>1, <2>2
<1>3. ASSUME NEW before \in FileGenerations \cup {Nothing}, LookedAtEarlier(before)
      PROVE  LookedAtEarlier(before)' /\ (before # Nothing => before # onDisk')
  <2>1. before # Nothing => before \in FileGenerations /\ before.version <= onDisk.version
    BY <1>1, <1>3, CacheAssumption DEF LookedAtEarlier
  <2>2. before # Nothing /\ onDisk' # Nothing => before.version < onDisk'.version
    BY <1>1, <1>2, <2>1 DEF FileGenerations
  <2> QED BY <1>1, <1>2, <2>1, <2>2 DEF LookedAtEarlier, FileGenerations
<1>4. CacheTypes' /\ RowsMatchTheirStamp'
  BY <1>2 DEF CacheTypes, RowsMatchTheirStamp
<1>5. ASSUME NEW s \in Scans PROVE ScanInv(s)'
  <2>1. scans[s].before \in FileGenerations \cup {Nothing}
    BY DEF CacheTypes, ScanRecords
  <2> QED BY <1>3, <2>1 DEF ScanInv, ReadsAgree, Marked, HandedOver
<1>6. RebuildInv'
  <2>1. rebuild.before \in FileGenerations \cup {Nothing}
    BY DEF CacheTypes, RebuildRecords
  <2>2. LookedAtEarlier(rebuild.before)' /\ (rebuild.before # Nothing => rebuild.before # onDisk')
    BY <1>3, <2>1 DEF RebuildInv
  <2>3. rebuild.at = "parsed" => rebuild.before # Nothing
    BY DEF RebuildInv
  <2> QED BY <2>2, <2>3 DEF RebuildInv, RebuildRefreshesRows
<1> QED BY <1>4, <1>5, <1>6

LEMMA UpgradeKeeps == ASSUME ScanCacheInv, Upgrade PROVE ScanCacheInv'
<1> USE DEF ScanCacheInv, Upgrade
<1>1. Idle \in ScanRecords /\ NoRebuild \in RebuildRecords
  BY CacheAssumption DEF Idle, NoRebuild, ScanRecords, RebuildRecords, ScanStages
<1>2. CacheTypes' /\ RowsMatchTheirStamp'
  BY <1>1 DEF CacheTypes, RowsMatchTheirStamp
<1>3. \A s \in Scans : ScanInv(s)'
  BY CacheAssumption DEF ScanInv, LookedAtEarlier, ReadsAgree, Marked, HandedOver, Idle, CacheTypes
<1>4. RebuildInv'
  BY CacheAssumption DEF RebuildInv, LookedAtEarlier, RebuildRefreshesRows, NoRebuild
<1> QED BY <1>2, <1>3, <1>4

\* The cache is opened with a new generation, which no scan but its own has.
LEMMA OpenedKeeps ==
    ASSUME ScanCacheInv, rebuild.at = "idle", NEW k \in Spellings, NEW s \in Scans,
           NEW number \in Nat, UNCHANGED <<onDisk, build, rebuild>>,
           rows' = rows \/ rows' = [l \in Spellings |-> Nothing],
           cacheMeta' = [generation |-> number, parse_version |-> build.parse_version],
           scans'[s] = [Idle EXCEPT !.at = "opened", !.key = k, !.generation = number],
           scans' \in [Scans -> ScanRecords],
           \A t \in Scans \ {s} : \/ scans'[t] = scans[t] /\ cacheMeta.generation < number
                                  \/ scans'[t] = Idle
    PROVE  ScanCacheInv'
<1> USE DEF ScanCacheInv
<1>1. CacheTypes' /\ RowsMatchTheirStamp'
  BY DEF CacheTypes, RowsMatchTheirStamp
<1>2. ASSUME NEW t \in Scans, scans'[t] = scans[t], cacheMeta.generation < number
      PROVE  ScanInv(t)'
  BY <1>2 DEF ScanInv, LookedAtEarlier, ReadsAgree, OfTheFile, Marked, HandedOver, CacheTypes, ScanRecords
<1>3. ASSUME NEW t \in Scans, scans'[t].before = Nothing, scans'[t].result = Nothing,
             scans'[t].touched = {}, scans'[t].generation \in {0, number}
      PROVE  ScanInv(t)'
  BY <1>3 DEF ScanInv, LookedAtEarlier, ReadsAgree, Marked, HandedOver
<1>4. \A t \in Scans : ScanInv(t)'
  <2>1. /\ scans'[s].before = Nothing /\ scans'[s].result = Nothing /\ scans'[s].touched = {}
        /\ scans'[s].generation = number
    BY DEF Idle
  <2>2. Idle.before = Nothing /\ Idle.result = Nothing /\ Idle.touched = {} /\ Idle.generation = 0
    BY DEF Idle
  <2>3. ScanInv(s)'
    BY <1>3, <2>1
  <2> QED BY <1>2, <1>3, <2>2, <2>3
<1>5. RebuildInv'
  BY DEF RebuildInv, LookedAtEarlier, RebuildRefreshesRows
<1> QED BY <1>1, <1>4, <1>5

LEMMA IdleIsTyped == \A k \in Spellings, g \in Nat :
    /\ [Idle EXCEPT !.at = "opened", !.key = k, !.generation = g] \in ScanRecords
    /\ Idle \in ScanRecords
BY CacheAssumption DEF Idle, ScanRecords, ScanStages

LEMMA OpenScanKeeps == ASSUME ScanCacheInv, NEW s \in Scans, OpenScan(s) PROVE ScanCacheInv'
<1> DEFINE g == cacheMeta.generation + 1
<1>1. /\ scans \in [Scans -> ScanRecords] /\ g \in Nat /\ cacheMeta.generation < g
      /\ cacheMeta' = [generation |-> g, parse_version |-> build.parse_version] /\ cacheMeta'.generation = g
  BY DEF OpenScan, ScanCacheInv, CacheTypes
<1>2. PICK k \in Spellings : scans' = [scans EXCEPT ![s] = [Idle EXCEPT !.at = "opened", !.key = k, !.generation = g]]
  BY <1>1 DEF OpenScan
<1>3. [Idle EXCEPT !.at = "opened", !.key = k, !.generation = g] \in ScanRecords
  BY <1>1, IdleIsTyped
<1> HIDE DEF g
<1>4. /\ scans' \in [Scans -> ScanRecords] /\ \A t \in Scans \ {s} : scans'[t] = scans[t]
      /\ scans'[s] = [Idle EXCEPT !.at = "opened", !.key = k, !.generation = g]
  BY <1>1, <1>2, <1>3
<1> QED BY <1>1, <1>4, OpenedKeeps DEF OpenScan

LEMMA OpenCorruptKeeps == ASSUME ScanCacheInv, NEW s \in Scans, OpenCorrupt(s) PROVE ScanCacheInv'
<1>1. PICK k \in Spellings :
          scans' = [t \in Scans |-> IF t = s THEN [Idle EXCEPT !.at = "opened", !.key = k, !.generation = 1] ELSE Idle]
  BY DEF OpenCorrupt
<1>2. scans' \in [Scans -> ScanRecords]
  BY <1>1, IdleIsTyped
<1>3. \A t \in Scans \ {s} : scans'[t] = Idle
  BY <1>1
<1>4. scans'[s] = [Idle EXCEPT !.at = "opened", !.key = k, !.generation = 1]
  BY <1>1
<1>5. /\ rebuild.at = "idle" /\ UNCHANGED <<onDisk, build, rebuild>>
      /\ rows' = [l \in Spellings |-> Nothing]
      /\ cacheMeta' = [generation |-> 1, parse_version |-> build.parse_version]
  BY DEF OpenCorrupt
<1>6. \A t \in Scans \ {s} : (scans'[t] = scans[t] /\ cacheMeta.generation < 1) \/ scans'[t] = Idle
  BY <1>3
<1> QED BY <1>2, <1>4, <1>5, <1>6, OpenedKeeps

-----------------------------------------------------------------------------
\* A scan goes on, and leaves the rows as they are or marks one of them.
LEMMA ScanGoesOn ==
    ASSUME ScanCacheInv, NEW s \in Scans, UNCHANGED <<onDisk, cacheMeta, build, rebuild>>,
           NEW scan \in ScanRecords, scans' = [scans EXCEPT ![s] = scan],
           rows' \in [Spellings -> CachedRows \cup {Nothing}], RowsMatchTheirStamp',
           scans[s].at # "closed", scan.generation = scans[s].generation,
           \A k \in Spellings : rows[k] # Nothing => rows'[k] # Nothing /\ rows'[k].seen >= rows[k].seen,
           LookedAtEarlier(scan.before), ReadsAgree(s)', HandedOver(s)',
           scan.at \in {"opened", "observed", "stamped"} => scan.touched = {},
           \A k \in scan.touched : k \in scans[s].touched
                                   \/ (rows'[k] # Nothing /\ rows'[k].seen >= scan.generation)
    PROVE  ScanCacheInv'
<1> USE DEF ScanCacheInv
<1>1. scans'[s] = scan /\ \A t \in Scans \ {s} : scans'[t] = scans[t]
  BY DEF CacheTypes
<1>2. CacheTypes'
  BY DEF CacheTypes
<1>3. ASSUME NEW t \in Scans, NEW k \in scans[t].touched, scans[t].generation = cacheMeta.generation
      PROVE  rows'[k] # Nothing /\ rows'[k].seen >= scans[t].generation
  <2>1. k \in Spellings /\ rows[k] # Nothing /\ rows[k].seen >= scans[t].generation
    BY <1>3 DEF CacheTypes, ScanRecords, ScanInv, Marked
  <2>2. rows'[k] # Nothing /\ rows'[k].seen >= rows[k].seen
    BY <2>1
  <2>3. rows[k] \in CachedRows /\ rows'[k] \in CachedRows /\ scans[t].generation \in Nat
    BY <2>1, <2>2 DEF CacheTypes, ScanRecords
  <2> QED BY <2>1, <2>2, <2>3 DEF CachedRows
<1>4. \A t \in Scans \ {s} : ScanInv(t)'
  BY <1>1, <1>3, ScanStands
<1>5. Marked(s)'
  BY <1>1, <1>3 DEF ScanInv, Marked
<1>6. LookedAtEarlier(scans[s].before)'
  BY <1>1 DEF LookedAtEarlier
<1>7. RebuildInv'
  BY RebuildStands DEF RebuildInv
<1> QED BY <1>1, <1>2, <1>4, <1>5, <1>6, <1>7 DEF ScanInv

LEMMA LooksNow == ASSUME ScanCacheInv PROVE LookedAtEarlier(onDisk)
BY DEF ScanCacheInv, CacheTypes, LookedAtEarlier, FileGenerations

LEMMA RowsStand ==
    ASSUME ScanCacheInv, rows' = rows
    PROVE  /\ rows' \in [Spellings -> CachedRows \cup {Nothing}] /\ RowsMatchTheirStamp'
           /\ \A k \in Spellings : rows[k] # Nothing => rows'[k] # Nothing /\ rows'[k].seen >= rows[k].seen
BY DEF ScanCacheInv, CacheTypes, RowsMatchTheirStamp, CachedRows

\* A scan goes on without touching the rows.
LEMMA ScanLooksOn ==
    ASSUME ScanCacheInv, NEW s \in Scans, UNCHANGED <<onDisk, rows, cacheMeta, build, rebuild>>,
           NEW scan \in ScanRecords, scans' = [scans EXCEPT ![s] = scan],
           scans[s].at # "closed", scan.at \notin {"opened", "observed", "stamped"},
           scan.generation = scans[s].generation, scan.touched = scans[s].touched,
           LookedAtEarlier(scan.before), ReadsAgree(s)', HandedOver(s)'
    PROVE  ScanCacheInv'
<1>1. \A k \in scan.touched : k \in scans[s].touched
  OBVIOUS
<1>2. scan.at \in {"opened", "observed", "stamped"} => scan.touched = {}
  OBVIOUS
<1>3. /\ rows' \in [Spellings -> CachedRows \cup {Nothing}] /\ RowsMatchTheirStamp'
      /\ \A k \in Spellings : rows[k] # Nothing => rows'[k] # Nothing /\ rows'[k].seen >= rows[k].seen
  BY RowsStand
<1>4. UNCHANGED <<onDisk, cacheMeta, build, rebuild>>
  OBVIOUS
<1> QED BY <1>1, <1>2, <1>3, <1>4, ScanGoesOn

LEMMA ObserveBeforeKeeps == ASSUME ScanCacheInv, NEW s \in Scans, ObserveBefore(s) PROVE ScanCacheInv'
<1> DEFINE scan == [scans[s] EXCEPT !.before = onDisk, !.at = "observed"]
<1>1. scans[s] \in ScanRecords /\ ScanInv(s) /\ scans[s].at = "opened"
  BY DEF ScanCacheInv, CacheTypes, ObserveBefore, Step
<1>2. scan \in ScanRecords
  BY <1>1 DEF ScanRecords, ScanStages, ScanCacheInv, CacheTypes
<1>3. scans' = [scans EXCEPT ![s] = scan] /\ scans'[s] = scan
  BY <1>1 DEF ObserveBefore, Step, ScanCacheInv, CacheTypes, ScanRecords
<1>4. /\ scan.generation = scans[s].generation /\ scan.touched = scans[s].touched
      /\ scan.before = onDisk /\ scan.result = scans[s].result /\ scan.at = "observed" /\ scan.touched = {}
  BY <1>1 DEF ScanRecords, ScanInv, Marked
<1>5. ReadsAgree(s)' /\ HandedOver(s)'
  BY <1>1, <1>3, <1>4 DEF ReadsAgree, HandedOver, ScanInv
<1> HIDE DEF scan
<1> QED BY <1>1, <1>2, <1>3, <1>4, <1>5, ScanGoesOn, LooksNow, RowsStand DEF ObserveBefore

LEMMA ReadStampKeeps == ASSUME ScanCacheInv, NEW s \in Scans, ReadStamp(s) PROVE ScanCacheInv'
<1> DEFINE scan == [scans[s] EXCEPT !.stamp = Stamp(onDisk), !.at = "stamped"]
<1>1. scans[s] \in ScanRecords /\ ScanInv(s) /\ scans[s].at = "observed"
  BY DEF ScanCacheInv, CacheTypes, ReadStamp, Step
<1>2. scan \in ScanRecords
  BY <1>1 DEF ScanRecords, ScanStages, ScanCacheInv, CacheTypes, Stamp, FileGenerations
<1>3. scans' = [scans EXCEPT ![s] = scan] /\ scans'[s] = scan
  BY <1>1 DEF ReadStamp, Step, ScanCacheInv, CacheTypes, ScanRecords
<1>4. /\ scan.generation = scans[s].generation /\ scan.touched = {} /\ scan.stamp = Stamp(onDisk)
      /\ scan.before = scans[s].before /\ scan.result = scans[s].result /\ scan.at = "stamped"
  BY <1>1 DEF ScanRecords, ScanInv, Marked
<1>5. ReadsAgree(s)' /\ HandedOver(s)'
  BY <1>1, <1>3, <1>4 DEF ReadsAgree, HandedOver, ScanInv, Stamp, ReadStamp
<1> HIDE DEF scan
<1> QED BY <1>1, <1>2, <1>3, <1>4, <1>5, ScanGoesOn, RowsStand DEF ReadStamp, ScanInv

\* A hit marks its row.
LEMMA LookUpKeeps == ASSUME ScanCacheInv, NEW s \in Scans, LookUp(s) PROVE ScanCacheInv'
<1> DEFINE key == scans[s].key
           found == rows[key]
           hit == Matches(found, scans[s])
           scan == [scans[s] EXCEPT !.session = IF hit THEN found.session ELSE Nothing,
                                    !.touched = IF hit THEN {key} ELSE {}, !.at = "looked"]
<1>1. scans[s] \in ScanRecords /\ ScanInv(s) /\ scans[s].at = "stamped" /\ key \in Spellings
      /\ found \in CachedRows \cup {Nothing} /\ (hit => found \in CachedRows)
  BY DEF ScanCacheInv, CacheTypes, LookUp, Step, Matches, ScanRecords
<1>2. scan \in ScanRecords
  BY <1>1 DEF ScanRecords, ScanStages, CachedRows
<1>3. scans' = [scans EXCEPT ![s] = scan] /\ scans'[s] = scan
  BY <1>1 DEF LookUp, Step, ScanCacheInv, CacheTypes, ScanRecords
<1>4. /\ scan.generation = scans[s].generation /\ scan.stamp = scans[s].stamp
      /\ scan.before = scans[s].before /\ scan.result = scans[s].result /\ scan.at = "looked"
      /\ (hit => scan.touched = {key} /\ scan.session = found.session)
      /\ (~hit => scan.touched = {} /\ scan.session = Nothing)
  BY <1>1 DEF ScanRecords
<1>5. ReadsAgree(s)' /\ HandedOver(s)'
  <2>1. HandedOver(s)'
    BY <1>1, <1>3, <1>4 DEF HandedOver, ScanInv
  <2>2. ASSUME hit, scan.before # Nothing, scan.before = onDisk
        PROVE  found.session.version = onDisk.version /\ found.session.identity = onDisk.identity
    BY <1>1, <1>4, <2>2 DEF Matches, ScanCacheInv, RowsMatchTheirStamp, ScanInv, ReadsAgree
  <2>3. hit => scan.session # Nothing
    BY <1>1, <1>4, CacheAssumption DEF CachedRows
  <2> QED BY <1>1, <1>3, <1>4, <2>1, <2>2, <2>3 DEF ReadsAgree, ScanInv, LookUp, OfTheFile
<1>6. /\ rows' \in [Spellings -> CachedRows \cup {Nothing}] /\ RowsMatchTheirStamp'
      /\ \A k \in Spellings : rows[k] # Nothing => rows'[k] # Nothing /\ rows'[k].seen >= rows[k].seen
      /\ hit => rows'[key] # Nothing /\ rows'[key].seen >= scan.generation
  <2>1. CASE ~hit
    BY <2>1, RowsStand DEF LookUp
  <2>2. CASE hit
    <3> DEFINE seen == Seen(found.seen, scans[s].generation)
               marked == [found EXCEPT !.seen = seen]
    <3>1. rows' = [rows EXCEPT ![key] = marked]
      BY <1>1, <2>2 DEF LookUp, ScanCacheInv, CacheTypes, CachedRows
    <3>2. seen \in Nat /\ seen >= found.seen /\ seen >= scans[s].generation
      BY <1>1, <2>2, SeenIsLater DEF CachedRows, ScanRecords
    <3>3. /\ marked \in CachedRows /\ marked # Nothing /\ marked.seen = seen
          /\ marked.stamp = found.stamp /\ marked.identity = found.identity /\ marked.session = found.session
      BY <1>1, <2>2, <3>2, CacheAssumption DEF CachedRows
    <3> HIDE DEF marked, seen
    <3>4. rows' \in [Spellings -> CachedRows \cup {Nothing}] /\ rows'[key] = marked
          /\ \A k \in Spellings \ {key} : rows'[k] = rows[k]
      BY <1>1, <3>1, <3>3 DEF ScanCacheInv, CacheTypes
    <3>5. RowsMatchTheirStamp'
      BY <1>1, <2>2, <3>3, <3>4, CacheAssumption DEF ScanCacheInv, RowsMatchTheirStamp, CachedRows
    <3>6. \A k \in Spellings \ {key} : rows[k] # Nothing => rows'[k] # Nothing /\ rows'[k].seen >= rows[k].seen
      BY <3>4 DEF ScanCacheInv, CacheTypes, CachedRows
    <3> QED BY <1>1, <1>4, <3>2, <3>3, <3>4, <3>5, <3>6
  <2> QED BY <2>1, <2>2
<1>7. \A k \in scan.touched : rows'[k] # Nothing /\ rows'[k].seen >= scan.generation
  BY <1>4, <1>6
<1> HIDE DEF scan, hit, found, key
<1> QED BY <1>1, <1>2, <1>3, <1>4, <1>5, <1>6, <1>7, ScanGoesOn DEF LookUp, ScanInv

\* A row that is dropped is not one that a scan has used.
LEMMA LookUpCorruptKeeps == ASSUME ScanCacheInv, NEW s \in Scans, LookUpCorrupt(s) PROVE ScanCacheInv'
<1> DEFINE key == scans[s].key
<1> USE DEF ScanCacheInv
<1>1. \A t \in Scans : scans[t] \in ScanRecords /\ ScanInv(t)
  BY DEF CacheTypes
<1>2. scans[s].at = "stamped" /\ key \in Spellings /\ rows' = [rows EXCEPT ![key] = Nothing]
  BY <1>1 DEF LookUpCorrupt, ScanRecords
<1>3. /\ scans'[s] \in ScanRecords /\ scans'[s].at = "looked" /\ scans'[s].session = Nothing
      /\ scans'[s].touched = {} /\ scans'[s].before = scans[s].before /\ scans'[s].stamp = scans[s].stamp
      /\ scans'[s].generation = scans[s].generation /\ scans'[s].result = scans[s].result
  <2>1. scans'[s] = [scans[s] EXCEPT !.at = "looked", !.session = Nothing]
    BY DEF LookUpCorrupt
  <2>2. scans[s].touched = {}
    BY <1>1, <1>2 DEF ScanInv, Marked
  <2> QED BY <1>1, <2>1, <2>2 DEF ScanRecords, ScanStages
<1>4. ASSUME NEW t \in Scans \ {s}
      PROVE  /\ scans'[t] \in ScanRecords /\ scans'[t].at = scans[t].at /\ scans'[t].session = scans[t].session
             /\ scans'[t].touched = scans[t].touched \ {key} /\ scans'[t].before = scans[t].before
             /\ scans'[t].stamp = scans[t].stamp /\ scans'[t].generation = scans[t].generation
             /\ scans'[t].result = scans[t].result
  <2>1. scans'[t] = [scans[t] EXCEPT !.touched = @ \ {key}]
    BY DEF LookUpCorrupt
  <2> QED BY <1>1, <2>1 DEF ScanRecords
<1>5. CacheTypes'
  <2>1. scans' \in [Scans -> ScanRecords]
    BY <1>3, <1>4 DEF LookUpCorrupt
  <2> QED BY <1>2, <2>1 DEF LookUpCorrupt, CacheTypes
<1>6. RowsMatchTheirStamp'
  BY <1>2 DEF RowsMatchTheirStamp, CacheTypes
<1>7. ASSUME NEW t \in Scans PROVE ScanInv(t)'
  <2>1. CASE t = s
    BY <1>1, <1>2, <1>3, <2>1 DEF ScanInv, LookedAtEarlier, ReadsAgree, Marked, HandedOver, LookUpCorrupt
  <2>2. CASE t # s
    <3> DEFINE old == scans[t]
               new == scans'[t]
    <3>1. /\ new.at = old.at /\ new.session = old.session /\ new.touched = old.touched \ {key}
          /\ new.before = old.before /\ new.stamp = old.stamp /\ new.generation = old.generation
          /\ new.result = old.result /\ old.touched \subseteq Spellings
      BY <1>1, <1>4, <2>2 DEF ScanRecords
    <3>2. /\ onDisk' = onDisk /\ cacheMeta' = cacheMeta /\ \A k \in Spellings \ {key} : rows'[k] = rows[k]
      BY <1>2 DEF LookUpCorrupt, CacheTypes
    <3>3. LookedAtEarlier(old.before) /\ ReadsAgree(t) /\ Marked(t) /\ HandedOver(t)
      BY <1>1 DEF ScanInv
    <3>4. LookedAtEarlier(scans[t].before)'
      BY <3>1, <3>2, <3>3 DEF LookedAtEarlier
    <3>5. ReadsAgree(t)'
      BY <3>1, <3>2, <3>3 DEF ReadsAgree, OfTheFile
    <3>6. HandedOver(t)'
      BY <3>1, <3>3 DEF HandedOver
    <3>7. Marked(t)'
      BY <3>1, <3>2, <3>3 DEF Marked
    <3> QED BY <3>4, <3>5, <3>6, <3>7 DEF ScanInv
  <2> QED BY <2>1, <2>2
<1>8. RebuildInv'
  BY <1>2, RebuildStands DEF RebuildInv, LookUpCorrupt
<1> QED BY <1>5, <1>6, <1>7, <1>8

LEMMA ConfirmHitKeeps == ASSUME ScanCacheInv, NEW s \in Scans, ConfirmHit(s) PROVE ScanCacheInv'
<1> DEFINE stable == scans[s].session # Nothing /\ scans[s].before # Nothing /\ scans[s].before = onDisk
           scan == [(IF stable THEN scans[s] ELSE [scans[s] EXCEPT !.before = onDisk, !.session = Nothing])
                       EXCEPT !.at = IF stable THEN "ready" ELSE "missed"]
<1>1. scans[s] \in ScanRecords /\ ScanInv(s) /\ scans[s].at = "looked"
  BY DEF ScanCacheInv, CacheTypes, ConfirmHit, Step
<1>2. scan \in ScanRecords
  BY <1>1 DEF ScanRecords, ScanStages, ScanCacheInv, CacheTypes
<1>3. scans' = [scans EXCEPT ![s] = scan] /\ scans'[s] = scan
  BY <1>1 DEF ConfirmHit, Step, ScanCacheInv, CacheTypes, ScanRecords
<1>4. /\ scan.generation = scans[s].generation /\ scan.touched = scans[s].touched
      /\ scan.result = scans[s].result
      /\ stable => scan.at = "ready" /\ scan.before = scans[s].before /\ scan.session = scans[s].session
      /\ ~stable => scan.at = "missed" /\ scan.before = onDisk
  BY <1>1 DEF ScanRecords
<1>5. HandedOver(s)' /\ ReadsAgree(s)' /\ LookedAtEarlier(scan.before)
  BY <1>1, <1>3, <1>4, LooksNow DEF ReadsAgree, HandedOver, ScanInv, OfTheFile, ConfirmHit
<1>6. scan.at \notin {"opened", "observed", "stamped"}
  BY <1>4
<1>7. UNCHANGED <<onDisk, rows, cacheMeta, build, rebuild>>
  BY DEF ConfirmHit
<1> HIDE DEF scan, stable
<1> QED BY <1>1, <1>2, <1>3, <1>4, <1>5, <1>6, <1>7, ScanLooksOn

LEMMA RestampAndParseKeeps == ASSUME ScanCacheInv, NEW s \in Scans, RestampAndParse(s) PROVE ScanCacheInv'
<1>1. scans[s] \in ScanRecords /\ ScanInv(s) /\ scans \in [Scans -> ScanRecords]
  BY DEF ScanCacheInv, CacheTypes
<1>2. ASSUME NEW scan \in ScanRecords, scans' = [scans EXCEPT ![s] = scan],
             scans[s].at \in {"missed", "restamped"}, scan.at \in {"restamped", "parsed", "pruning"},
             scan.generation = scans[s].generation, scan.touched = scans[s].touched,
             scan.result = scans[s].result, scan.before = scans[s].before, ReadsAgree(s)'
      PROVE  ScanCacheInv'
  <2>1. HandedOver(s)' /\ LookedAtEarlier(scan.before)
    BY <1>1, <1>2 DEF HandedOver, ScanInv
  <2>2. scan.at \notin {"opened", "observed", "stamped"} /\ scans[s].at # "closed"
    BY <1>2
  <2>3. UNCHANGED <<onDisk, rows, cacheMeta, build, rebuild>>
    BY DEF RestampAndParse
  <2> QED BY <1>2, <2>1, <2>2, <2>3, ScanLooksOn
<1>3. CASE Step(s, "missed", "restamped", [scans[s] EXCEPT !.stamp = Stamp(onDisk)])
  <2> DEFINE scan == [scans[s] EXCEPT !.stamp = Stamp(onDisk), !.at = "restamped"]
  <2>1. scan \in ScanRecords
    BY <1>1 DEF ScanRecords, ScanStages, ScanCacheInv, CacheTypes, Stamp, FileGenerations
  <2>2. scans' = [scans EXCEPT ![s] = scan] /\ scans'[s] = scan /\ scans[s].at = "missed"
    BY <1>1, <1>3 DEF Step, ScanRecords
  <2>3. /\ scan.generation = scans[s].generation /\ scan.touched = scans[s].touched
        /\ scan.stamp = Stamp(onDisk)
        /\ scan.result = scans[s].result /\ scan.before = scans[s].before /\ scan.at = "restamped"
    BY <1>1 DEF ScanRecords
  <2>4. ReadsAgree(s)'
    BY <2>2, <2>3 DEF ReadsAgree, Stamp, RestampAndParse
  <2> HIDE DEF scan
  <2> QED BY <1>2, <2>1, <2>2, <2>3, <2>4
<1>4. CASE onDisk # Nothing /\ Step(s, "restamped", "parsed", [scans[s] EXCEPT !.session = Parsed(onDisk)])
  <2> DEFINE scan == [scans[s] EXCEPT !.session = Parsed(onDisk), !.at = "parsed"]
  <2>1. Parsed(onDisk) \in ParsedSessions /\ OfTheFile(Parsed(onDisk)) /\ Parsed(onDisk) # Nothing
    BY <1>4, CacheAssumption DEF Parsed, ParsedSessions, ScanCacheInv, CacheTypes, FileGenerations, OfTheFile
  <2>2. scan \in ScanRecords
    BY <1>1, <2>1 DEF ScanRecords, ScanStages
  <2>3. scans' = [scans EXCEPT ![s] = scan] /\ scans'[s] = scan /\ scans[s].at = "restamped"
    BY <1>1, <1>4 DEF Step, ScanRecords
  <2>4. /\ scan.generation = scans[s].generation /\ scan.touched = scans[s].touched
        /\ scan.stamp = scans[s].stamp
        /\ scan.result = scans[s].result /\ scan.before = scans[s].before /\ scan.at = "parsed"
        /\ scan.session = Parsed(onDisk)
    BY <1>1 DEF ScanRecords
  <2>5. ReadsAgree(s)'
    BY <1>1, <2>1, <2>3, <2>4 DEF ReadsAgree, OfTheFile, RestampAndParse, ScanInv
  <2> HIDE DEF scan
  <2> QED BY <1>2, <2>2, <2>3, <2>4, <2>5
<1>5. CASE Step(s, "restamped", "pruning", scans[s])
  <2> DEFINE scan == [scans[s] EXCEPT !.at = "pruning"]
  <2>1. scan \in ScanRecords
    BY <1>1 DEF ScanRecords, ScanStages
  <2>2. scans' = [scans EXCEPT ![s] = scan] /\ scans'[s] = scan /\ scans[s].at = "restamped"
    BY <1>1, <1>5 DEF Step
  <2>3. /\ scan.generation = scans[s].generation /\ scan.touched = scans[s].touched
        /\ scan.result = scans[s].result /\ scan.before = scans[s].before /\ scan.at = "pruning"
    BY <1>1 DEF ScanRecords
  <2>4. ReadsAgree(s)'
    BY <2>2, <2>3 DEF ReadsAgree
  <2> HIDE DEF scan
  <2> QED BY <1>2, <2>1, <2>2, <2>3, <2>4
<1> QED BY <1>3, <1>4, <1>5 DEF RestampAndParse

\* What is stored is what two looks that agree say of the file.
LEMMA StoreKeeps == ASSUME ScanCacheInv, NEW s \in Scans, Store(s) PROVE ScanCacheInv'
<1> DEFINE key == scans[s].key
           stable == scans[s].stamp # Nothing /\ scans[s].before # Nothing /\ Unchanged(scans[s].before)
           old == IF rows[key] = Nothing THEN 0 ELSE rows[key].seen
           seen == Seen(old, scans[s].generation)
           new == [stamp |-> scans[s].stamp, identity |-> scans[s].before.identity,
                   session |-> scans[s].session, seen |-> seen]
           scan == [scans[s] EXCEPT !.touched = IF stable THEN @ \union {key} ELSE @, !.at = "ready"]
<1>1. scans[s] \in ScanRecords /\ ScanInv(s) /\ scans[s].at = "parsed" /\ key \in Spellings
      /\ rows[key] \in CachedRows \cup {Nothing}
  BY DEF ScanCacheInv, CacheTypes, Store, Step, ScanRecords
<1>2. scan \in ScanRecords
  BY <1>1 DEF ScanRecords, ScanStages
<1>3. scans' = [scans EXCEPT ![s] = scan] /\ scans'[s] = scan
  BY <1>1 DEF Store, Step, ScanCacheInv, CacheTypes, ScanRecords
<1>4. /\ scan.generation = scans[s].generation /\ scan.before = scans[s].before
      /\ scan.session = scans[s].session
      /\ scan.result = scans[s].result /\ scan.at = "ready"
      /\ (stable => scan.touched = scans[s].touched \union {key})
      /\ (~stable => scan.touched = scans[s].touched)
  BY <1>1 DEF ScanRecords
<1>5. ReadsAgree(s)' /\ HandedOver(s)'
  BY <1>1, <1>3, <1>4 DEF ReadsAgree, HandedOver, ScanInv, OfTheFile, Store
<1>6. /\ rows' \in [Spellings -> CachedRows \cup {Nothing}] /\ RowsMatchTheirStamp'
      /\ \A k \in Spellings : rows[k] # Nothing => rows'[k] # Nothing /\ rows'[k].seen >= rows[k].seen
      /\ stable => rows'[key] # Nothing /\ rows'[key].seen >= scan.generation
  <2>1. CASE ~stable
    BY <2>1, RowsStand DEF Store
  <2>2. CASE stable
    <3>1. rows' = [rows EXCEPT ![key] = new]
      BY <2>2 DEF Store
    <3>2. old \in Nat /\ scans[s].generation \in Nat
      BY <1>1 DEF CachedRows, ScanRecords
    <3>3. seen \in Nat /\ seen >= old /\ seen >= scans[s].generation
      BY <3>2, SeenIsLater
    <3>4. /\ scans[s].before \in FileGenerations /\ scans[s].before = onDisk /\ scans[s].stamp \in Nat
          /\ scans[s].session \in ParsedSessions /\ scans[s].stamp = onDisk.version
                /\ OfTheFile(scans[s].session)
      BY <1>1, <2>2 DEF Unchanged, ScanRecords, ScanInv, ReadsAgree
    <3>5. /\ new.stamp = scans[s].stamp /\ new.identity = scans[s].before.identity
          /\ new.session = scans[s].session /\ new.seen = seen
      OBVIOUS
    <3>6. new \in CachedRows /\ new # Nothing
      BY <3>3, <3>4, CacheAssumption DEF CachedRows, FileGenerations
    <3> HIDE DEF new, seen
    <3>7. rows' \in [Spellings -> CachedRows \cup {Nothing}] /\ rows'[key] = new
          /\ \A k \in Spellings \ {key} : rows'[k] = rows[k]
      BY <1>1, <3>1, <3>6 DEF ScanCacheInv, CacheTypes
    <3>8. RowsMatchTheirStamp'
      BY <3>4, <3>5, <3>7 DEF ScanCacheInv, RowsMatchTheirStamp, OfTheFile
    <3>9. \A k \in Spellings \ {key} : rows[k] # Nothing => rows'[k] # Nothing /\ rows'[k].seen >= rows[k].seen
      BY <3>7 DEF ScanCacheInv, CacheTypes, CachedRows
    <3> QED BY <1>1, <1>4, <3>3, <3>5, <3>6, <3>7, <3>8, <3>9
  <2> QED BY <2>1, <2>2
<1>7. \A k \in scan.touched : k \in scans[s].touched \/ (rows'[k] # Nothing /\ rows'[k].seen >= scan.generation)
  <2> HIDE DEF scan, stable, key
  <2>1. CASE stable
    BY <1>4, <1>6, <2>1
  <2>2. CASE ~stable
    BY <1>4, <2>2
  <2> QED BY <2>1, <2>2
<1>8. scan.at \notin {"opened", "observed", "stamped"}
  BY <1>4
<1> HIDE DEF scan, stable, new, seen, old, key
<1> QED BY <1>1, <1>2, <1>3, <1>4, <1>5, <1>6, <1>7, <1>8, ScanGoesOn DEF Store, ScanInv

LEMMA HandOverKeeps == ASSUME ScanCacheInv, NEW s \in Scans, HandOver(s) PROVE ScanCacheInv'
<1> DEFINE dropped == scans[s].before # Nothing /\ scans[s].before # onDisk
           handed == [before |-> scans[s].before, session |-> scans[s].session]
           scan == [scans[s] EXCEPT !.result = IF dropped THEN Nothing ELSE handed, !.at = "pruning"]
<1>1. scans[s] \in ScanRecords /\ ScanInv(s) /\ scans[s].at = "ready"
  BY DEF ScanCacheInv, CacheTypes, HandOver, Step
<1>2. handed \in Handed /\ handed.before = scans[s].before /\ handed.session = scans[s].session
  BY <1>1 DEF Handed, ScanRecords
<1>3. scan \in ScanRecords
  BY <1>1, <1>2 DEF ScanRecords, ScanStages
<1>4. scans' = [scans EXCEPT ![s] = scan] /\ scans'[s] = scan
  BY <1>1 DEF HandOver, Step, ScanCacheInv, CacheTypes, ScanRecords
<1>5. /\ scan.generation = scans[s].generation /\ scan.touched = scans[s].touched
      /\ scan.before = scans[s].before /\ scan.at = "pruning"
      /\ scan.result = IF dropped THEN Nothing ELSE handed
  BY <1>1 DEF ScanRecords
<1> HIDE DEF handed
<1>6. HandedOver(s)'
  <2>1. CASE dropped
    BY <1>4, <1>5, <2>1 DEF HandedOver
  <2>2. CASE ~dropped
    BY <1>1, <1>2, <1>4, <1>5, <2>2 DEF HandedOver, ScanInv, ReadsAgree, OfTheFile
  <2> QED BY <2>1, <2>2
<1>7. ReadsAgree(s)' /\ LookedAtEarlier(scan.before)
  BY <1>1, <1>4, <1>5 DEF ReadsAgree, ScanInv
<1>8. scan.at \notin {"opened", "observed", "stamped"} /\ scans[s].at # "closed"
  BY <1>1, <1>5
<1>9. UNCHANGED <<onDisk, rows, cacheMeta, build, rebuild>>
  BY DEF HandOver
<1> HIDE DEF scan, dropped
<1> QED BY <1>1, <1>3, <1>4, <1>5, <1>6, <1>7, <1>8, <1>9, ScanLooksOn
\* What the newest scan has used is not pruned.
LEMMA FinishScanKeeps == ASSUME ScanCacheInv, NEW s \in Scans, FinishScan(s) PROVE ScanCacheInv'
<1> DEFINE pruned(k) == /\ rows[k] # Nothing /\ rows[k].seen < scans[s].generation
                        /\ scans[s].generation = cacheMeta.generation
           scan == [scans[s] EXCEPT !.at = "closed"]
<1>1. \A t \in Scans : scans[t] \in ScanRecords /\ ScanInv(t)
  BY DEF ScanCacheInv, CacheTypes
<1>2. /\ scan \in ScanRecords /\ scan.at = "closed" /\ scan.generation = scans[s].generation
      /\ scan.touched = scans[s].touched /\ scan.before = scans[s].before /\ scan.result = scans[s].result
  BY <1>1 DEF ScanRecords, ScanStages
<1>3. /\ scans' \in [Scans -> ScanRecords] /\ scans'[s] = scan /\ \A t \in Scans \ {s} : scans'[t] = scans[t]
  BY <1>2 DEF FinishScan, ScanCacheInv, CacheTypes
<1>4. /\ \A k \in Spellings : rows'[k] = IF pruned(k) THEN Nothing ELSE rows[k]
      /\ rows' \in [Spellings -> CachedRows \cup {Nothing}]
  BY DEF FinishScan, ScanCacheInv, CacheTypes
<1>5. UNCHANGED <<onDisk, cacheMeta, build, rebuild>> /\ scans[s].at = "pruning"
  BY DEF FinishScan
<1>6. CacheTypes' /\ RowsMatchTheirStamp'
  BY <1>3, <1>4, <1>5 DEF ScanCacheInv, CacheTypes, RowsMatchTheirStamp
<1>7. ASSUME NEW t \in Scans, NEW k \in scans[t].touched, scans[t].generation = cacheMeta.generation
      PROVE  rows'[k] # Nothing /\ rows'[k].seen >= scans[t].generation
  <2>1. k \in Spellings /\ rows[k] # Nothing /\ rows[k].seen >= scans[t].generation
    BY <1>1, <1>7 DEF ScanRecords, ScanInv, Marked
  <2>2. rows[k] \in CachedRows /\ scans[t].generation \in Nat
    BY <1>1, <2>1 DEF ScanCacheInv, CacheTypes, ScanRecords
  <2>3. ~pruned(k)
    BY <1>7, <2>1, <2>2 DEF CachedRows
  <2> QED BY <1>4, <2>1, <2>3
<1> HIDE DEF scan, pruned
<1>8. ASSUME NEW t \in Scans \ {s} PROVE ScanInv(t)'
  BY <1>3, <1>5, <1>7, ScanStands
<1>9. ScanInv(s)'
  BY <1>1, <1>2, <1>3, <1>5, <1>7 DEF ScanInv, LookedAtEarlier, ReadsAgree, Marked, HandedOver
<1>10. RebuildInv'
  BY <1>5, RebuildStands DEF ScanCacheInv, RebuildInv
<1> QED BY <1>6, <1>8, <1>9, <1>10 DEF ScanCacheInv

-----------------------------------------------------------------------------
\* A rebuild goes on, with a generation that no scan has.
LEMMA RebuildGoesOn ==
    ASSUME ScanCacheInv, rebuild.at # "idle", UNCHANGED <<onDisk, cacheMeta, build, scans>>
    PROVE  /\ \A s \in Scans : ScanInv(s)'
           /\ \A s \in Scans : scans'[s].at = "closed" /\ scans'[s].generation < cacheMeta'.generation
<1>1. ASSUME NEW s \in Scans
      PROVE  ScanInv(s)' /\ scans'[s].at = "closed" /\ scans'[s].generation < cacheMeta'.generation
  <2>1. ScanInv(s) /\ scans[s].at = "closed" /\ scans[s].generation < cacheMeta.generation
    BY DEF ScanCacheInv, RebuildInv
  <2>2. scans[s].generation \in Nat /\ cacheMeta.generation \in Nat
    BY DEF ScanCacheInv, CacheTypes, ScanRecords
  <2> QED BY <2>1, <2>2 DEF ScanInv, LookedAtEarlier, ReadsAgree, OfTheFile, Marked, HandedOver
<1> QED BY <1>1

LEMMA RebuildObserveKeeps == ASSUME ScanCacheInv, RebuildObserve PROVE ScanCacheInv'
<1> USE DEF ScanCacheInv
<1>1. /\ rebuild'.at = "observed" /\ rebuild'.before = onDisk /\ rebuild' \in RebuildRecords
      /\ onDisk # Nothing /\ UNCHANGED <<onDisk, build, scans>>
  BY CacheAssumption DEF RebuildObserve, NoRebuild, RebuildRecords, CacheTypes
<1>2. cacheMeta'.generation = cacheMeta.generation + 1 /\ cacheMeta.generation \in Nat
      /\ cacheMeta' \in [generation : Nat, parse_version : Nat]
  BY DEF RebuildObserve, CacheTypes
<1>3. rows' = rows \/ rows' = [k \in Spellings |-> Nothing]
  BY DEF RebuildObserve
<1>4. CacheTypes' /\ RowsMatchTheirStamp'
  BY <1>1, <1>2, <1>3 DEF CacheTypes, RowsMatchTheirStamp
<1>5. ASSUME NEW s \in Scans
      PROVE  ScanInv(s)' /\ scans'[s].at = "closed" /\ scans'[s].generation < cacheMeta'.generation
  <2>1. ScanInv(s) /\ scans[s].at = "closed"
    BY DEF RebuildObserve
  <2>2. scans[s].generation \in Nat /\ scans[s].generation <= cacheMeta.generation
    BY <2>1 DEF CacheTypes, ScanRecords, ScanInv, Marked
  <2> QED BY <1>1, <1>2, <2>1, <2>2 DEF ScanInv, LookedAtEarlier, ReadsAgree, OfTheFile, Marked, HandedOver
<1>6. LookedAtEarlier(rebuild.before)'
  BY <1>1, LooksNow DEF LookedAtEarlier
<1>7. RebuildInv'
  BY <1>1, <1>5, <1>6 DEF RebuildInv, RebuildRefreshesRows
<1> QED BY <1>4, <1>5, <1>7

LEMMA RebuildParseKeeps == ASSUME ScanCacheInv, RebuildParse PROVE ScanCacheInv'
<1> DEFINE read == IF onDisk = Nothing THEN Nothing ELSE Parsed(onDisk)
<1> USE DEF ScanCacheInv
<1>1. /\ rebuild \in RebuildRecords /\ rebuild.at = "observed"
      /\ UNCHANGED <<onDisk, rows, cacheMeta, build, scans>>
  BY DEF RebuildParse, CacheTypes
<1>2. /\ read \in ParsedSessions \cup {Nothing}
      /\ read # Nothing => OfTheFile(read) /\ read.revision = build.revision
  BY CacheAssumption DEF Parsed, ParsedSessions, CacheTypes, FileGenerations, OfTheFile
<1>3. /\ rebuild' \in RebuildRecords /\ rebuild'.at = "parsed" /\ rebuild'.before = rebuild.before
      /\ rebuild'.session = read
  BY <1>1, <1>2 DEF RebuildParse, RebuildRecords
<1> HIDE DEF read
<1>4. CacheTypes' /\ RowsMatchTheirStamp'
  BY <1>1, <1>3 DEF CacheTypes, RowsMatchTheirStamp
<1>5. RebuildInv'
  <2>1. /\ LookedAtEarlier(rebuild.before)' /\ rebuild'.before # Nothing
    BY <1>1, <1>3 DEF RebuildInv, LookedAtEarlier
  <2> QED BY <1>1, <1>2, <1>3, <2>1, RebuildGoesOn DEF RebuildInv, RebuildRefreshesRows, OfTheFile
<1> QED BY <1>1, <1>4, <1>5, RebuildGoesOn

LEMMA RebuildRecordKeeps == ASSUME ScanCacheInv, RebuildRecord PROVE ScanCacheInv'
<1> DEFINE stable == rebuild.session # Nothing /\ onDisk # Nothing /\ Unchanged(rebuild.before)
           old == IF rows[DiskSpelling] = Nothing THEN 0 ELSE rows[DiskSpelling].seen
           seen == Seen(old, cacheMeta.generation)
           new == [stamp |-> Stamp(onDisk), identity |-> onDisk.identity,
                   session |-> rebuild.session, seen |-> seen]
           written == IF stable THEN DiskSpelling ELSE Nothing
<1> USE DEF ScanCacheInv
<1>1. /\ rebuild \in RebuildRecords /\ rebuild.at = "parsed" /\ UNCHANGED <<onDisk, cacheMeta, build, scans>>
  BY DEF RebuildRecord, CacheTypes
<1>2. /\ rebuild' \in RebuildRecords /\ rebuild'.at = "recorded" /\ rebuild'.before = rebuild.before
      /\ rebuild'.session = rebuild.session /\ rebuild'.written = written
  BY <1>1 DEF RebuildRecord, RebuildRecords
<1>3. /\ rows' \in [Spellings -> CachedRows \cup {Nothing}] /\ RowsMatchTheirStamp'
      /\ written # Nothing /\ rows'[written] # Nothing => rows'[written].session.revision = build.revision
  <2>1. CASE ~stable
    BY <2>1 DEF RebuildRecord, CacheTypes, RowsMatchTheirStamp
  <2>2. CASE stable
    <3>1. rows' = [rows EXCEPT ![DiskSpelling] = new]
      BY <2>2 DEF RebuildRecord
    <3>2. old \in Nat /\ cacheMeta.generation \in Nat
      BY CacheAssumption DEF CacheTypes, CachedRows
    <3>3. seen \in Nat
      BY <3>2, SeenIsLater
    <3>4. /\ onDisk \in FileGenerations /\ Stamp(onDisk) = onDisk.version /\ rebuild.session \in ParsedSessions
          /\ OfTheFile(rebuild.session) /\ rebuild.session.revision = build.revision
      BY <1>1, <2>2 DEF CacheTypes, RebuildRecords, RebuildInv, Unchanged, Stamp
    <3>5. new.stamp = Stamp(onDisk) /\ new.identity = onDisk.identity /\ new.session = rebuild.session
      OBVIOUS
    <3>6. new \in CachedRows
      BY <3>3, <3>4 DEF CachedRows, FileGenerations
    <3> HIDE DEF new, seen
    <3>7. rows' \in [Spellings -> CachedRows \cup {Nothing}] /\ rows'[DiskSpelling] = new
          /\ \A k \in Spellings \ {DiskSpelling} : rows'[k] = rows[k]
      BY <3>1, <3>6, CacheAssumption DEF CacheTypes
    <3>8. RowsMatchTheirStamp'
      BY <3>4, <3>5, <3>7 DEF RowsMatchTheirStamp, OfTheFile
    <3> QED BY <2>2, <3>4, <3>5, <3>7, <3>8
  <2> QED BY <2>1, <2>2
<1> HIDE DEF written
<1>4. CacheTypes'
  BY <1>1, <1>2, <1>3 DEF CacheTypes
<1>5. RebuildInv'
  <2>1. LookedAtEarlier(rebuild.before)'
    BY <1>1, <1>2 DEF RebuildInv, LookedAtEarlier
  <2> QED BY <1>1, <1>2, <1>3, <2>1, RebuildGoesOn DEF RebuildInv, RebuildRefreshesRows
<1> QED BY <1>1, <1>3, <1>4, <1>5, RebuildGoesOn

\* The sweep leaves the row just written, or none.
LEMMA RebuildSweepKeeps == ASSUME ScanCacheInv, RebuildSweep PROVE ScanCacheInv'
<1> USE DEF ScanCacheInv
<1>1. rebuild.at = "recorded" /\ UNCHANGED <<onDisk, cacheMeta, build, scans>>
  BY DEF RebuildSweep
<1>2. rebuild' \in RebuildRecords /\ rebuild'.at = "swept" /\ rebuild'.before = Nothing
  BY CacheAssumption DEF RebuildSweep, NoRebuild, RebuildRecords
<1>3. /\ rows' \in [Spellings -> CachedRows \cup {Nothing}]
      /\ \A k \in Spellings : rows'[k] # Nothing => rows'[k] = rows[k] /\ k = rebuild.written
  BY DEF RebuildSweep, Outdated, CacheTypes
<1>4. CacheTypes' /\ RowsMatchTheirStamp'
  BY <1>1, <1>2, <1>3 DEF CacheTypes, RowsMatchTheirStamp
<1>5. RebuildRefreshesRows'
  <2>1. \A k \in Spellings : k # Nothing
    BY CacheAssumption
  <2> QED BY <1>1, <1>3, <2>1 DEF RebuildInv, RebuildRefreshesRows
<1>6. RebuildInv'
  BY <1>1, <1>2, <1>5, RebuildGoesOn DEF RebuildInv, LookedAtEarlier
<1> QED BY <1>1, <1>4, <1>6, RebuildGoesOn

LEMMA RebuildEndKeeps == ASSUME ScanCacheInv, RebuildEnd PROVE ScanCacheInv'
<1> USE DEF ScanCacheInv
<1>1. rebuild.at = "swept" /\ UNCHANGED <<onDisk, rows, cacheMeta, build, scans>>
  BY DEF RebuildEnd
<1>2. rebuild' \in RebuildRecords /\ rebuild'.at = "idle" /\ rebuild'.before = Nothing
  BY CacheAssumption DEF RebuildEnd, NoRebuild, RebuildRecords
<1>3. CacheTypes' /\ RowsMatchTheirStamp'
  BY <1>1, <1>2 DEF CacheTypes, RowsMatchTheirStamp
<1>4. RebuildInv'
  BY <1>2 DEF RebuildInv, LookedAtEarlier, RebuildRefreshesRows
<1> QED BY <1>1, <1>3, <1>4, RebuildGoesOn

-----------------------------------------------------------------------------
LEMMA CacheStep == ASSUME ScanCacheInv, [CacheNext]_cacheVars PROVE ScanCacheInv'
<1>1. CASE UNCHANGED cacheVars
  <2>1. ASSUME NEW s \in Scans PROVE ScanInv(s)'
    BY <1>1 DEF ScanCacheInv, cacheVars, ScanInv, LookedAtEarlier, ReadsAgree, OfTheFile, Marked, HandedOver
  <2>2. RebuildInv'
    BY <1>1 DEF ScanCacheInv, cacheVars, RebuildInv, LookedAtEarlier, OfTheFile, RebuildRefreshesRows
  <2> QED BY <1>1, <2>1, <2>2 DEF ScanCacheInv, cacheVars, CacheTypes, RowsMatchTheirStamp
<1>2. CASE ChangeFile \/ Upgrade
  BY <1>2, ChangeFileKeeps, UpgradeKeeps
<1>3. ASSUME NEW s \in Scans,
             \/ OpenScan(s) \/ OpenCorrupt(s) \/ ObserveBefore(s) \/ ReadStamp(s)
             \/ LookUp(s) \/ LookUpCorrupt(s) \/ ConfirmHit(s) \/ RestampAndParse(s)
             \/ Store(s) \/ HandOver(s) \/ FinishScan(s)
      PROVE  ScanCacheInv'
  BY <1>3, OpenScanKeeps, OpenCorruptKeeps, ObserveBeforeKeeps, ReadStampKeeps, LookUpKeeps, LookUpCorruptKeeps,
     ConfirmHitKeeps, RestampAndParseKeeps, StoreKeeps, HandOverKeeps, FinishScanKeeps
<1>4. CASE RebuildObserve \/ RebuildParse \/ RebuildRecord \/ RebuildSweep \/ RebuildEnd
  BY <1>4, RebuildObserveKeeps, RebuildParseKeeps, RebuildRecordKeeps, RebuildSweepKeeps, RebuildEndKeeps
<1> QED BY <1>1, <1>2, <1>3, <1>4 DEF CacheNext

LEMMA CacheImplied == ASSUME ScanCacheInv PROVE CacheTellsTheTruth /\ NewestScanKeepsItsRows
BY DEF ScanCacheInv, RebuildInv, ScanInv, Marked, HandedOver, CacheTellsTheTruth, HandedOverAsRecorded,
      NewestScanKeepsItsRows

\* Whatever scans overlap, whoever writes the file between two looks at it and
\* whenever a release changes the parsers: no row and no session handed over is
\* taken for content it is not of, a rebuild leaves nothing of an older parser,
\* and what the newest scan has read or written is not pruned.
THEOREM ScanCacheIsTrue == CacheSpec => [](CacheTellsTheTruth /\ NewestScanKeepsItsRows)
<1>1. ScanCacheInv /\ [CacheNext]_cacheVars => ScanCacheInv'
  BY CacheStep
<1> QED BY <1>1, CacheInitial, CacheImplied, PTL DEF CacheSpec

-----------------------------------------------------------------------------
(* The index of points (QuotaIndex): what is missing from it is older than *)
(* MaxPoints points that are in it, since what has been withdrawn is less  *)
(* than what is retained beyond them.                                      *)

\* Points with the keys that PointKey gives them.
Keyed(set) ==
    /\ IsFiniteSet(set)
    /\ \A p \in set : p.ts \in Int /\ p.session \in Sessions /\ p.seq \in Int
    /\ \A p, q \in set : p.session = q.session /\ p.seq = q.seq => p = q

\* A finite set has an element that an order puts before no other.
LEMMA LastExists ==
    ASSUME NEW S, IsFiniteSet(S), S # {}, NEW R,
           \A x \in S : <<x, x>> \notin R,
           \A x, y, z \in S : <<x, y>> \in R /\ <<y, z>> \in R => <<x, z>> \in R
    PROVE  \E x \in S : \A y \in S : <<x, y>> \notin R
<1> DEFINE after(x) == {y \in S : <<x, y>> \in R}
           count == [x \in S |-> Cardinality(after(x))]
           T == {count[x] : x \in S}
<1>1. \A x \in S : IsFiniteSet(after(x)) /\ count[x] = Cardinality(after(x)) /\ count[x] \in Nat
  BY FS_Subset, FS_CardinalityType
<1> HIDE DEF count
<1>2. T \subseteq Nat /\ T # {}
  <2>1. \A m \in T : m \in Nat
    BY <1>1
  <2>2. PICK x \in S : TRUE
    OBVIOUS
  <2>3. count[x] \in T
    OBVIOUS
  <2> HIDE DEF T
  <2> QED BY <2>1, <2>3
<1>3. PICK n \in T : \A m \in T : ~(<<m, n>> \in OpToRel(<, Nat))
  BY <1>2, NatLessThanWellFounded, WFMin
<1>4. PICK x \in S : n = count[x]
  OBVIOUS
<1>5. ASSUME NEW y \in S, <<x, y>> \in R PROVE FALSE
  <2>1. after(y) \subseteq after(x) /\ y \in after(x) /\ y \notin after(y)
    BY <1>5
  <2>2. after(y) \in SUBSET after(x) /\ after(y) # after(x)
    BY <2>1
  <2>3. Cardinality(after(y)) <= Cardinality(after(x)) /\ Cardinality(after(y)) # Cardinality(after(x))
    BY <1>1, <2>2, FS_Subset
  <2>4. count[y] \in T /\ count[y] \in Nat /\ n \in Nat
    BY <1>1, <1>2
  <2>5. count[y] < n
    BY <1>1, <1>4, <2>3, <2>4
  <2> QED BY <1>3, <2>4, <2>5 DEF OpToRel
<1> QED BY <1>5

LEMMA OlderIsAnOrder ==
    ASSUME NEW S, Keyed(S)
    PROVE  /\ \A p \in S : ~Older(p, p)
           /\ \A p, q, r \in S : Older(p, q) /\ Older(q, r) => Older(p, r)
           /\ \A p, q \in S : p # q => Older(p, q) \/ Older(q, p)
<1>1. \A s \in Sessions : KeyOrder[s] \in Nat
  BY IndexAssumption
<1>2. \A s, t \in Sessions : KeyOrder[s] = KeyOrder[t] => s = t
  BY IndexAssumption
<1>3. \A p \in S : ~Older(p, p)
  BY <1>1 DEF Keyed, Older
<1>4. ASSUME NEW p \in S, NEW q \in S, NEW r \in S, Older(p, q), Older(q, r) PROVE Older(p, r)
  <2> DEFINE a == KeyOrder[p.session]
             b == KeyOrder[q.session]
             c == KeyOrder[r.session]
  <2>1. /\ p.ts \in Int /\ q.ts \in Int /\ r.ts \in Int /\ p.seq \in Int /\ q.seq \in Int /\ r.seq \in Int
        /\ a \in Nat /\ b \in Nat /\ c \in Nat
    BY <1>1 DEF Keyed
  <2> QED BY <1>4, <2>1 DEF Older
<1>5. ASSUME NEW p \in S, NEW q \in S, p # q PROVE Older(p, q) \/ Older(q, p)
  <2>1. p.session # q.session => KeyOrder[p.session] # KeyOrder[q.session]
    BY <1>2 DEF Keyed
  <2>2. p.session = q.session => p.seq # q.seq
    BY <1>5 DEF Keyed
  <2>3. KeyOrder[p.session] \in Nat /\ KeyOrder[q.session] \in Nat /\ p.ts \in Int /\ q.ts \in Int
        /\ p.seq \in Int /\ q.seq \in Int
    BY <1>1 DEF Keyed
  <2> QED BY <2>1, <2>2, <2>3 DEF Older
<1> QED BY <1>3, <1>4, <1>5

LEMMA KeyedSubset == ASSUME NEW S, Keyed(S), NEW T \in SUBSET S PROVE Keyed(T)
BY FS_Subset DEF Keyed

\* A set of keyed points has a newest and an oldest one.
LEMMA EndsExist ==
    ASSUME NEW S, Keyed(S), S # {}
    PROVE  /\ \E x \in S : \A y \in S : ~Older(x, y)
           /\ \E x \in S : \A y \in S : ~Older(y, x)
<1> DEFINE R == {pair \in S \X S : Older(pair[1], pair[2])}
           Q == {pair \in S \X S : Older(pair[2], pair[1])}
<1>1. \A x, y \in S : (<<x, y>> \in R <=> Older(x, y)) /\ (<<x, y>> \in Q <=> Older(y, x))
  OBVIOUS
<1>2. IsFiniteSet(S)
  BY DEF Keyed
<1> HIDE DEF R, Q
<1>3. \E x \in S : \A y \in S : <<x, y>> \notin R
  BY <1>1, <1>2, OlderIsAnOrder, LastExists
<1>4. \E x \in S : \A y \in S : <<x, y>> \notin Q
  BY <1>1, <1>2, OlderIsAnOrder, LastExists
<1> QED BY <1>1, <1>3, <1>4

\* The n newest points are n, or all, and newer than the others.
LEMMA NewestAreNewest ==
    ASSUME NEW S, Keyed(S), NEW n \in Nat
    PROVE  /\ Newest(S, n) \subseteq S /\ IsFiniteSet(Newest(S, n)) /\ Cardinality(Newest(S, n)) <= n
           /\ Newest(S, n) # S => Cardinality(Newest(S, n)) = n
           /\ \A p \in Newest(S, n), q \in S \ Newest(S, n) : Older(q, p)
<1> DEFINE K == Newest(S, n)
<1>1. /\ K \subseteq S /\ IsFiniteSet(K) /\ Cardinality(K) \in Nat
      /\ \A T \in SUBSET S : IsFiniteSet(T) /\ Cardinality(T) \in Nat
  BY FS_Subset, FS_CardinalityType DEF Newest, Keyed
<1>2. \A p \in S : Newer(S, p) \in SUBSET S /\ (p \in K <=> Cardinality(Newer(S, p)) < n)
  BY DEF Newest, Newer
<1>3. Cardinality(K) <= n
  <2>1. CASE K = {}
    BY <2>1, FS_EmptySet
  <2>2. CASE K # {}
    <3>1. PICK x \in K : \A y \in K : ~Older(y, x)
      BY <1>1, <2>2, EndsExist, KeyedSubset
    <3>2. K \ {x} \in SUBSET Newer(S, x)
      BY <1>1, <3>1, OlderIsAnOrder DEF Newer
    <3>3. Cardinality(K \ {x}) = Cardinality(K) - 1
      BY <1>1, <3>1, FS_RemoveElement
    <3>4. Cardinality(K \ {x}) <= Cardinality(Newer(S, x)) /\ Cardinality(Newer(S, x)) \in Nat
      BY <1>1, <1>2, <3>1, <3>2, FS_Subset
    <3>5. Cardinality(Newer(S, x)) < n
      BY <1>1, <1>2, <3>1
    <3> QED BY <1>1, <3>3, <3>4, <3>5
  <2> QED BY <2>1, <2>2
<1>4. ASSUME NEW p \in K, NEW q \in S \ K PROVE Older(q, p)
  <2>1. p \in S /\ q \in S /\ p # q
    BY <1>1
  <2>2. ASSUME Older(p, q) PROVE FALSE
    <3>1. Newer(S, q) \in SUBSET Newer(S, p)
      BY <2>1, <2>2, OlderIsAnOrder DEF Newer
    <3>2. Cardinality(Newer(S, q)) <= Cardinality(Newer(S, p)) /\ Cardinality(Newer(S, p)) \in Nat
          /\ Cardinality(Newer(S, q)) \in Nat
      BY <1>1, <1>2, <2>1, <3>1, FS_Subset
    <3> QED BY <1>2, <1>4, <2>1, <3>2
  <2> QED BY <2>1, <2>2, OlderIsAnOrder
<1>5. ASSUME K # S PROVE Cardinality(K) >= n
  <2>1. S \ K # {} /\ S \ K \in SUBSET S
    BY <1>1, <1>5
  <2>2. PICK x \in S \ K : \A y \in S \ K : ~Older(x, y)
    BY <2>1, EndsExist, KeyedSubset
  <2>3. Newer(S, x) \in SUBSET K
    BY <2>2 DEF Newer
  <2>4. Cardinality(Newer(S, x)) <= Cardinality(K) /\ Cardinality(Newer(S, x)) \in Nat
    BY <1>1, <1>2, <2>3, FS_Subset
  <2>5. ~(Cardinality(Newer(S, x)) < n)
    BY <1>2, <2>2
  <2> QED BY <1>1, <2>4, <2>5
<1> HIDE DEF K
<1>6. K # S => Cardinality(K) = n
  BY <1>1, <1>3, <1>5
<1> QED BY <1>1, <1>3, <1>4, <1>6 DEF K
-----------------------------------------------------------------------------
Corpus(c) == \A s \in Sessions : c[s] = None \/ c[s] \in Contents[s]
ObservationsOf(s, content) == IF content = None THEN {} ELSE PointKeys(s, content)
AccountsHeld(s, content) == IF content = None THEN {} ELSE AccountsOf(s, content)

LEMMA PointsAreKeyed ==
    ASSUME NEW s \in Sessions, NEW content \in Contents[s] \cup {None}
    PROVE  /\ IsFiniteSet(ObservationsOf(s, content))
           /\ \A p \in ObservationsOf(s, content) : p.session = s /\ p.ts \in Int /\ p.seq \in Int
           /\ \A p, q \in ObservationsOf(s, content) : p.seq = q.seq => p = q
<1>1. CASE content = None
  BY <1>1, FS_EmptySet DEF ObservationsOf
<1>2. CASE content \in Contents[s] /\ content # None
  <2> DEFINE n == Len(content.points)
             key == [i \in 1..n |-> [ts |-> content.points[i].ts, session |-> s, seq |-> i,
                                     point |-> content.points[i]]]
             K == PointKeys(s, content)
  <2>1. n \in Nat /\ DOMAIN content.points = 1..n /\ \A i \in 1..n : content.points[i].ts \in Int
    BY <1>2, IndexAssumption
  <2>2. K = {key[i] : i \in 1..n} /\ ObservationsOf(s, content) = K
    BY <1>2, <2>1 DEF PointKeys, ObservationsOf
  <2>3. \A i \in 1..n : key[i].session = s /\ key[i].ts \in Int /\ key[i].seq = i
    BY <2>1
  <2>4. key \in Surjection(1..n, K)
    <3>1. key \in [1..n -> K] /\ \A p \in K : \E i \in 1..n : key[i] = p
      BY <2>2
    <3> QED BY <3>1 DEF Surjection
  <2>5. IsFiniteSet(K)
    BY <2>1, <2>4, FS_Interval, FS_Surjection
  <2> HIDE DEF key, n, K
  <2> QED BY <2>2, <2>3, <2>5
<1> QED BY <1>1, <1>2

LEMMA ObservationsAreTheirs ==
    ASSUME NEW c, Corpus(c)
    PROVE  /\ Reference!Observations(c) = UNION {ObservationsOf(s, c[s]) : s \in Sessions}
           /\ \A p : p \in Reference!Observations(c) <=> \E s \in Sessions : p \in ObservationsOf(s, c[s])
<1>1. Reference!Observations(c) = UNION {PointKeys(s, c[s]) : s \in {t \in Sessions : c[t] # None}}
  BY DEF Reference!Observations, PointKeys
<1>2. \A p : p \in Reference!Observations(c) <=> \E s \in Sessions : c[s] # None /\ p \in PointKeys(s, c[s])
  BY <1>1
<1>3. \A p : p \in Reference!Observations(c) <=> \E s \in Sessions : p \in ObservationsOf(s, c[s])
  BY <1>2 DEF ObservationsOf
<1> QED BY <1>3

LEMMA ObservationsAreKeyed == ASSUME NEW c, Corpus(c) PROVE Keyed(Reference!Observations(c))
<1> DEFINE O == Reference!Observations(c)
           of == [s \in Sessions |-> ObservationsOf(s, c[s])]
<1>1. \A s \in Sessions : of[s] = ObservationsOf(s, c[s]) /\ IsFiniteSet(of[s])
  BY PointsAreKeyed DEF Corpus
<1>2. IsFiniteSet(O)
  <2> DEFINE all == {of[s] : s \in Sessions}
  <2>1. of \in Surjection(Sessions, all)
    <3>1. of \in [Sessions -> all] /\ \A T \in all : \E s \in Sessions : of[s] = T
      OBVIOUS
    <3> QED BY <3>1 DEF Surjection
  <2>2. IsFiniteSet(all) /\ \A T \in all : IsFiniteSet(T)
    BY <1>1, <2>1, FS_Surjection, IndexAssumption
  <2>3. O = UNION all
    BY ObservationsAreTheirs
  <2> HIDE DEF all
  <2> QED BY <2>2, <2>3, FS_UNION
<1>3. \A p \in O : \E s \in Sessions : p \in of[s]
  BY ObservationsAreTheirs
<1>4. \A s \in Sessions : \A p \in of[s] : p.session = s /\ p.ts \in Int /\ p.seq \in Int
  BY <1>1, PointsAreKeyed DEF Corpus
<1>5. \A s \in Sessions : \A p, q \in of[s] : p.seq = q.seq => p = q
  BY <1>1, PointsAreKeyed DEF Corpus
<1> HIDE DEF O, of
<1>6. \A p \in O : p.ts \in Int /\ p.session \in Sessions /\ p.seq \in Int /\ p \in of[p.session]
  BY <1>3, <1>4
<1> QED BY <1>2, <1>5, <1>6 DEF Keyed, O

\* Where what is missing is old, the newest points of the index are the newest of all.
LEMMA SamePoints ==
    ASSUME NEW O, Keyed(O), NEW P \in SUBSET O,
           \A m \in O \ P : Cardinality(Newer(P, m)) >= MaxPoints
    PROVE  Newest(P, MaxPoints) = Newest(O, MaxPoints)
<1>0. /\ MaxPoints \in Nat
      /\ \A T \in SUBSET O : IsFiniteSet(T) /\ Cardinality(T) \in Nat
  BY CapsAssumption, FS_Subset, FS_CardinalityType DEF Keyed
<1>1. \A p \in O : Newer(P, p) \in SUBSET Newer(O, p) /\ Newer(O, p) \in SUBSET O
  BY DEF Newer
<1>2. \A p \in O : /\ Cardinality(Newer(P, p)) <= Cardinality(Newer(O, p))
                   /\ Cardinality(Newer(P, p)) \in Nat /\ Cardinality(Newer(O, p)) \in Nat
  BY <1>0, <1>1, FS_Subset
<1>3. ASSUME NEW p \in Newest(O, MaxPoints) PROVE p \in Newest(P, MaxPoints)
  <2>1. p \in O /\ Cardinality(Newer(O, p)) < MaxPoints
    BY DEF Newest
  <2>2. Cardinality(Newer(P, p)) < MaxPoints
    BY <1>0, <1>2, <2>1
  <2>3. p \in P
    BY <1>0, <1>2, <2>1, <2>2
  <2> QED BY <2>2, <2>3 DEF Newest
<1>4. ASSUME NEW p \in Newest(P, MaxPoints) PROVE p \in Newest(O, MaxPoints)
  <2>1. p \in P /\ p \in O /\ Cardinality(Newer(P, p)) < MaxPoints
    BY DEF Newest
  <2>2. CASE Newer(O, p) \subseteq P
    <3>1. Newer(O, p) = Newer(P, p)
      BY <2>2 DEF Newer
    <3> QED BY <2>1, <3>1 DEF Newest
  <2>3. CASE \E m \in Newer(O, p) : m \notin P
    <3>1. PICK m \in O \ P : Older(p, m)
      BY <2>3 DEF Newer
    <3>2. Newer(P, m) \in SUBSET Newer(P, p)
      BY <2>1, <3>1, OlderIsAnOrder DEF Newer
    <3>3. Cardinality(Newer(P, m)) <= Cardinality(Newer(P, p))
      BY <1>0, <1>1, <2>1, <3>2, FS_Subset
    <3> QED BY <1>0, <1>2, <2>1, <3>1, <3>3
  <2> QED BY <2>2, <2>3
<1> QED BY <1>3, <1>4

\* The reference counts as this module does.
LEMMA SameCardinality == ASSUME NEW S PROVE Reference!Cardinality(S) = Cardinality(S)
BY DEF Reference!Cardinality, Cardinality

\* The newest points are those that a from-scratch reading may leave.
LEMMA NewestAreLeft ==
    ASSUME NEW O, Keyed(O)
    PROVE  Newest(O, MaxPoints) \in Reference!NewestPoints(O)
<1> DEFINE K == Newest(O, MaxPoints)
<1>1. MaxPoints \in Nat /\ IsFiniteSet(O) /\ Cardinality(O) \in Nat
  BY CapsAssumption, FS_CardinalityType DEF Keyed
<1>2. /\ K \in SUBSET O /\ IsFiniteSet(K) /\ Cardinality(K) <= MaxPoints
      /\ (K # O => Cardinality(K) = MaxPoints)
      /\ \A p \in K, q \in O \ K : Older(q, p)
  BY <1>1, NewestAreNewest
<1>3. Cardinality(K) = IF Cardinality(O) > MaxPoints THEN MaxPoints ELSE Cardinality(O)
  <2>1. CASE K = O
    BY <1>1, <1>2, <2>1
  <2>2. CASE K # O
    <3>1. Cardinality(K) = MaxPoints /\ Cardinality(K) <= Cardinality(O) /\ Cardinality(K) # Cardinality(O)
      BY <1>1, <1>2, <2>2, FS_Subset
    <3> QED BY <1>1, <3>1
  <2> QED BY <2>1, <2>2
<1>4. ASSUME NEW p \in K, NEW q \in O \ K PROVE Reference!Outlives(p, q)
  <2>1. Older(q, p) /\ p \in O /\ q \in O
    BY <1>2, <1>4
  <2>2. KeyOrder[p.session] \in Nat /\ p.session \in Sessions /\ q.session \in Sessions
    BY <2>1, IndexAssumption DEF Keyed
  <2> QED BY <2>1, <2>2 DEF Older, Reference!Outlives
<1> HIDE DEF K
<1>5. K \in Reference!NewestPoints(O)
  BY <1>2, <1>3, <1>4, SameCardinality DEF Reference!NewestPoints
<1> QED BY <1>5 DEF K

\* The account the index shows is one of a session whose last event is newest.
LEMMA AccountIsNewest ==
    ASSUME NEW c, Corpus(c), NEW ix, ix.accounts = UNION {AccountsHeld(s, c[s]) : s \in Sessions}
    PROVE  IndexReading(ix).account \in Reference!NewestAccounts(c)
<1> DEFINE has == {s \in Sessions : c[s] # None /\ c[s].account # None}
           key(s) == [at |-> c[s].last, session |-> s, account |-> c[s].account]
           A == ix.accounts
           newest == {a \in A : \A b \in A : ~LaterAccount(b, a)}
<1>1. A = {key(s) : s \in has}
  <2>1. \A s \in Sessions : AccountsHeld(s, c[s]) = IF s \in has THEN {key(s)} ELSE {}
    BY DEF AccountsHeld, AccountsOf
  <2> HIDE DEF key
  <2>2. ASSUME NEW a \in A PROVE a \in {key(s) : s \in has}
    <3>1. PICK s \in Sessions : a \in AccountsHeld(s, c[s])
      OBVIOUS
    <3> QED BY <2>1, <3>1
  <2>3. ASSUME NEW s \in has PROVE key(s) \in A
    BY <2>1
  <2> QED BY <2>2, <2>3
<1>2. \A s \in has : s \in Sessions /\ c[s].last \in Int /\ KeyOrder[s] \in Nat
  BY IndexAssumption DEF Corpus
<1>3. IndexReading(ix).account = IF newest = {} THEN None ELSE (CHOOSE a \in newest : TRUE).account
  BY DEF IndexReading
<1>4. CASE has = {}
  <2>1. newest = {}
    BY <1>1, <1>4
  <2> QED BY <1>3, <1>4, <2>1 DEF Reference!NewestAccounts
<1>5. CASE has # {}
  <2> DEFINE before(s, t) == c[s].last < c[t].last \/ (c[s].last = c[t].last /\ KeyOrder[s] < KeyOrder[t])
             R == {pair \in has \X has : before(pair[1], pair[2])}
  <2>1. \A s, t \in has : <<s, t>> \in R <=> before(s, t)
    OBVIOUS
  <2>2. IsFiniteSet(has)
    BY FS_Subset, IndexAssumption
  <2>3. /\ \A x \in has : ~before(x, x)
        /\ \A x, y, z \in has : before(x, y) /\ before(y, z) => before(x, z)
    <3> HIDE DEF has
    <3> QED BY <1>2
  <2> HIDE DEF R
  <2>4. PICK s \in has : \A t \in has : <<s, t>> \notin R
    <3> HIDE DEF has, before
    <3> QED BY <1>5, <2>1, <2>2, <2>3, LastExists
  <2>5. \A t \in has : ~before(s, t)
    BY <2>1, <2>4
  <2>6. \A t, u \in has : LaterAccount(key(t), key(u)) <=> before(u, t)
    <3> HIDE DEF has
    <3> QED BY <1>2 DEF LaterAccount
  <2>7. key(s) \in newest
    <3> HIDE DEF has, key, before
    <3> QED BY <1>1, <2>4, <2>5, <2>6
  <2>8. PICK t \in has : (CHOOSE a \in newest : TRUE) = key(t) /\ key(t) \in newest
    <3> HIDE DEF has, key, A
    <3>1. (CHOOSE a \in newest : TRUE) \in newest
      BY <2>7
    <3> QED BY <1>1, <3>1
  <2>9. \A u \in has : ~LaterAccount(key(u), key(t))
    <3> HIDE DEF has, key
    <3> QED BY <1>1, <2>8
  <2>10. \A u \in has : c[u].last <= c[t].last
    <3> HIDE DEF has
    <3>1. \A u \in has : ~before(t, u)
      BY <2>6, <2>8, <2>9
    <3> QED BY <1>2, <2>8, <3>1
  <2>11. IndexReading(ix).account = c[t].account
    <3>1. key(t).account = c[t].account
      OBVIOUS
    <3> HIDE DEF key, has, A, newest
    <3>2. newest # {}
      BY <2>7
    <3> QED BY <1>3, <2>8, <3>1, <3>2
  <2> QED BY <1>5, <2>10, <2>11 DEF Reference!NewestAccounts
<1> QED BY <1>4, <1>5
-----------------------------------------------------------------------------
IndexTypes ==
    /\ Corpus(held)
    /\ DOMAIN held = Sessions /\ DOMAIN sessions = Sessions /\ DOMAIN writer = Writers
    /\ \A w \in Writers : writer[w] # None =>
         /\ writer[w].session \in Sessions /\ writer[w].content \in Contents[writer[w].session]
    /\ lost \in Nat /\ lost <= MaxLost

\* Who has contributed what: the points that are there, and the accounts.
Contributed ==
    /\ index = [points |-> index.points, accounts |-> index.accounts,
                contributions |-> [s \in Sessions |-> [keys |-> {p \in index.points : p.session = s},
                                                       accounts |-> AccountsHeld(s, held[s])]]]
    /\ index.points \subseteq Reference!Observations(held)
    /\ index.accounts = UNION {AccountsHeld(s, held[s]) : s \in Sessions}

\* What is missing is older than the retained points, less those withdrawn since.
NewerAreKept ==
    /\ Cardinality(index.points) <= Retained
    /\ \A m \in Missing(held, index) : Cardinality(Newer(index.points, m)) >= Retained - lost

\* A session that one writer at a time publishes is the one that was folded in.
Published ==
    \A s \in Sessions \ torn :
       /\ ~Writing(s) => sessions[s] = held[s]
       /\ \A w, v \in Writers : writer[w] # None /\ writer[w].session = s =>
            /\ writer[w].content = held[s]
            /\ writer[v] # None /\ writer[v].session = s => w = v

IndexInv == IndexTypes /\ Contributed /\ NewerAreKept /\ Published

LEMMA IndexInitial == ASSUME IndexInit PROVE IndexInv
<1>1. IndexTypes
  BY CapsAssumption DEF IndexInit, IndexTypes, Corpus
<1>2. Reference!Observations(held) = {}
  BY DEF IndexInit, Reference!Observations
<1>3. \A s \in Sessions : AccountsHeld(s, held[s]) = {}
  BY DEF IndexInit, AccountsHeld
<1>4. index.points = {} /\ index.accounts = {}
  BY DEF IndexInit, EmptyIndex
<1>5. Contributed
  <2>1. UNION {AccountsHeld(s, held[s]) : s \in Sessions} = {}
    BY <1>3
  <2>2. index.contributions = [s \in Sessions |-> [keys |-> {}, accounts |-> {}]]
    BY DEF IndexInit, EmptyIndex, NoContribution
  <2>3. index = [points |-> index.points, accounts |-> index.accounts, contributions |-> index.contributions]
    BY DEF IndexInit, EmptyIndex
  <2>4. [s \in Sessions |-> [keys |-> {}, accounts |-> {}]]
            = [s \in Sessions |-> [keys |-> {p \in index.points : p.session = s},
                                   accounts |-> AccountsHeld(s, held[s])]]
    BY <1>3, <1>4
  <2> QED BY <1>2, <1>4, <2>1, <2>2, <2>3, <2>4 DEF Contributed
<1>6. NewerAreKept
  BY <1>2, <1>4, CapsAssumption, FS_EmptySet DEF NewerAreKept, Missing
<1>7. Published
  BY DEF IndexInit, Published
<1> QED BY <1>1, <1>5, <1>6, <1>7 DEF IndexInv

\* As long as what was withdrawn is within the cushion, the index reads what a
\* from-scratch computation may.
LEMMA ReadingIsFromScratch == ASSUME IndexInv PROVE IndexReading(index) \in Reference!FromScratch(held)
<1> DEFINE O == Reference!Observations(held)
           P == index.points
<1>1. Keyed(O) /\ P \in SUBSET O
  BY ObservationsAreKeyed DEF IndexInv, IndexTypes, Contributed
<1>2. ASSUME NEW m \in O \ P PROVE Cardinality(Newer(P, m)) >= MaxPoints
  <2>1. Cardinality(Newer(P, m)) >= Retained - lost
    BY DEF IndexInv, NewerAreKept, Missing
  <2>2. Newer(P, m) \in SUBSET O
    BY <1>1 DEF Newer
  <2>3. Cardinality(Newer(P, m)) \in Nat
    BY <1>1, <2>2, FS_Subset, FS_CardinalityType DEF Keyed
  <2> QED BY <2>1, <2>3, CapsAssumption DEF IndexInv, IndexTypes
<1> HIDE DEF O, P
<1>3. Newest(P, MaxPoints) \in Reference!NewestPoints(O)
  BY <1>1, <1>2, SamePoints, NewestAreLeft
<1>4. IndexReading(index).account \in Reference!NewestAccounts(held)
  BY AccountIsNewest DEF IndexInv, IndexTypes, Contributed
<1>5. /\ IndexReading(index) = [points |-> IndexReading(index).points, account |-> IndexReading(index).account]
      /\ IndexReading(index).points = Newest(P, MaxPoints)
  BY DEF IndexReading, P
<1> QED BY <1>3, <1>4, <1>5 DEF Reference!FromScratch, O

-----------------------------------------------------------------------------
\* Folding a session in, or out: the points that stay are the newest of what the
\* others have and what it has now.
LEMMA FoldKeeps ==
    ASSUME IndexInv, NEW s \in Sessions, NEW content \in Contents[s] \cup {None}, NEW ix,
           Fold(s, content, ix),
           ix.points = Newest({p \in index.points : p.session # s} \cup ObservationsOf(s, content), Retained)
    PROVE  /\ NewerAreKept' /\ index'.points \subseteq Reference!Observations(held')
           /\ Corpus(held') /\ DOMAIN held' = Sessions /\ lost' \in Nat /\ lost' <= MaxLost
<1> DEFINE O == Reference!Observations(held)
           N == Reference!Observations(held')
           P == index.points
           S == {p \in P : p.session # s} \cup ObservationsOf(s, content)
           K == Newest(S, Retained)
           gone == P \ N
<1>1. /\ held' = [held EXCEPT ![s] = content] /\ index' = ix /\ ix.points = K
      /\ lost' = Withdrawn(held', ix) /\ lost' <= MaxLost /\ DOMAIN held = Sessions
  BY DEF Fold, IndexInv, IndexTypes
<1>2. Corpus(held) /\ Corpus(held') /\ DOMAIN held' = Sessions
  BY <1>1 DEF IndexInv, IndexTypes, Corpus
<1>3. Keyed(O) /\ Keyed(N) /\ P \in SUBSET O
  BY <1>2, ObservationsAreKeyed DEF IndexInv, Contributed
<1>4. \A p : /\ p \in O <=> \E t \in Sessions : p \in ObservationsOf(t, held[t])
             /\ p \in N <=> \E t \in Sessions : p \in ObservationsOf(t, held'[t])
  BY <1>2, ObservationsAreTheirs
<1>5. \A t \in Sessions : /\ \A p \in ObservationsOf(t, held[t]) : p.session = t
                          /\ \A p \in ObservationsOf(t, held'[t]) : p.session = t
  BY <1>2, PointsAreKeyed DEF Corpus
<1>6. held'[s] = content /\ \A t \in Sessions \ {s} : held'[t] = held[t]
  BY <1>1
<1> HIDE DEF O, N
<1>7. /\ \A p \in N : IF p.session = s THEN p \in ObservationsOf(s, content) ELSE p \in O
      /\ \A p \in O : p.session # s => p \in N
      /\ ObservationsOf(s, content) \subseteq N
  BY <1>4, <1>5, <1>6
<1>8. S \in SUBSET N /\ Keyed(S)
  <2>1. S \in SUBSET N
    BY <1>3, <1>7
  <2> QED BY <1>3, <2>1, KeyedSubset
<1>9. Retained \in Nat
  BY CapsAssumption
<1> HIDE DEF S
<1>10. /\ K \subseteq S /\ IsFiniteSet(K) /\ Cardinality(K) <= Retained /\ (K # S => Cardinality(K) = Retained)
       /\ \A p \in K, q \in S \ K : Older(q, p)
  BY <1>8, <1>9, NewestAreNewest
<1>11. /\ \A T \in SUBSET O : IsFiniteSet(T) /\ Cardinality(T) \in Nat
       /\ \A T \in SUBSET N : IsFiniteSet(T) /\ Cardinality(T) \in Nat
  BY <1>3, FS_Subset, FS_CardinalityType DEF Keyed
<1>12. gone \in SUBSET O /\ Cardinality(gone) \in Nat
  BY <1>3, <1>11
<1> HIDE DEF K, gone
<1>13. /\ Missing(held', ix) = N \ K
       /\ lost' = IF N \ K = {} THEN 0 ELSE lost + Cardinality(gone)
  BY <1>1 DEF Withdrawn, Missing, N, gone, P
<1>14. lost \in Nat /\ lost' \in Nat
  BY <1>12, <1>13 DEF IndexInv, IndexTypes
<1>15. ASSUME NEW m \in N \ K PROVE Cardinality(Newer(K, m)) >= Retained - lost'
  <2>1. Newer(K, m) \in SUBSET K /\ Newer(K, m) \in SUBSET N /\ Cardinality(Newer(K, m)) \in Nat
    BY <1>8, <1>10, <1>11 DEF Newer
  <2>2. ASSUME NEW e \in S \ K, e = m \/ Older(m, e) PROVE Cardinality(Newer(K, m)) >= Retained
    <3>1. K \in SUBSET N /\ e \in N /\ m \in N
      BY <1>8, <1>10
    <3>2. \A p \in K : Older(m, p)
      BY <1>3, <1>10, <2>2, <3>1, OlderIsAnOrder
    <3>3. Newer(K, m) = K
      BY <3>2 DEF Newer
    <3>4. K # S
      OBVIOUS
    <3> QED BY <1>9, <1>10, <3>3, <3>4
  <2>3. CASE m \in S
    BY <1>9, <1>14, <2>1, <2>2, <2>3
  <2>4. CASE m \notin S
    <3>1. m \in O /\ m \notin P
      BY <1>7, <2>4 DEF S
    <3>2. Cardinality(Newer(P, m)) >= Retained - lost
      BY <3>1 DEF IndexInv, NewerAreKept, Missing, O
    <3>3. CASE \E e \in S \ K : Older(m, e)
      BY <1>9, <1>14, <2>1, <2>2, <3>3
    <3>4. CASE \A e \in S \ K : ~Older(m, e)
      <4>1. Newer(P, m) \in SUBSET (Newer(K, m) \cup gone)
        <5>1. ASSUME NEW p \in P, Older(m, p), p \in N PROVE p \in K
          <6>1. p \in S
            BY <1>7, <5>1 DEF S
          <6> QED BY <3>4, <5>1, <6>1
        <5> QED BY <5>1 DEF Newer, gone
      <4>2. IsFiniteSet(Newer(K, m)) /\ IsFiniteSet(gone)
        BY <1>11, <1>12, <2>1
      <4>3. /\ IsFiniteSet(Newer(K, m) \cup gone)
            /\ Cardinality(Newer(K, m) \cup gone)
                 = Cardinality(Newer(K, m)) + Cardinality(gone) - Cardinality(Newer(K, m) \cap gone)
        BY <4>2, FS_Union
      <4>4. Cardinality(Newer(K, m) \cap gone) \in Nat
        BY <4>2, FS_Intersection, FS_CardinalityType
      <4>5. /\ Cardinality(Newer(P, m)) <= Cardinality(Newer(K, m) \cup gone)
        BY <4>1, <4>3, FS_Subset
      <4>6. Newer(P, m) \in SUBSET O /\ Cardinality(Newer(P, m)) \in Nat
        BY <1>3, <1>11 DEF Newer
      <4>7. lost' = lost + Cardinality(gone)
        BY <1>13
      <4> QED BY <1>9, <1>12, <1>14, <2>1, <3>2, <4>3, <4>4, <4>5, <4>6, <4>7
    <3> QED BY <3>3, <3>4
  <2> QED BY <2>3, <2>4
<1>16. NewerAreKept'
  BY <1>1, <1>10, <1>13, <1>15 DEF NewerAreKept
<1>17. index'.points \subseteq N
  BY <1>1, <1>8, <1>10
<1> QED BY <1>1, <1>2, <1>14, <1>16, <1>17 DEF N

\* No more points than may stay all stay.
LEMMA AllAreNewest ==
    ASSUME NEW T, Keyed(T), NEW n \in Nat, Cardinality(T) <= n PROVE Newest(T, n) = T
<1>1. /\ Newest(T, n) \in SUBSET T /\ (Newest(T, n) # T => Cardinality(Newest(T, n)) = n)
      /\ IsFiniteSet(T) /\ Cardinality(T) \in Nat
  BY NewestAreNewest, FS_CardinalityType DEF Keyed
<1>2. Cardinality(Newest(T, n)) <= Cardinality(T) /\ (Cardinality(T) = Cardinality(Newest(T, n)) => T = Newest(T, n))
  BY <1>1, FS_Subset
<1> QED BY <1>1, <1>2

LEMMA AccountsAreTheirs ==
    ASSUME NEW s, NEW content, NEW a \in AccountsHeld(s, content) PROVE a.session = s
BY DEF AccountsHeld, AccountsOf

\* What a session is seen to contribute is replaced by what it has now.
LEMMA AccountsFollow ==
    ASSUME NEW s \in Sessions, NEW content, DOMAIN held = Sessions, held' = [held EXCEPT ![s] = content]
    PROVE  UNION {AccountsHeld(t, held'[t]) : t \in Sessions}
             = ((UNION {AccountsHeld(t, held[t]) : t \in Sessions}) \ AccountsHeld(s, held[s]))
                   \cup AccountsHeld(s, content)
<1>1. held'[s] = content /\ \A t \in Sessions \ {s} : held'[t] = held[t]
  OBVIOUS
<1>2. \A t \in Sessions \ {s} : AccountsHeld(t, held[t]) \cap AccountsHeld(s, held[s]) = {}
  BY AccountsAreTheirs
<1> DEFINE all == UNION {AccountsHeld(t, held[t]) : t \in Sessions}
           then == UNION {AccountsHeld(t, held'[t]) : t \in Sessions}
<1>3. \A a : /\ a \in all <=> \E t \in Sessions : a \in AccountsHeld(t, held[t])
             /\ a \in then <=> \E t \in Sessions : a \in AccountsHeld(t, held'[t])
  OBVIOUS
<1> HIDE DEF all, then
<1>4. then = (all \ AccountsHeld(s, held[s])) \cup AccountsHeld(s, content)
  BY <1>1, <1>2, <1>3
<1> QED BY <1>4 DEF all, then

LEMMA RetractLeaves ==
    ASSUME IndexInv, NEW s \in Sessions
    PROVE  Retract(index, s) =
             [points |-> {p \in index.points : p.session # s},
              accounts |-> index.accounts \ AccountsHeld(s, held[s]),
              contributions |-> [t \in Sessions |->
                 IF t = s THEN NoContribution
                 ELSE [keys |-> {p \in index.points : p.session = t}, accounts |-> AccountsHeld(t, held[t])]]]
<1> DEFINE of == [t \in Sessions |-> [keys |-> {p \in index.points : p.session = t},
                                      accounts |-> AccountsHeld(t, held[t])]]
<1>1. index.contributions = of
  BY DEF IndexInv, Contributed
<1>2. of[s].keys = {p \in index.points : p.session = s} /\ of[s].accounts = AccountsHeld(s, held[s])
  OBVIOUS
<1>3. [of EXCEPT ![s] = NoContribution] = [t \in Sessions |-> IF t = s THEN NoContribution ELSE of[t]]
  OBVIOUS
<1>4. index.points \ {p \in index.points : p.session = s} = {p \in index.points : p.session # s}
  OBVIOUS
<1> QED BY <1>1, <1>2, <1>3, <1>4 DEF Retract

LEMMA EvictGives ==
    ASSUME NEW ix
    PROVE  EvictExcess(ix) =
             [points |-> ix.points \ Excess(ix.points), accounts |-> ix.accounts,
              contributions |-> [s \in Sessions |->
                 [keys |-> ix.contributions[s].keys \ Excess(ix.points), accounts |-> ix.contributions[s].accounts]]]
BY DEF EvictExcess

\* update_session: the newest of the points remain, each claimed by its session.
LEMMA UpdateGives ==
    ASSUME IndexInv, NEW s \in Sessions, NEW content \in Contents[s]
    PROVE  LET S == {p \in index.points : p.session # s} \cup ObservationsOf(s, content)
               K == Newest(S, Retained)
           IN  UpdateSession(index, s, content) =
                 [points |-> K,
                  accounts |-> (index.accounts \ AccountsHeld(s, held[s])) \cup AccountsHeld(s, content),
                  contributions |-> [t \in Sessions |->
                     [keys |-> {p \in K : p.session = t},
                      accounts |-> AccountsHeld(t, [held EXCEPT ![s] = content][t])]]]
<1> DEFINE S == {p \in index.points : p.session # s} \cup ObservationsOf(s, content)
           K == Newest(S, Retained)
           keys == PointKeys(s, content)
           accounts == AccountsOf(s, content)
           kept == {p \in index.points : p.session # s}
           left == index.accounts \ AccountsHeld(s, held[s])
           before == [t \in Sessions |->
                 IF t = s THEN NoContribution
                 ELSE [keys |-> {p \in index.points : p.session = t}, accounts |-> AccountsHeld(t, held[t])]]
           claims == [t \in Sessions |->
                 IF t = s THEN [keys |-> keys, accounts |-> accounts]
                 ELSE [keys |-> {p \in index.points : p.session = t}, accounts |-> AccountsHeld(t, held[t])]]
           ix == [points |-> kept \cup keys, accounts |-> left \cup accounts, contributions |-> claims]
           after == [t \in Sessions |-> [keys |-> {p \in K : p.session = t},
                                         accounts |-> AccountsHeld(t, [held EXCEPT ![s] = content][t])]]
<1>1. content # None /\ keys = ObservationsOf(s, content) /\ accounts = AccountsHeld(s, content)
      /\ DOMAIN held = Sessions
  BY IndexAssumption DEF ObservationsOf, AccountsHeld, IndexInv, IndexTypes
<1>2. \A p \in keys : p.session = s
  BY <1>1, PointsAreKeyed
<1>3. Retract(index, s) = [points |-> kept, accounts |-> left, contributions |-> before]
  BY RetractLeaves
<1>4. [before EXCEPT ![s] = [keys |-> keys, accounts |-> accounts]] = claims
  OBVIOUS
<1>5. UpdateSession(index, s, content) = EvictExcess(ix)
  <2>1. /\ Retract(index, s).points = kept /\ Retract(index, s).accounts = left
        /\ Retract(index, s).contributions = before
    BY <1>3
  <2> HIDE DEF kept, left, before, claims, keys, accounts
  <2> QED BY <1>4, <2>1 DEF UpdateSession, keys, accounts
<1>6. kept \cup keys = S /\ K \subseteq S /\ S \ (S \ K) = K
  BY <1>1 DEF Newest
<1>7. Excess(ix.points) = S \ K
  BY <1>6 DEF Excess
<1>8. \A t \in Sessions : [keys |-> claims[t].keys \ (S \ K), accounts |-> claims[t].accounts] = after[t]
  <2> SUFFICES ASSUME NEW t \in Sessions PROVE [keys |-> claims[t].keys \ (S \ K), accounts |-> claims[t].accounts] = after[t]
    OBVIOUS
  <2>1. CASE t = s
    <3>1. claims[t] = [keys |-> keys, accounts |-> accounts]
      BY <2>1
    <3>2. keys \ (S \ K) = {p \in K : p.session = s}
      BY <1>2, <1>6
    <3>3. after[t] = [keys |-> {p \in K : p.session = s}, accounts |-> accounts]
      BY <1>1, <2>1
    <3>4. claims[t].keys = keys /\ claims[t].accounts = accounts
      BY <3>1
    <3> HIDE DEF claims, after, keys, accounts, S, K
    <3>5. claims[t].keys \ (S \ K) = {p \in K : p.session = s}
      BY <3>2, <3>4
    <3> QED BY <3>3, <3>4, <3>5
  <2>2. CASE t # s
    <3>1. claims[t] = [keys |-> {p \in index.points : p.session = t}, accounts |-> AccountsHeld(t, held[t])]
      BY <2>2
    <3>2. {p \in index.points : p.session = t} \ (S \ K) = {p \in K : p.session = t}
      BY <1>2, <1>6, <2>2
    <3>3. after[t] = [keys |-> {p \in K : p.session = t}, accounts |-> AccountsHeld(t, held[t])]
      BY <1>1, <2>2
    <3>4. claims[t].keys = {p \in index.points : p.session = t} /\ claims[t].accounts = AccountsHeld(t, held[t])
      BY <3>1
    <3>5. claims[t].keys \ (S \ K) = {p \in K : p.session = t}
      BY <3>2, <3>4
    <3> HIDE DEF claims, after, keys, accounts, S, K
    <3> QED BY <3>3, <3>4, <3>5
  <2> QED BY <2>1, <2>2
<1>9. EvictExcess(ix) = [points |-> K, accounts |-> left \cup accounts, contributions |-> after]
  <2>1. ix.points = S /\ ix.accounts = left \cup accounts /\ ix.contributions = claims
    BY <1>6
  <2>2. [t \in Sessions |-> [keys |-> claims[t].keys \ (S \ K), accounts |-> claims[t].accounts]] = after
    BY <1>8
  <2> HIDE DEF ix, claims, after, S, K, left, accounts
  <2> QED BY <1>6, <1>7, <2>1, <2>2, EvictGives
<1> QED BY <1>1, <1>5, <1>9

LEMMA RemoveGives ==
    ASSUME IndexInv, NEW s \in Sessions
    PROVE  LET K == Newest({p \in index.points : p.session # s} \cup ObservationsOf(s, None), Retained)
           IN  RemoveSession(index, s) =
                 [points |-> K,
                  accounts |-> (index.accounts \ AccountsHeld(s, held[s])) \cup AccountsHeld(s, None),
                  contributions |-> [t \in Sessions |->
                     [keys |-> {p \in K : p.session = t},
                      accounts |-> AccountsHeld(t, [held EXCEPT ![s] = None][t])]]]
<1> DEFINE kept == {p \in index.points : p.session # s}
           before == [t \in Sessions |->
                 IF t = s THEN NoContribution
                 ELSE [keys |-> {p \in index.points : p.session = t}, accounts |-> AccountsHeld(t, held[t])]]
           after == [t \in Sessions |-> [keys |-> {p \in kept : p.session = t},
                                         accounts |-> AccountsHeld(t, [held EXCEPT ![s] = None][t])]]
<1>1. Keyed(index.points) /\ Cardinality(index.points) <= Retained /\ Retained \in Nat /\ DOMAIN held = Sessions
  BY ObservationsAreKeyed, KeyedSubset, CapsAssumption DEF IndexInv, IndexTypes, Contributed, NewerAreKept
<1>2. kept \in SUBSET index.points /\ Keyed(kept)
  BY <1>1, KeyedSubset
<1>3. Cardinality(kept) <= Retained
  <2>1. Cardinality(kept) <= Cardinality(index.points) /\ Cardinality(kept) \in Nat
        /\ Cardinality(index.points) \in Nat
    BY <1>1, <1>2, FS_Subset, FS_CardinalityType DEF Keyed
  <2> QED BY <1>1, <2>1
<1>4. ObservationsOf(s, None) = {} /\ AccountsHeld(s, None) = {}
  BY DEF ObservationsOf, AccountsHeld
<1>5. Newest(kept \cup ObservationsOf(s, None), Retained) = kept
  BY <1>1, <1>2, <1>3, <1>4, AllAreNewest
<1>6. before = after
  <2> SUFFICES ASSUME NEW t \in Sessions PROVE before[t] = after[t]
    OBVIOUS
  <2>1. CASE t = s
    BY <1>1, <1>4, <2>1 DEF NoContribution
  <2>2. CASE t # s
    <3>1. {p \in kept : p.session = t} = {p \in index.points : p.session = t}
      BY <2>2
    <3>2. [held EXCEPT ![s] = None][t] = held[t]
      BY <1>1, <2>2
    <3> QED BY <2>2, <3>1, <3>2
  <2> QED BY <2>1, <2>2
<1>7. RemoveSession(index, s) =
        [points |-> kept, accounts |-> index.accounts \ AccountsHeld(s, held[s]), contributions |-> after]
  BY <1>6, RetractLeaves DEF RemoveSession
<1> QED BY <1>4, <1>5, <1>7

\* A fold leaves the index claiming what it holds and keeping what is newer.
LEMMA FoldClaims ==
    ASSUME IndexInv, NEW s \in Sessions, NEW content \in Contents[s] \cup {None}, NEW ix,
           Fold(s, content, ix),
           ix = [points |-> Newest({p \in index.points : p.session # s} \cup ObservationsOf(s, content), Retained),
                 accounts |-> (index.accounts \ AccountsHeld(s, held[s])) \cup AccountsHeld(s, content),
                 contributions |-> [t \in Sessions |->
                    [keys |-> {p \in Newest({p \in index.points : p.session # s} \cup ObservationsOf(s, content),
                                            Retained) : p.session = t},
                     accounts |-> AccountsHeld(t, [held EXCEPT ![s] = content][t])]]]
    PROVE  /\ held' = [held EXCEPT ![s] = content]
           /\ Contributed' /\ NewerAreKept'
           /\ Corpus(held') /\ DOMAIN held' = Sessions /\ lost' \in Nat /\ lost' <= MaxLost
<1> DEFINE K == Newest({p \in index.points : p.session # s} \cup ObservationsOf(s, content), Retained)
           A == (index.accounts \ AccountsHeld(s, held[s])) \cup AccountsHeld(s, content)
<1>1. /\ NewerAreKept' /\ index'.points \subseteq Reference!Observations(held')
      /\ Corpus(held') /\ DOMAIN held' = Sessions /\ lost' \in Nat /\ lost' <= MaxLost
  <2>1. ix.points = Newest({p \in index.points : p.session # s} \cup ObservationsOf(s, content), Retained)
    OBVIOUS
  <2> QED BY <2>1, FoldKeeps
<1>2. held' = [held EXCEPT ![s] = content] /\ index' = ix
  BY DEF Fold
<1>3. A = UNION {AccountsHeld(t, held'[t]) : t \in Sessions}
  <2>1. DOMAIN held = Sessions /\ index.accounts = UNION {AccountsHeld(t, held[t]) : t \in Sessions}
    BY DEF IndexInv, IndexTypes, Contributed
  <2>2. UNION {AccountsHeld(t, held'[t]) : t \in Sessions}
            = ((UNION {AccountsHeld(t, held[t]) : t \in Sessions}) \ AccountsHeld(s, held[s]))
                  \cup AccountsHeld(s, content)
    BY <1>2, <2>1, AccountsFollow
  <2> QED BY <2>1, <2>2
<1> HIDE DEF K, A
<1>4. ix = [points |-> K, accounts |-> A,
            contributions |-> [t \in Sessions |-> [keys |-> {p \in K : p.session = t},
                                                   accounts |-> AccountsHeld(t, held'[t])]]]
  BY <1>2 DEF K, A
<1>5. index'.points = K /\ index'.accounts = A
  BY <1>2, <1>4
<1>6. index' = [points |-> index'.points, accounts |-> index'.accounts,
                contributions |-> [t \in Sessions |-> [keys |-> {p \in index'.points : p.session = t},
                                                       accounts |-> AccountsHeld(t, held'[t])]]]
  BY <1>2, <1>4, <1>5
<1>7. Contributed'
  BY <1>1, <1>3, <1>5, <1>6 DEF Contributed
<1> QED BY <1>1, <1>2, <1>7

LEMMA PublishIndexKeeps ==
    ASSUME IndexInv, NEW w \in Writers, NEW s \in Sessions, NEW content \in Contents[s],
          PublishIndex(w, s, content)
    PROVE  IndexInv' /\ held' = [held EXCEPT ![s] = content]
<1> DEFINE entry == [session |-> s, content |-> content]
<1>1. /\ held' = [held EXCEPT ![s] = content] /\ Contributed' /\ NewerAreKept'
      /\ Corpus(held') /\ DOMAIN held' = Sessions /\ lost' \in Nat /\ lost' <= MaxLost
  <2>1. Fold(s, content, UpdateSession(index, s, content))
    BY DEF PublishIndex
  <2> QED BY <2>1, UpdateGives, FoldClaims
<1>2. /\ writer[w] = None /\ writer' = [writer EXCEPT ![w] = entry] /\ sessions' = sessions
      /\ torn' = IF Writing(s) THEN torn \cup {s} ELSE torn \ {s}
      /\ DOMAIN writer = Writers /\ DOMAIN held = Sessions /\ DOMAIN sessions = Sessions
  BY DEF PublishIndex, IndexInv, IndexTypes
<1>3. entry # None
  <2>1. entry \in [session : Sessions, content : UNION {Contents[t] : t \in Sessions}]
    OBVIOUS
  <2> QED BY <2>1, IndexAssumption
<1>4. entry.session = s /\ entry.content = content
  OBVIOUS
<1> HIDE DEF entry
<1>5. IndexTypes'
  BY <1>1, <1>2, <1>4 DEF IndexInv, IndexTypes
<1>6. ASSUME NEW t \in Sessions \ torn'
      PROVE  /\ ~Writing(t)' => sessions'[t] = held'[t]
             /\ \A u, v \in Writers : writer'[u] # None /\ writer'[u].session = t =>
                  /\ writer'[u].content = held'[t]
                  /\ writer'[v] # None /\ writer'[v].session = t => u = v
  <2>1. CASE t = s
    BY <1>1, <1>2, <1>3, <1>4, <2>1 DEF Writing
  <2>2. CASE t # s
    <3>1. t \in Sessions \ torn /\ held'[t] = held[t]
      BY <1>1, <1>2, <2>2
    <3>2. \A u \in Writers : writer'[u] # None /\ writer'[u].session = t <=> writer[u] # None
          /\ writer[u].session = t
      BY <1>2, <1>3, <1>4, <2>2
    <3>3. \A u \in Writers : writer'[u] # None /\ writer'[u].session = t => writer'[u] = writer[u]
      BY <1>2, <1>3, <1>4, <2>2
    <3>4. Writing(t)' <=> Writing(t)
      BY <3>2 DEF Writing
    <3> QED BY <1>2, <3>1, <3>2, <3>3, <3>4 DEF IndexInv, Published
  <2> QED BY <2>1, <2>2
<1>7. Published'
  BY <1>6 DEF Published
<1> QED BY <1>1, <1>5, <1>7 DEF IndexInv

LEMMA PublishSessionKeeps ==
    ASSUME IndexInv, NEW w \in Writers, PublishSession(w) PROVE IndexInv' /\ held' = held
<1> DEFINE s == writer[w].session
<1>1. /\ writer[w] # None /\ writer' = [writer EXCEPT ![w] = None]
      /\ sessions' = [sessions EXCEPT ![s] = writer[w].content]
      /\ held' = held /\ index' = index /\ lost' = lost /\ torn' = torn
      /\ DOMAIN writer = Writers /\ DOMAIN held = Sessions /\ DOMAIN sessions = Sessions /\ s \in Sessions
  BY DEF PublishSession, IndexInv, IndexTypes
<1>2. IndexTypes'
  BY <1>1 DEF IndexInv, IndexTypes
<1>3. Contributed' /\ NewerAreKept'
  BY <1>1 DEF IndexInv, Contributed, NewerAreKept, Missing
<1>4. Published'
  <2> SUFFICES ASSUME NEW t \in Sessions \ torn
               PROVE  /\ ~Writing(t)' => sessions'[t] = held[t]
                      /\ \A u, v \in Writers : writer'[u] # None /\ writer'[u].session = t =>
                           /\ writer'[u].content = held[t]
                           /\ writer'[v] # None /\ writer'[v].session = t => u = v
    BY <1>1 DEF Published
  <2>1. \A u \in Writers : writer'[u] # None => writer'[u] = writer[u]
    BY <1>1
  <2>2. \A u, v \in Writers : writer'[u] # None /\ writer'[u].session = t =>
          writer'[u].content = held[t] /\ (writer'[v] # None /\ writer'[v].session = t => u = v)
    BY <2>1 DEF IndexInv, Published
  <2>3. CASE t = s
    <3>1. writer[w].content = held[t]
      BY <1>1, <2>3 DEF IndexInv, Published
    <3> QED BY <1>1, <2>2, <2>3, <3>1
  <2>4. CASE t # s
    <3>1. \A u \in Writers : writer[u] # None /\ writer[u].session = t => writer'[u] = writer[u]
      BY <1>1, <2>4
    <3>2. Writing(t) => Writing(t)'
      BY <3>1 DEF Writing
    <3> QED BY <1>1, <2>2, <2>4, <3>2 DEF IndexInv, Published
  <2> QED BY <2>3, <2>4
<1> QED BY <1>1, <1>2, <1>3, <1>4 DEF IndexInv

LEMMA WithdrawKeeps ==
    ASSUME IndexInv, NEW s \in Sessions, Withdraw(s) PROVE IndexInv' /\ held' = [held EXCEPT ![s] = None]
<1>1. /\ held' = [held EXCEPT ![s] = None] /\ Contributed' /\ NewerAreKept'
      /\ Corpus(held') /\ DOMAIN held' = Sessions /\ lost' \in Nat /\ lost' <= MaxLost
  <2>1. Fold(s, None, RemoveSession(index, s))
    BY DEF Withdraw
  <2> QED BY <2>1, RemoveGives, FoldClaims
<1>2. /\ ~Writing(s) /\ sessions' = [sessions EXCEPT ![s] = None] /\ writer' = writer /\ torn' = torn \ {s}
      /\ DOMAIN held = Sessions /\ DOMAIN sessions = Sessions
  BY DEF Withdraw, IndexInv, IndexTypes
<1>3. IndexTypes'
  BY <1>1, <1>2 DEF IndexInv, IndexTypes
<1>4. Published'
  <2>1. \A t \in Sessions : Writing(t)' <=> Writing(t)
    BY <1>2 DEF Writing
  <2>2. ASSUME NEW t \in Sessions \ torn', t # s PROVE t \in Sessions \ torn /\ held'[t] = held[t]
        /\ sessions'[t] = sessions[t]
    BY <1>1, <1>2, <2>2
  <2>3. held'[s] = None /\ sessions'[s] = None
    BY <1>1, <1>2
  <2>4. \A u \in Writers : ~(writer[u] # None /\ writer[u].session = s)
    BY <1>2 DEF Writing
  <2>5. ASSUME NEW t \in Sessions \ torn'
        PROVE  /\ ~Writing(t)' => sessions'[t] = held'[t]
               /\ \A u, v \in Writers : writer[u] # None /\ writer[u].session = t =>
                    /\ writer[u].content = held'[t]
                    /\ writer[v] # None /\ writer[v].session = t => u = v
    <3>1. CASE t = s
      BY <2>3, <2>4, <3>1
    <3>2. CASE t # s
      BY <2>1, <2>2, <3>2 DEF IndexInv, Published
    <3> QED BY <3>1, <3>2
  <2> QED BY <1>2, <2>5 DEF Published
<1> QED BY <1>1, <1>3, <1>4 DEF IndexInv

\* The other steps leave the corpus and the index alone.
LEMMA IndexStep ==
    ASSUME IndexInv, [IndexNext]_indexVars
    PROVE  IndexInv' /\ [Reference!ReadsNext]_<<held, computed>>
<1> DEFINE untouched == /\ held' = held /\ sessions' = sessions /\ index' = index /\ lost' = lost
                        /\ writer' = writer /\ torn' = torn
<1>1. ASSUME untouched PROVE IndexInv'
  <2>1. IndexTypes'
    BY <1>1 DEF IndexInv, IndexTypes
  <2>2. Contributed' /\ NewerAreKept'
    BY <1>1 DEF IndexInv, Contributed, NewerAreKept, Missing
  <2>3. Published'
    BY <1>1 DEF IndexInv, Published, Writing
  <2> QED BY <2>1, <2>2, <2>3 DEF IndexInv
<1>2. CASE \E w \in Writers, s \in Sessions : \E c \in Contents[s] : PublishIndex(w, s, c)
  <2>1. PICK w \in Writers, s \in Sessions : \E c \in Contents[s] : PublishIndex(w, s, c)
    BY <1>2
  <2>2. PICK c \in Contents[s] : PublishIndex(w, s, c)
    BY <2>1
  <2>3. IndexInv' /\ held' = [held EXCEPT ![s] = c]
    BY <2>2, PublishIndexKeeps
  <2>4. computed' = computed
    BY <2>2 DEF PublishIndex
  <2>5. Reference!Fold(s, c) /\ c \in (UNION {Contents[t] : t \in Sessions}) \cup {None}
    BY <2>3, <2>4 DEF Reference!Fold
  <2> QED BY <2>3, <2>5 DEF Reference!ReadsNext
<1>3. CASE \E w \in Writers : PublishSession(w)
  BY <1>3, PublishSessionKeeps DEF PublishSession
<1>4. CASE \E s \in Sessions : Withdraw(s)
  <2>1. PICK s \in Sessions : Withdraw(s)
    BY <1>4
  <2>2. IndexInv' /\ held' = [held EXCEPT ![s] = None]
    BY <2>1, WithdrawKeeps
  <2>3. computed' = computed
    BY <2>1 DEF Withdraw
  <2>4. Reference!Fold(s, None)
    BY <2>2, <2>3 DEF Reference!Fold
  <2> QED BY <2>2, <2>4 DEF Reference!ReadsNext
<1>5. CASE \E age \in CacheAges : SaveSettings(age)
  BY <1>1, <1>5 DEF SaveSettings
<1>6. CASE Tick
  BY <1>1, <1>6 DEF Tick
<1>7. CASE BeginRead
  BY <1>1, <1>7 DEF BeginRead
<1>8. CASE ServeRead
  <2>1. untouched
    BY <1>8 DEF ServeRead
  <2>2. computed' = computed \/ computed' = IndexReading(index)
    BY <1>8 DEF ServeRead
  <2>3. Reference!Compute \/ UNCHANGED <<held, computed>>
    BY <2>1, <2>2, ReadingIsFromScratch DEF Reference!Compute
  <2> QED BY <1>1, <2>1, <2>3 DEF Reference!ReadsNext
<1>9. CASE UNCHANGED indexVars
  BY <1>1, <1>9 DEF indexVars
<1> QED BY <1>2, <1>3, <1>4, <1>5, <1>6, <1>7, <1>8, <1>9 DEF IndexNext

\* A reading of the index is one that a from-scratch computation over the sessions
\* may give, and the index holds no more than it may and only what sessions claim
\* (update_session, remove_session, provider_points): for every cap, every cushion
\* and any number of sessions and of writers.
THEOREM IndexAgreesAlways == IndexSpec => []IndexAgrees
<1>1. IndexInit => IndexInv
  BY IndexInitial
<1>2. IndexInv /\ [IndexNext]_indexVars => IndexInv'
  BY IndexStep
<1>3. ASSUME IndexInv PROVE IndexAgrees
  <2>1. \A s \in Sessions \ torn : ~Writing(s) => sessions[s] = held[s]
    BY <1>3 DEF IndexInv, Published
  <2>2. Cardinality(index.points) <= Retained
    BY <1>3 DEF IndexInv, NewerAreKept
  <2>3. index.points = UNION {index.contributions[s].keys : s \in Sessions}
    <3> DEFINE of == [s \in Sessions |-> [keys |-> {p \in index.points : p.session = s},
                                          accounts |-> AccountsHeld(s, held[s])]]
    <3>1. index.contributions = of
      BY <1>3 DEF IndexInv, Contributed
    <3>2. \A s \in Sessions : index.contributions[s].keys = {p \in index.points : p.session = s}
      BY <3>1
    <3>3. \A p \in index.points : p.session \in Sessions
      BY <1>3, ObservationsAreKeyed DEF IndexInv, IndexTypes, Contributed, Keyed
    <3> QED BY <3>2, <3>3
  <2> QED BY <1>3, <2>1, <2>2, <2>3, ReadingIsFromScratch DEF IndexAgrees
<1> QED BY <1>1, <1>2, <1>3, PTL DEF IndexSpec

\* The index, its cache and its writers implement the from-scratch reading: what
\* is computed always rests on the newest observations of all sessions.
THEOREM IndexImplementsReads == IndexSpec => ImplementsReads
<1>1. IndexInit => IndexInv
  BY IndexInitial
<1>2. IndexInv /\ [IndexNext]_indexVars => IndexInv' /\ [Reference!ReadsNext]_<<held, computed>>
  BY IndexStep
<1>3. IndexInit => Reference!ReadsInit
  BY DEF IndexInit, Reference!ReadsInit
<1> QED BY <1>1, <1>2, <1>3, PTL DEF IndexSpec, ImplementsReads, Reference!ReadsSpec

-----------------------------------------------------------------------------
(* Attention alerts (Attention).  What was told is remembered by the       *)
(* watermark of its session for as long as it is not stale, although the   *)
(* log of what was seen forgets.                                           *)
SignalRecords == [session : Threads, id : Nat, at : Nat, category : Categories, undone : BOOLEAN]
Digests == Threads \X Nat \X Nat \X BOOLEAN
Stores == [revision : Nat, categories : SUBSET Categories, seen : Seq(Digests),
           marks : [Threads -> Nat \cup {None}], last : Nat \cup {None}]
AlertRecords == [signal : SignalRecords, at : Nat]

HeldTypes(owned) ==
    /\ DOMAIN owned = {"store", "available", "armed", "alerts"}
    /\ owned.store \in Stores /\ owned.armed \in Nat /\ owned.alerts \in Seq(AlertRecords)

AttentionTypes ==
    /\ now \in Nat
    /\ IsFiniteSet(signals) /\ signals \subseteq SignalRecords
    /\ \A g, h \in signals : g.id = h.id => g = h
    /\ attentionFile \in Stores /\ (attentionFile.last # None => attentionFile.last <= now)
    /\ DOMAIN inner = Processes /\ \A p \in Processes : HeldTypes(inner[p])
    /\ issued \in Seq(AlertRecords)

\* What was told is among the signals still, or its turn has been rolled back.
StillThere(g) == \E h \in signals : SameEvent(g, h) /\ (h = g \/ h.undone)
ToldIsThere == \A i \in DOMAIN issued : StillThere(issued[i].signal)

\* What was told is stale, or not newer than the watermark.
Remembers(marks, g) == now - g.at > StaleAfter \/ (marks[g.session] # None /\ g.at <= marks[g.session])

ToldIsRemembered ==
    \A i \in DOMAIN issued :
        /\ attentionFile.last # None /\ issued[i].at <= attentionFile.last
        /\ Remembers(attentionFile.marks, issued[i].signal)

ToldApart ==
    \A i, j \in DOMAIN issued : i < j =>
        /\ SameEvent(issued[i].signal, issued[j].signal) =>
             issued[j].signal.undone /\ issued[i].signal.at < issued[j].signal.at
        /\ issued[j].at - issued[i].at >= AlertGap

\* A revision has one choice of categories, and an alert is of the chosen ones.
ChosenOf(owned) ==
    /\ owned.store.revision <= attentionFile.revision
    /\ owned.store.revision = attentionFile.revision => owned.store.categories = attentionFile.categories
    /\ \A i \in DOMAIN owned.alerts : owned.alerts[i].signal.category \in owned.store.categories

AttentionInv ==
    /\ AttentionTypes /\ ToldIsThere /\ ToldIsRemembered /\ ToldApart
    /\ \A p \in Processes : ChosenOf(inner[p])

LEMMA KeptAreNewest ==
    ASSUME NEW T, NEW seq \in Seq(T), NEW n \in Nat
    PROVE  /\ KeepNewest(seq, n) \in Seq(T)
           /\ \A i \in DOMAIN KeepNewest(seq, n) : \E j \in DOMAIN seq : KeepNewest(seq, n)[i] = seq[j]
           /\ n # 0 /\ seq # << >> =>
                /\ Len(KeepNewest(seq, n)) \in DOMAIN KeepNewest(seq, n)
                /\ KeepNewest(seq, n)[Len(KeepNewest(seq, n))] = seq[Len(seq)]
<1>1. CASE ~(Len(seq) > n)
  BY <1>1 DEF KeepNewest
<1>2. CASE Len(seq) > n
  <2> DEFINE l == Len(seq)
             kept == SubSeq(seq, l - n + 1, l)
  <2>1. KeepNewest(seq, n) = kept /\ l \in Nat /\ l > n
    BY <1>2 DEF KeepNewest
  <2>2. kept \in Seq(T) /\ Len(kept) = n /\ \A i \in 1..n : kept[i] = seq[l - n + i]
    BY <2>1
  <2>3. \A i \in 1..n : l - n + i \in DOMAIN seq
    BY <2>1
  <2>4. DOMAIN kept = 1..n
    BY <2>2
  <2> HIDE DEF kept
  <2>5. n # 0 => n \in 1..n /\ kept[n] = seq[l]
    BY <2>1, <2>2
  <2> QED BY <2>1, <2>2, <2>3, <2>4, <2>5
<1> QED BY <1>1, <1>2

LEMMA AppendedEndsSo ==
    ASSUME NEW T, NEW a \in Seq(T), NEW b \in Seq(T), Len(b) # 0
    PROVE  /\ a \o b \in Seq(T) /\ Len(a \o b) = Len(a) + Len(b) /\ (a \o b)[Len(a \o b)] = b[Len(b)]
           /\ a \o b # << >>
<1>1. a \o b \in Seq(T) /\ Len(a \o b) = Len(a) + Len(b) /\ Len(a) \in Nat /\ Len(b) \in Nat
  OBVIOUS
<1>2. (a \o b)[Len(a) + Len(b)] = b[Len(b)]
  OBVIOUS
<1>3. a \o b # << >>
  BY <1>1
<1> QED BY <1>1, <1>2, <1>3

LEMMA ForgetForgets ==
    ASSUME NEW store \in Stores
    PROVE  /\ Forget(store) \in Stores
           /\ Forget(store).revision = store.revision /\ Forget(store).categories = store.categories
           /\ Forget(store).seen = store.seen /\ Forget(store).last = store.last
           /\ \A t \in Threads : Forget(store).marks[t] =
                IF store.marks[t] # None /\ now - store.marks[t] > MarkAge THEN None ELSE store.marks[t]
<1> DEFINE marks == [t \in Threads |-> IF store.marks[t] # None /\ now - store.marks[t] > MarkAge
                                       THEN None ELSE store.marks[t]]
<1>1. Forget(store) = [store EXCEPT !.marks = marks]
  BY DEF Forget
<1>2. marks \in [Threads -> Nat \cup {None}]
  BY DEF Stores
<1>3. \A t \in Threads : marks[t] = IF store.marks[t] # None /\ now - store.marks[t] > MarkAge
                                    THEN None ELSE store.marks[t]
  OBVIOUS
<1> HIDE DEF marks
<1> QED BY <1>1, <1>2, <1>3 DEF Stores

\* What is remembered stays so, however the file forgets.
LEMMA ForgetRemembers ==
    ASSUME now \in Nat, NEW store \in Stores, NEW g \in SignalRecords, Remembers(store.marks, g)
    PROVE  Remembers(Forget(store).marks, g)
<1>1. g.session \in Threads /\ g.at \in Nat /\ StaleAfter \in Nat /\ MarkAge \in Nat /\ StaleAfter <= MarkAge
  BY AttentionAssumption DEF SignalRecords
<1>2. CASE now - g.at > StaleAfter
  BY <1>2 DEF Remembers
<1>3. CASE store.marks[g.session] # None /\ g.at <= store.marks[g.session]
  <2> DEFINE mark == store.marks[g.session]
  <2>1. mark \in Nat
    BY <1>1, <1>3 DEF Stores
  <2>2. CASE now - mark > MarkAge
    BY <1>1, <1>3, <2>1, <2>2 DEF Remembers
  <2>3. CASE ~(now - mark > MarkAge)
    BY <1>1, <1>3, <2>3, ForgetForgets DEF Remembers
  <2> QED BY <2>2, <2>3
<1> QED BY <1>2, <1>3 DEF Remembers

LEMMA BatchIsOrdered ==
    ASSUME NEW F, IsFiniteSet(F), F \subseteq SignalRecords, NEW batch \in Batches(F), batch # << >>
    PROVE  /\ batch \in Seq(F) /\ Len(batch) # 0 /\ 1 \in DOMAIN batch /\ Len(batch) \in DOMAIN batch
           /\ Last(batch) = batch[Len(batch)] /\ batch[1] \in F /\ Last(batch) \in F
           /\ batch[1].at <= Last(batch).at
<1>1. Cardinality(F) \in Nat
  BY FS_CardinalityType
<1>2. batch \in [1..Cardinality(F) -> F] /\ \A i, j \in DOMAIN batch : i < j => batch[i].at <= batch[j].at
  BY DEF Batches
<1>3. batch \in Seq(F) /\ Len(batch) = Cardinality(F) /\ DOMAIN batch = 1..Len(batch)
  BY <1>1, <1>2
<1>4. Len(batch) # 0
  BY <1>3
<1>5. Len(batch) \in Nat /\ 1 \in DOMAIN batch /\ Len(batch) \in DOMAIN batch
  BY <1>1, <1>3, <1>4
<1>6. Last(batch) = batch[Len(batch)] /\ batch[1] \in F /\ Last(batch) \in F
  BY <1>3, <1>5 DEF Last
<1>7. batch[1].at \in Nat
  BY <1>6 DEF SignalRecords
<1>8. batch[1].at <= batch[Len(batch)].at
  BY <1>2, <1>5, <1>7
<1> QED BY <1>3, <1>4, <1>5, <1>6, <1>8

\* What the file holds after a batch: the watermark of its session is that of its
\* last signal, and what was consumed is among what was seen.
LEMMA ConsumedStore ==
    ASSUME AttentionTypes, NEW store \in Stores, NEW t \in Threads,
           NEW F \in SUBSET signals, NEW batch \in Batches(F), batch # << >>,
           \A g \in F : g.session = t /\ ~Contains(store.seen, Digest(g))
    PROVE  LET after == Consumed(store, t, batch)
           IN  /\ after \in Stores /\ after.seen # store.seen
               /\ after.revision = store.revision /\ after.categories = store.categories
               /\ after.marks = [store.marks EXCEPT ![t] = Last(batch).at]
               /\ after.last = IF Tells(store, batch) THEN now ELSE store.last
<1> DEFINE digests == [i \in DOMAIN batch |-> Digest(batch[i])]
           all == store.seen \o digests
           seen == KeepNewest(all, MaxSeen)
           marks == [store.marks EXCEPT ![t] = Last(batch).at]
           last == IF Tells(store, batch) THEN now ELSE store.last
           D == Digests
<1>1. IsFiniteSet(F) /\ F \subseteq SignalRecords
  BY FS_Subset DEF AttentionTypes
<1>2. /\ batch \in Seq(F) /\ Len(batch) \in Nat \ {0} /\ Len(batch) \in DOMAIN batch
      /\ Last(batch) = batch[Len(batch)] /\ Last(batch) \in F /\ DOMAIN batch = 1..Len(batch)
  BY <1>1, BatchIsOrdered
<1>3. Consumed(store, t, batch) = [store EXCEPT !.seen = seen, !.marks = marks, !.last = last]
  BY DEF Consumed, Stores
<1>4. digests \in Seq(D) /\ Len(digests) = Len(batch) /\ digests[Len(batch)] = Digest(Last(batch))
  <2>1. \A i \in 1..Len(batch) : Digest(batch[i]) \in D
    BY <1>1, <1>2 DEF Digest, Digests, SignalRecords
  <2> QED BY <1>2, <2>1
<1>5. store.seen \in Seq(D) /\ Len(store.seen) \in Nat
  BY DEF Stores
<1> HIDE DEF digests
<1>6. /\ all \in Seq(D) /\ Len(all) = Len(store.seen) + Len(batch) /\ all[Len(all)] = Digest(Last(batch))
      /\ all # << >>
  <2>1. Len(digests) # 0 /\ Len(digests) = Len(batch)
    BY <1>2, <1>4
  <2> HIDE DEF D
  <2>2. /\ all \in Seq(D) /\ Len(all) = Len(store.seen) + Len(digests) /\ all[Len(all)] = digests[Len(digests)]
        /\ all # << >>
    BY <1>4, <1>5, <2>1, AppendedEndsSo
  <2> QED BY <1>4, <2>1, <2>2
<1> HIDE DEF all
<1>7. MaxSeen \in Nat /\ MaxSeen # 0
  BY AttentionAssumption
<1>8. seen \in Seq(D) /\ Len(seen) \in DOMAIN seen /\ seen[Len(seen)] = Digest(Last(batch))
  BY <1>6, <1>7, KeptAreNewest
<1>9. seen # store.seen
  <2>1. ~Contains(store.seen, Digest(Last(batch)))
    BY <1>2
  <2>2. \A i \in 1..Len(store.seen) : store.seen[i] # Digest(Last(batch))
    BY <2>1 DEF Contains
  <2>3. DOMAIN store.seen = 1..Len(store.seen)
    BY <1>5
  <2> QED BY <1>8, <2>2, <2>3
<1>10. marks \in [Threads -> Nat \cup {None}]
  BY <1>1, <1>2 DEF Stores, SignalRecords
<1>11. last \in Nat \cup {None}
  BY DEF Stores, AttentionTypes
<1> HIDE DEF seen, marks, last
<1>12. [store EXCEPT !.seen = seen, !.marks = marks, !.last = last] \in Stores
  BY <1>8, <1>10, <1>11 DEF Stores
<1> QED BY <1>3, <1>9, <1>12 DEF Stores, marks, last

-----------------------------------------------------------------------------
AttentionSpec == AttentionInit /\ [][AttentionNext]_attentionVars

LEMMA AttentionInitial == ASSUME AttentionInit PROVE AttentionInv
<1>1. Empty \in Stores
  <2>1. [t \in Threads |-> None] \in [Threads -> Nat \cup {None}]
    OBVIOUS
  <2> QED BY <2>1 DEF Empty, Stores
<1>2. attentionFile = Empty /\ now = 0 /\ signals = {} /\ issued = << >>
  BY DEF AttentionInit
<1>3. \A p \in Processes : inner[p] = [store |-> Empty, available |-> TRUE, armed |-> 0, alerts |-> << >>]
  BY DEF AttentionInit
<1>4. DOMAIN inner = Processes /\ \A p \in Processes : HeldTypes(inner[p])
  <2>1. HeldTypes([store |-> Empty, available |-> TRUE, armed |-> 0, alerts |-> << >>])
    BY <1>1 DEF HeldTypes
  <2> QED BY <1>3, <2>1 DEF AttentionInit
<1>5. AttentionTypes
  BY <1>1, <1>2, <1>4, FS_EmptySet DEF AttentionTypes, Empty
<1>6. ToldIsThere /\ ToldIsRemembered /\ ToldApart
  BY <1>2 DEF ToldIsThere, ToldIsRemembered, ToldApart
<1>7. \A p \in Processes : ChosenOf(inner[p])
  <2>1. Empty.revision = 0
    BY DEF Empty
  <2> QED BY <1>2, <1>3, <2>1 DEF ChosenOf
<1> QED BY <1>5, <1>6, <1>7 DEF AttentionInv

\* What only changes the signals keeps the invariant if each of them stays, or is
\* one of its own event that is undone.
LEMMA SignalsKeep ==
    ASSUME AttentionInv, UNCHANGED <<attentionFile, inner, issued, now>>,
           IsFiniteSet(signals'), signals' \subseteq SignalRecords,
           \A g, h \in signals' : g.id = h.id => g = h,
           \A g \in signals : \E h \in signals' : SameEvent(g, h) /\ (h = g \/ h.undone)
    PROVE  AttentionInv'
<1>1. AttentionTypes'
  BY DEF AttentionInv, AttentionTypes
<1>2. ToldIsThere'
  <2>1. ASSUME NEW g, StillThere(g) PROVE StillThere(g)'
    <3>1. PICK h \in signals : SameEvent(g, h) /\ (h = g \/ h.undone)
      BY <2>1 DEF StillThere
    <3>2. PICK k \in signals' : SameEvent(h, k) /\ (k = h \/ k.undone)
      OBVIOUS
    <3>3. SameEvent(g, k) /\ (k = g \/ k.undone)
      BY <3>1, <3>2 DEF SameEvent
    <3> QED BY <3>2, <3>3 DEF StillThere
  <2> QED BY <2>1 DEF AttentionInv, ToldIsThere
<1>3. ToldIsRemembered' /\ ToldApart' /\ \A p \in Processes : ChosenOf(inner[p])'
  BY DEF AttentionInv, ToldIsRemembered, ToldApart, Remembers, ChosenOf
<1> QED BY <1>1, <1>2, <1>3 DEF AttentionInv

\* A line only gives undone signals a later time.
LEMMA RecordedKeeps ==
    ASSUME AttentionTypes, NEW t \in Threads, NEW at \in Nat
    PROVE  /\ IsFiniteSet(Recorded(t, at)) /\ Recorded(t, at) \subseteq SignalRecords
           /\ \A g, h \in Recorded(t, at) : g.id = h.id => g = h
           /\ \A g \in signals : \E h \in Recorded(t, at) : SameEvent(g, h) /\ (h = g \/ (h.undone /\ g.undone))
           /\ \A h \in Recorded(t, at) : \E g \in signals : SameEvent(g, h) /\ (h = g \/ (h.undone /\ g.undone))
<1> DEFINE moved(g) == IF g.session = t /\ g.undone /\ g.at < at THEN [g EXCEPT !.at = at] ELSE g
<1>1. Recorded(t, at) = {moved(g) : g \in signals}
  BY DEF Recorded
<1>2. ASSUME NEW g \in signals
      PROVE  /\ moved(g) \in SignalRecords /\ SameEvent(g, moved(g)) /\ moved(g).id = g.id
             /\ moved(g) = g \/ (moved(g).undone /\ g.undone)
  <2>1. g \in SignalRecords
    BY DEF AttentionTypes
  <2>2. CASE g.session = t /\ g.undone /\ g.at < at
    <3>1. moved(g) = [g EXCEPT !.at = at]
      BY <2>2
    <3> HIDE DEF moved
    <3> QED BY <2>1, <2>2, <3>1 DEF SignalRecords, SameEvent
  <2>3. CASE ~(g.session = t /\ g.undone /\ g.at < at)
    <3>1. moved(g) = g
      BY <2>3
    <3> HIDE DEF moved
    <3> QED BY <2>1, <3>1 DEF SameEvent
  <2> QED BY <2>2, <2>3
<1> HIDE DEF moved
<1>3. IsFiniteSet(signals) /\ \A g, h \in signals : g.id = h.id => g = h
  BY DEF AttentionTypes
<1>4. IsFiniteSet({moved(g) : g \in signals})
  <2> DEFINE S == {moved(g) : g \in signals}
             f == [g \in signals |-> moved(g)]
  <2>1. f \in [signals -> S] /\ \A h \in S : \E g \in signals : f[g] = h
    OBVIOUS
  <2> HIDE DEF S, f
  <2>2. f \in Surjection(signals, S)
    BY <2>1 DEF Surjection
  <2>3. IsFiniteSet(S)
    BY <1>3, <2>2, FS_Surjection
  <2> QED BY <2>3 DEF S
<1>5. \A g, h \in signals : moved(g).id = moved(h).id => g = h
  BY <1>2, <1>3
<1> QED BY <1>1, <1>2, <1>4, <1>5

LEMMA LineHappensKeeps == ASSUME AttentionInv, LineHappens PROVE AttentionInv'
<1>1. PICK t \in Threads, at \in 0..now :
        signals' = Recorded(t, at) /\ UNCHANGED <<attentionFile, inner, issued, now>>
  BY DEF LineHappens
<1>2. AttentionTypes /\ at \in Nat
  BY DEF AttentionInv, AttentionTypes
<1> QED BY <1>1, <1>2, RecordedKeeps, SignalsKeep

LEMMA SignalHappensKeeps == ASSUME AttentionInv, SignalHappens PROVE AttentionInv'
<1>1. PICK t \in Threads, c \in Categories, at \in 0..now, id \in 1..MaxSignals :
        /\ \A g \in signals : g.id < id
        /\ signals' = Recorded(t, at)
                       \cup {[session |-> t, id |-> id, at |-> at, category |-> c, undone |-> FALSE]}
        /\ UNCHANGED <<attentionFile, inner, issued, now>>
  BY DEF SignalHappens
<1> DEFINE new == [session |-> t, id |-> id, at |-> at, category |-> c, undone |-> FALSE]
           before == Recorded(t, at)
<1>2. AttentionTypes /\ at \in Nat /\ id \in Nat /\ new \in SignalRecords /\ new.id = id
  BY DEF AttentionInv, AttentionTypes, SignalRecords
<1>3. signals' = before \cup {new} /\ \A g \in signals : g.id \in Nat /\ g.id < id
  BY <1>1, <1>2 DEF AttentionTypes, SignalRecords
<1> HIDE DEF new
<1>4. /\ IsFiniteSet(before) /\ before \subseteq SignalRecords
      /\ \A g, h \in before : g.id = h.id => g = h
      /\ \A g \in signals : \E h \in before : SameEvent(g, h) /\ (h = g \/ h.undone)
      /\ \A h \in before : \E g \in signals : SameEvent(g, h)
  BY <1>2, RecordedKeeps
<1> HIDE DEF before
<1>5. \A h \in before : h.id # id
  BY <1>2, <1>3, <1>4 DEF SameEvent
<1>6. IsFiniteSet(signals')
  BY <1>3, <1>4, FS_AddElement
<1>7. signals' \subseteq SignalRecords /\ \A g, h \in signals' : g.id = h.id => g = h
  BY <1>2, <1>3, <1>4, <1>5
<1>8. \A g \in signals : \E h \in signals' : SameEvent(g, h) /\ (h = g \/ h.undone)
  BY <1>3, <1>4
<1> QED BY <1>1, <1>6, <1>7, <1>8, SignalsKeep

LEMMA TurnRolledBackKeeps == ASSUME AttentionInv, TurnRolledBack PROVE AttentionInv'
<1>1. PICK g \in signals, at \in 0..now :
        /\ ~g.undone /\ \A h \in signals : h.session = g.session => h.at <= at
        /\ signals' = (Recorded(g.session, at) \ {g})
                       \cup {[g EXCEPT !.at = at, !.category = Interrupted, !.undone = TRUE]}
        /\ UNCHANGED <<attentionFile, inner, issued, now>>
  BY Zenon DEF TurnRolledBack
<1> DEFINE new == [g EXCEPT !.at = at, !.category = Interrupted, !.undone = TRUE]
           before == Recorded(g.session, at)
<1>2. /\ AttentionTypes /\ at \in Nat /\ g \in SignalRecords /\ g.session \in Threads
      /\ \A h, k \in signals : h.id = k.id => h = k
  BY DEF AttentionInv, AttentionTypes, SignalRecords
<1>3. new \in SignalRecords /\ new.id = g.id /\ SameEvent(g, new) /\ new.undone
  BY <1>2, AttentionAssumption DEF SignalRecords, SameEvent
<1>4. signals' = (before \ {g}) \cup {new}
  BY <1>1
<1> HIDE DEF new
<1>5. /\ IsFiniteSet(before) /\ before \subseteq SignalRecords
      /\ \A h, k \in before : h.id = k.id => h = k
      /\ \A h \in signals : \E k \in before : SameEvent(h, k) /\ (k = h \/ (k.undone /\ h.undone))
      /\ \A k \in before : \E h \in signals : SameEvent(h, k) /\ (k = h \/ (k.undone /\ h.undone))
  BY <1>2, RecordedKeeps
<1> HIDE DEF before
<1>6. \A k \in before : k.id = g.id => k = g
  BY <1>1, <1>2, <1>5 DEF SameEvent
<1>7. IsFiniteSet(signals')
  <2>1. IsFiniteSet(before \ {g})
    BY <1>5, FS_Subset
  <2> QED BY <1>4, <2>1, FS_AddElement
<1>8. signals' \subseteq SignalRecords /\ \A h, k \in signals' : h.id = k.id => h = k
  BY <1>3, <1>4, <1>5, <1>6
<1>9. ASSUME NEW h \in signals PROVE \E k \in signals' : SameEvent(h, k) /\ (k = h \/ k.undone)
  <2>1. CASE h = g
    BY <1>3, <1>4, <2>1
  <2>2. CASE h # g
    <3>1. PICK k \in before : SameEvent(h, k) /\ (k = h \/ k.undone)
      BY <1>5
    <3>2. k # g
      BY <1>1, <1>2, <2>2, <3>1 DEF SameEvent
    <3> QED BY <1>4, <3>1, <3>2
  <2> QED BY <2>1, <2>2
<1> QED BY <1>1, <1>7, <1>8, <1>9, SignalsKeep

LEMMA PassesKeeps == ASSUME AttentionInv, Passes PROVE AttentionInv'
<1>1. now' = now + 1 /\ UNCHANGED <<attentionFile, inner, signals, issued>> /\ now \in Nat
  BY DEF Passes, AttentionInv, AttentionTypes
<1>2. AttentionTypes'
  <2>1. attentionFile.last # None => attentionFile.last \in Nat
    BY DEF AttentionInv, AttentionTypes, Stores
  <2> QED BY <1>1, <2>1 DEF AttentionInv, AttentionTypes
<1>3. ToldIsRemembered'
  <2>1. ASSUME NEW i \in DOMAIN issued PROVE issued[i].signal.at \in Nat
    <3>1. issued[i] \in AlertRecords
      BY DEF AttentionInv, AttentionTypes
    <3> QED BY <3>1 DEF AlertRecords, SignalRecords
  <2>2. StaleAfter \in Nat
    BY AttentionAssumption
  <2> QED BY <1>1, <2>1, <2>2 DEF AttentionInv, ToldIsRemembered, Remembers
<1>4. ToldIsThere' /\ ToldApart' /\ \A p \in Processes : ChosenOf(inner[p])'
  BY <1>1 DEF AttentionInv, ToldIsThere, StillThere, ToldApart, ChosenOf
<1> QED BY <1>2, <1>3, <1>4 DEF AttentionInv

\* What only replaces one process's memory.
LEMMA MemoryKeeps ==
    ASSUME AttentionInv, NEW p \in Processes, NEW owned, HeldTypes(owned), ChosenOf(owned),
           inner' = [inner EXCEPT ![p] = owned], UNCHANGED <<attentionFile, signals, issued, now>>
    PROVE  AttentionInv'
<1>1. DOMAIN inner' = Processes /\ \A q \in Processes : HeldTypes(inner'[q]) /\ inner'[q] = (IF q = p THEN owned ELSE inner[q])
  BY DEF AttentionInv, AttentionTypes
<1>2. AttentionTypes'
  BY <1>1 DEF AttentionInv, AttentionTypes
<1>3. ToldIsThere' /\ ToldIsRemembered' /\ ToldApart'
  BY DEF AttentionInv, ToldIsThere, StillThere, ToldIsRemembered, ToldApart, Remembers
<1>4. \A q \in Processes : ChosenOf(inner[q])'
  BY <1>1 DEF AttentionInv, ChosenOf
<1> QED BY <1>2, <1>3, <1>4 DEF AttentionInv

LEMMA OpenKeeps == ASSUME AttentionInv, NEW p \in Processes, Open(p) PROVE AttentionInv'
<1>1. HeldTypes(Opened(now)) /\ Opened(now).store = attentionFile /\ Opened(now).alerts = << >>
  BY DEF AttentionInv, AttentionTypes, Opened, HeldTypes
<1>2. attentionFile.revision \in Nat
  BY DEF AttentionInv, AttentionTypes, Stores
<1>3. ChosenOf(Opened(now))
  BY <1>1, <1>2 DEF ChosenOf
<1> QED BY <1>1, <1>3, MemoryKeeps DEF Open

LEMMA ReadSnapshotKeeps == ASSUME AttentionInv, NEW p \in Processes, ReadSnapshot(p) PROVE AttentionInv'
<1> DEFINE old == inner[p]
           owned == IF attentionFile.revision # old.store.revision
                   THEN [old EXCEPT !.store = attentionFile, !.armed = now, !.alerts = << >>]
                   ELSE [old EXCEPT !.store = attentionFile]
<1>1. HeldTypes(old) /\ attentionFile \in Stores /\ now \in Nat /\ attentionFile.revision \in Nat /\ ChosenOf(old)
  BY DEF AttentionInv, AttentionTypes, Stores
<1>2. inner' = [inner EXCEPT ![p] = owned] /\ UNCHANGED <<attentionFile, signals, issued, now>>
  BY DEF ReadSnapshot
<1>3. HeldTypes(owned)
  BY <1>1 DEF HeldTypes
<1>4. owned.store = attentionFile
      /\ owned.alerts = IF attentionFile.revision # old.store.revision THEN << >> ELSE old.alerts
  BY <1>1 DEF HeldTypes
<1> HIDE DEF owned
<1>5. ChosenOf(owned)
  BY <1>1, <1>4 DEF ChosenOf
<1> QED BY <1>2, <1>3, <1>5, MemoryKeeps

LEMMA SuppressKeeps == ASSUME AttentionInv, NEW p \in Processes, NEW t, Suppress(p, t) PROVE AttentionInv'
<1> DEFINE old == inner[p]
           owned == [old EXCEPT !.available = FALSE, !.alerts = << >>]
<1>1. HeldTypes(old) /\ ChosenOf(old)
  BY DEF AttentionInv, AttentionTypes
<1>2. HeldTypes(owned) /\ owned.store = old.store /\ owned.alerts = << >>
  BY <1>1 DEF HeldTypes
<1>3. inner' = [inner EXCEPT ![p] = owned] /\ UNCHANGED <<attentionFile, signals, issued, now>>
  BY <1>1 DEF Suppress, AttentionInv, AttentionTypes, HeldTypes
<1> HIDE DEF owned
<1>4. ChosenOf(owned)
  BY <1>1, <1>2 DEF ChosenOf
<1> QED BY <1>2, <1>3, <1>4, MemoryKeeps

LEMMA SavePreferencesKeeps ==
    ASSUME AttentionInv, NEW p \in Processes, NEW categories \in SUBSET Categories, SavePreferences(p, categories)
    PROVE  AttentionInv'
<1> DEFINE file == [attentionFile EXCEPT !.revision = @ + 1, !.categories = categories]
           owned == [store |-> file, available |-> TRUE, armed |-> now, alerts |-> << >>]
<1>1. attentionFile \in Stores /\ attentionFile.revision \in Nat /\ now \in Nat
  BY DEF AttentionInv, AttentionTypes, Stores
<1>2. attentionFile' = file /\ inner' = [inner EXCEPT ![p] = owned] /\ UNCHANGED <<signals, issued, now>>
  BY DEF SavePreferences
<1>3. /\ file \in Stores /\ file.revision = attentionFile.revision + 1 /\ file.categories = categories
      /\ file.marks = attentionFile.marks /\ file.last = attentionFile.last
  <2> DEFINE next == attentionFile.revision + 1
  <2>1. next \in Nat /\ file = [attentionFile EXCEPT !.revision = next, !.categories = categories]
    BY <1>1
  <2> HIDE DEF next
  <2>2. [attentionFile EXCEPT !.revision = next, !.categories = categories] \in Stores
    BY <1>1, <2>1 DEF Stores
  <2>3. attentionFile.revision + 1 = next
    BY DEF next
  <2> HIDE DEF file
  <2> QED BY <1>1, <2>1, <2>2, <2>3 DEF Stores
<1> HIDE DEF file
<1>4. HeldTypes(owned) /\ owned.store = file /\ owned.alerts = << >>
  BY <1>1, <1>3 DEF HeldTypes
<1> HIDE DEF owned
<1>5. DOMAIN inner' = Processes /\ \A q \in Processes : HeldTypes(inner'[q]) /\ inner'[q] = (IF q = p THEN owned ELSE inner[q])
  BY <1>2, <1>4 DEF AttentionInv, AttentionTypes
<1>6. AttentionTypes'
  BY <1>2, <1>3, <1>5 DEF AttentionInv, AttentionTypes
<1>7. ToldIsThere' /\ ToldIsRemembered' /\ ToldApart'
  BY <1>2, <1>3 DEF AttentionInv, ToldIsThere, StillThere, ToldIsRemembered, ToldApart, Remembers
<1>8. ASSUME NEW q \in Processes PROVE ChosenOf(inner[q])'
  <2>1. CASE q = p
    BY <1>1, <1>2, <1>3, <1>4, <1>5, <2>1 DEF ChosenOf
  <2>2. CASE q # p
    <3>1. inner'[q] = inner[q] /\ ChosenOf(inner[q]) /\ inner[q].store.revision \in Nat
      BY <1>5, <2>2 DEF AttentionInv, AttentionTypes, HeldTypes, Stores
    <3> QED BY <1>1, <1>2, <1>3, <3>1 DEF ChosenOf
  <2> QED BY <2>1, <2>2
<1> QED BY <1>6, <1>7, <1>8 DEF AttentionInv

LEMMA PublishKeeps ==
    ASSUME AttentionInv, NEW p \in Processes, NEW t \in Threads, Publish(p, t) PROVE AttentionInv'
<1> DEFINE store == Forget(attentionFile)
           F == Fresh(p, t, store)
           owned == inner[p]
<1>1. /\ attentionFile \in Stores /\ now \in Nat /\ HeldTypes(owned) /\ ChosenOf(owned)
      /\ IsFiniteSet(signals) /\ signals \subseteq SignalRecords /\ DOMAIN inner = Processes
      /\ issued \in Seq(AlertRecords) /\ \A i \in DOMAIN issued : StillThere(issued[i].signal)
      /\ (attentionFile.last # None => attentionFile.last <= now)
  BY DEF AttentionInv, AttentionTypes, ToldIsThere
<1>2. /\ store \in Stores /\ store.revision = attentionFile.revision /\ store.categories = attentionFile.categories
      /\ store.seen = attentionFile.seen /\ store.last = attentionFile.last
  BY <1>1, ForgetForgets
<1>3. \A i \in DOMAIN issued : Remembers(store.marks, issued[i].signal)
  <2>1. \A i \in DOMAIN issued : issued[i].signal \in SignalRecords /\ Remembers(attentionFile.marks, issued[i].signal)
    <3>1. ASSUME NEW i \in DOMAIN issued PROVE issued[i].signal \in SignalRecords
      <4>1. issued[i] \in AlertRecords
        BY <1>1
      <4> QED BY <4>1 DEF AlertRecords
    <3> QED BY <3>1 DEF AttentionInv, ToldIsRemembered
  <2> QED BY <1>1, <2>1, ForgetRemembers
<1> DEFINE after(batch) == Consumed(store, t, batch)
           told(batch) == IF Tells(store, batch) THEN <<[signal |-> batch[1], at |-> now]>> ELSE << >>
<1>4. PICK batch \in Batches(F) :
        /\ attentionFile' = IF after(batch).seen # store.seen THEN after(batch) ELSE attentionFile
        /\ inner' = [inner EXCEPT ![p].store = after(batch), ![p].alerts = KeepNewest(@ \o told(batch), MaxAlerts)]
        /\ issued' = issued \o told(batch)
  BY DEF Publish
<1>5. attentionFile.revision = owned.store.revision /\ UNCHANGED <<signals, now>>
  BY DEF Publish
<1>6. /\ F \in SUBSET signals /\ IsFiniteSet(F) /\ F \subseteq SignalRecords
      /\ \A g \in F : /\ g.session = t /\ ~Contains(store.seen, Digest(g)) /\ now - g.at <= StaleAfter
                      /\ g.category \in owned.store.categories
                      /\ store.marks[t] = None \/ ~(g.at <= store.marks[t])
  <2>1. \A g \in F : g \in signals /\ g \in CandidateSignals(p, t) /\ ~Known(store, store.marks[t], g)
    BY DEF Fresh, CandidateSignals
  <2> QED BY <1>1, <2>1, FS_Subset DEF CandidateSignals, Known
<1> DEFINE next == after(batch)
           news == told(batch)
           alert == [signal |-> batch[1], at |-> now]
           alerts == KeepNewest(owned.alerts \o news, MaxAlerts)
<1> HIDE DEF store, F, owned
<1>7. batch = << >> => next = store /\ news = << >> /\ attentionFile' = attentionFile
  <2>1. batch = << >> => next = store /\ news = << >>
    BY DEF Consumed, Tells
  <2> QED BY <1>4, <2>1
<1>8. batch # << >> =>
        /\ next \in Stores /\ next.revision = store.revision /\ next.categories = store.categories
        /\ next.marks = [store.marks EXCEPT ![t] = Last(batch).at]
        /\ next.last = (IF Tells(store, batch) THEN now ELSE store.last)
        /\ attentionFile' = next
  <2> SUFFICES ASSUME batch # << >>
               PROVE  /\ next \in Stores /\ next.revision = store.revision /\ next.categories = store.categories
                      /\ next.marks = [store.marks EXCEPT ![t] = Last(batch).at]
                      /\ next.last = (IF Tells(store, batch) THEN now ELSE store.last)
                      /\ next.seen # store.seen
    BY <1>4
  <2>1. AttentionTypes
    BY DEF AttentionInv
  <2> QED BY <1>2, <1>6, <2>1, ConsumedStore
<1>9. batch # << >> => batch[1] \in F /\ Last(batch) \in F /\ batch[1].at <= Last(batch).at
  BY <1>6, BatchIsOrdered
<1>10. news = IF Tells(store, batch) THEN <<alert>> ELSE << >>
  OBVIOUS
<1>11. Tells(store, batch) <=> batch # << >> /\ (store.last = None \/ now - store.last >= AlertGap)
  BY DEF Tells
<1> HIDE DEF next, news
<1>12. /\ next \in Stores /\ next.revision = attentionFile.revision /\ next.categories = attentionFile.categories
       /\ attentionFile' \in Stores /\ attentionFile'.revision = attentionFile.revision
       /\ attentionFile'.categories = attentionFile.categories
  BY <1>1, <1>2, <1>7, <1>8
<1>13. (alert \in AlertRecords /\ alert.signal \in F /\ alert.at = now) \/ news = << >>
  <2>1. CASE Tells(store, batch)
    <3>1. batch[1] \in F /\ batch[1] \in SignalRecords
      BY <1>6, <1>9, <1>11, <2>1
    <3> QED BY <1>1, <3>1 DEF AlertRecords
  <2> QED BY <1>10, <2>1
<1> HIDE DEF alert
<1>14. news \in Seq(AlertRecords) /\ (news = << >> \/ news = <<alert>>)
  BY <1>10, <1>13
<1>15. /\ alerts \in Seq(AlertRecords)
       /\ \A i \in DOMAIN alerts : alerts[i].signal.category \in owned.store.categories
  <2> DEFINE all == owned.alerts \o news
  <2>1. owned.alerts \in Seq(AlertRecords) /\ all \in Seq(AlertRecords) /\ MaxAlerts \in Nat
    BY <1>1, <1>14, AttentionAssumption DEF HeldTypes
  <2>2. \A i \in DOMAIN all : all[i].signal.category \in owned.store.categories
    <3>1. \A i \in DOMAIN owned.alerts : owned.alerts[i].signal.category \in owned.store.categories
      BY <1>1 DEF ChosenOf
    <3>2. news # << >> => alert.signal.category \in owned.store.categories
      BY <1>6, <1>13
    <3>3. CASE news = << >>
      BY <2>1, <3>1, <3>3
    <3>4. CASE news = <<alert>> /\ news # << >>
      <4>1. \A i \in DOMAIN all : (i \in DOMAIN owned.alerts /\ all[i] = owned.alerts[i]) \/ all[i] = alert
        BY <2>1, <3>4
      <4> QED BY <3>1, <3>2, <3>4, <4>1
    <3> QED BY <1>14, <3>3, <3>4
  <2> HIDE DEF all
  <2>3. alerts = KeepNewest(all, MaxAlerts)
    BY DEF all
  <2>4. alerts \in Seq(AlertRecords) /\ \A i \in DOMAIN alerts : \E j \in DOMAIN all : alerts[i] = all[j]
    BY <2>1, <2>3, KeptAreNewest
  <2> QED BY <2>2, <2>4
<1> HIDE DEF alerts
<1>16. /\ DOMAIN inner' = Processes /\ \A q \in Processes \ {p} : inner'[q] = inner[q]
       /\ DOMAIN inner'[p] = DOMAIN owned /\ inner'[p].store = next /\ inner'[p].alerts = alerts
       /\ inner'[p].armed = owned.armed
  <2>1. inner' = [inner EXCEPT ![p] = [owned EXCEPT !.store = next, !.alerts = alerts]]
    BY <1>4 DEF owned, next, news, alerts
  <2>2. "store" \in DOMAIN owned /\ "alerts" \in DOMAIN owned /\ "armed" \in DOMAIN owned
    BY <1>1 DEF HeldTypes
  <2> QED BY <1>1, <2>1, <2>2
<1>17. \A q \in Processes : HeldTypes(inner'[q])
  <2>1. HeldTypes(inner'[p])
    BY <1>1, <1>12, <1>15, <1>16 DEF HeldTypes
  <2> QED BY <1>16, <2>1 DEF AttentionInv, AttentionTypes
<1>18. \A q \in Processes : ChosenOf(inner[q])'
  <2>1. ChosenOf(inner[p])'
    <3>1. owned.store.categories = attentionFile.categories
      BY <1>1, <1>5 DEF ChosenOf
    <3>2. attentionFile.revision \in Nat
      BY <1>1 DEF Stores
    <3> QED BY <1>12, <1>15, <1>16, <3>1, <3>2 DEF ChosenOf
  <2>2. ASSUME NEW q \in Processes \ {p} PROVE ChosenOf(inner[q])'
    BY <1>12, <1>16 DEF AttentionInv, ChosenOf
  <2> QED BY <2>1, <2>2
<1>19. /\ issued' \in Seq(AlertRecords)
       /\ \A i \in DOMAIN issued' :
            \/ i \in DOMAIN issued /\ issued'[i] = issued[i]
            \/ i \notin DOMAIN issued /\ i = Len(issued) + 1 /\ issued'[i] = alert /\ Tells(store, batch)
  <2>1. issued' = issued \o news
    BY <1>4 DEF news
  <2>2. CASE news = << >>
    BY <1>1, <2>1, <2>2
  <2>3. CASE news = <<alert>> /\ Tells(store, batch)
    BY <1>1, <1>14, <2>1, <2>3
  <2> QED BY <1>10, <2>2, <2>3
<1>20. attentionFile'.last # None => attentionFile'.last <= now
  BY <1>1, <1>2, <1>7, <1>8
<1>21. AttentionTypes'
  BY <1>5, <1>12, <1>16, <1>17, <1>19, <1>20 DEF AttentionInv, AttentionTypes
<1>22. Tells(store, batch) => /\ alert.signal = batch[1] /\ alert.signal \in F /\ alert.at = now
                              /\ batch # << >>
  BY <1>9, <1>11 DEF alert
<1>23. ASSUME batch # << >>, NEW g \in SignalRecords, Remembers(store.marks, g) PROVE Remembers(attentionFile'.marks, g)
  <2>1. Last(batch).at \in Nat /\ (store.marks[t] = None \/ ~(Last(batch).at <= store.marks[t]))
    BY <1>6, <1>9, <1>23 DEF SignalRecords
  <2>2. attentionFile'.marks = [store.marks EXCEPT ![t] = Last(batch).at] /\ store.marks \in [Threads -> Nat \cup {None}]
    BY <1>2, <1>8, <1>23 DEF Stores
  <2>3. Last(batch).at # None
    BY <2>1, AttentionAssumption
  <2>4. g.session \in Threads /\ g.at \in Nat
    BY DEF SignalRecords
  <2>5. CASE g.session = t
    <3>1. attentionFile'.marks[t] = Last(batch).at /\ (store.marks[t] # None => store.marks[t] \in Nat)
      BY <2>2
    <3> QED BY <1>23, <2>1, <2>3, <2>4, <2>5, <3>1 DEF Remembers
  <2>6. CASE g.session # t
    BY <1>23, <2>2, <2>4, <2>6 DEF Remembers
  <2> QED BY <2>5, <2>6
<1>24. ToldIsRemembered'
  <2>1. CASE batch = << >>
    <3>1. issued' = issued /\ attentionFile' = attentionFile
      BY <1>1, <1>4, <1>7, <2>1 DEF news
    <3> QED BY <1>5, <3>1 DEF AttentionInv, ToldIsRemembered, Remembers
  <2>2. CASE batch # << >>
    <3>1. attentionFile'.last = (IF Tells(store, batch) THEN now ELSE store.last) /\ now # None
      BY <1>1, <1>8, <2>2, AttentionAssumption
    <3>2. ASSUME NEW i \in DOMAIN issued', i \in DOMAIN issued, issued'[i] = issued[i]
          PROVE  /\ attentionFile'.last # None /\ issued'[i].at <= attentionFile'.last
                 /\ Remembers(attentionFile'.marks, issued'[i].signal)
      <4>1. /\ attentionFile.last # None /\ issued[i].at <= attentionFile.last
            /\ Remembers(store.marks, issued[i].signal) /\ issued[i] \in AlertRecords
        BY <1>1, <1>3, <3>2 DEF AttentionInv, ToldIsRemembered
      <4>2. issued[i].signal \in SignalRecords /\ issued[i].at \in Nat /\ attentionFile.last \in Nat
        BY <1>1, <4>1 DEF AlertRecords, Stores
      <4>3. Remembers(attentionFile'.marks, issued[i].signal)
        BY <1>23, <2>2, <4>1, <4>2
      <4> QED BY <1>1, <1>2, <3>1, <3>2, <4>1, <4>2, <4>3
    <3>3. ASSUME NEW i \in DOMAIN issued', issued'[i] = alert, Tells(store, batch)
          PROVE  /\ attentionFile'.last # None /\ issued'[i].at <= attentionFile'.last
                 /\ Remembers(attentionFile'.marks, issued'[i].signal)
      <4>1. alert.signal.session = t /\ alert.signal.at <= Last(batch).at /\ alert.at = now
        BY <1>6, <1>9, <1>22, <3>3
      <4>2. attentionFile'.marks[t] = Last(batch).at /\ Last(batch).at # None
        <5>1. Last(batch).at \in Nat
          BY <1>6, <1>9, <2>2 DEF SignalRecords
        <5>2. attentionFile'.marks = [store.marks EXCEPT ![t] = Last(batch).at]
              /\ store.marks \in [Threads -> Nat \cup {None}]
          BY <1>2, <1>8, <2>2 DEF Stores
        <5> QED BY <5>1, <5>2, AttentionAssumption
      <4>3. Remembers(attentionFile'.marks, alert.signal)
        BY <4>1, <4>2 DEF Remembers
      <4> QED BY <1>1, <3>1, <3>3, <4>1, <4>3
    <3> QED BY <1>5, <1>19, <3>2, <3>3 DEF ToldIsRemembered, Remembers
  <2> QED BY <2>1, <2>2
<1>25. ToldIsThere'
  <2>1. \A g \in F : StillThere(g)
    BY <1>6 DEF StillThere, SameEvent
  <2>2. \A i \in DOMAIN issued' : StillThere(issued'[i].signal)
    BY <1>1, <1>19, <1>22, <2>1
  <2> QED BY <1>5, <2>2 DEF ToldIsThere, StillThere
<1>26. ToldApart'
  <2> SUFFICES ASSUME NEW i \in DOMAIN issued', NEW j \in DOMAIN issued', i < j
               PROVE  /\ SameEvent(issued'[i].signal, issued'[j].signal) =>
                           issued'[j].signal.undone /\ issued'[i].signal.at < issued'[j].signal.at
                      /\ issued'[j].at - issued'[i].at >= AlertGap
    BY DEF ToldApart, SameEvent
  <2>1. DOMAIN issued = 1..Len(issued) /\ Len(issued) \in Nat /\ DOMAIN issued' = 1..Len(issued')
    BY <1>1, <1>19
  <2>2. i \in DOMAIN issued /\ issued'[i] = issued[i]
    BY <1>19, <2>1
  <2>3. CASE j \in DOMAIN issued /\ issued'[j] = issued[j]
    BY <2>2, <2>3 DEF AttentionInv, ToldApart
  <2>4. CASE issued'[j] = alert /\ Tells(store, batch)
    <3> DEFINE g == issued[i].signal
               h == alert.signal
    <3>1. StillThere(g) /\ h \in signals /\ h \in F /\ g \in SignalRecords /\ h \in SignalRecords /\ h.session = t
      <4>1. issued[i] \in AlertRecords
        BY <1>1, <2>2
      <4>2. g \in SignalRecords
        BY <4>1 DEF AlertRecords
      <4>3. StillThere(g)
        BY <1>1, <2>2
      <4> QED BY <1>6, <1>22, <2>4, <4>2, <4>3
    <3>2. Remembers(store.marks, g)
      BY <1>3, <2>2
    <3>3. /\ now - h.at <= StaleAfter /\ (store.marks[t] = None \/ ~(h.at <= store.marks[t]))
      BY <1>6, <3>1
    <3>4. g.session = h.session => g.at < h.at
      <4>1. store.marks[t] # None => store.marks[t] \in Nat
        BY <1>2 DEF Stores
      <4>2. g.at \in Nat /\ h.at \in Nat /\ h.session = t /\ now \in Nat /\ StaleAfter \in Nat
        BY <1>1, <3>1, AttentionAssumption DEF SignalRecords
      <4> HIDE DEF g, h
      <4> QED BY <3>2, <3>3, <4>1, <4>2 DEF Remembers
    <3>5. SameEvent(g, h) => g.at < h.at
      BY <3>4 DEF SameEvent
    <3>6. SameEvent(g, h) => h.undone
      <4>1. SUFFICES ASSUME SameEvent(g, h) PROVE h.undone
        OBVIOUS
      <4>2. PICK k \in signals : SameEvent(g, k) /\ (k = g \/ k.undone)
        BY <3>1 DEF StillThere
      <4>3. k = h
        BY <3>1, <4>1, <4>2 DEF SameEvent, AttentionInv, AttentionTypes
      <4>4. g # h
        BY <3>1, <3>5, <4>1 DEF SignalRecords
      <4> QED BY <4>2, <4>3, <4>4
    <3>7. store.last # None /\ issued[i].at <= store.last /\ now - store.last >= AlertGap
      BY <1>2, <1>11, <2>2, <2>4 DEF AttentionInv, ToldIsRemembered
    <3>8. issued[i].at \in Nat /\ store.last \in Nat /\ AlertGap \in Nat /\ alert.at = now
      <4>1. issued[i] \in AlertRecords
        BY <1>1, <2>2
      <4>2. issued[i].at \in Nat
        BY <4>1 DEF AlertRecords
      <4>3. store.last \in Nat
        BY <1>2, <3>7 DEF Stores
      <4>4. alert.at = now
        BY <1>22, <2>4
      <4> QED BY <4>2, <4>3, <4>4, AttentionAssumption
    <3>9. alert.at - issued[i].at >= AlertGap
      BY <1>1, <3>7, <3>8
    <3> QED BY <2>2, <2>4, <3>5, <3>6, <3>9
  <2> QED BY <1>19, <2>3, <2>4
<1> QED BY <1>18, <1>21, <1>24, <1>26, <1>25 DEF AttentionInv

LEMMA AttentionStep == ASSUME AttentionInv, [AttentionNext]_attentionVars PROVE AttentionInv'
<1>1. CASE SignalHappens
  BY <1>1, SignalHappensKeeps
<1>2. CASE Passes
  BY <1>2, PassesKeeps
<1>3. ASSUME NEW p \in Processes, Open(p) PROVE AttentionInv'
  BY <1>3, OpenKeeps
<1>4. ASSUME NEW p \in Processes, ReadSnapshot(p) PROVE AttentionInv'
  BY <1>4, ReadSnapshotKeeps
<1>5. ASSUME NEW p \in Processes, NEW cs \in {{}, Categories}, SavePreferences(p, cs) PROVE AttentionInv'
  <2>1. cs \in SUBSET Categories
    OBVIOUS
  <2> QED BY <1>5, <2>1, SavePreferencesKeeps
<1>6. ASSUME NEW p \in Processes, NEW t \in Threads, Observe(p, t) PROVE AttentionInv'
  BY <1>6, PublishKeeps, SuppressKeeps DEF Observe
<1>7. CASE LineHappens \/ TurnRolledBack
  BY <1>7, LineHappensKeeps, TurnRolledBackKeeps
<1>8. CASE UNCHANGED attentionVars
  <2>1. UNCHANGED <<attentionFile, inner, signals, issued, now>>
    BY <1>8 DEF attentionVars
  <2>2. AttentionTypes'
    BY <2>1 DEF AttentionInv, AttentionTypes
  <2>3. ToldIsThere' /\ ToldIsRemembered' /\ ToldApart'
    BY <2>1 DEF AttentionInv, ToldIsThere, StillThere, ToldIsRemembered, ToldApart, Remembers
  <2>4. \A p \in Processes : ChosenOf(inner[p])'
    BY <2>1 DEF AttentionInv, ChosenOf
  <2> QED BY <2>2, <2>3, <2>4 DEF AttentionInv
<1> QED BY <1>1, <1>2, <1>3, <1>4, <1>5, <1>6, <1>8, <1>7 DEF AttentionNext

\* An event is told once, except that a rolled-back turn may be told again after
\* its session has recorded something later, and two alerts are never closer than
\* AlertGap, in whatever process (attention.rs, signals and publish): for any
\* processes and sessions, any length of the log of what was seen, restarts, late
\* records and failures.
THEOREM AlertedOnceHolds == AttentionSpec => []AlertedOnce
<1>1. AttentionInit => AttentionInv
  BY AttentionInitial
<1>2. AttentionInv /\ [AttentionNext]_attentionVars => AttentionInv'
  BY AttentionStep
<1>3. AttentionInv => AlertedOnce
  <2>1. ASSUME AttentionInv, NEW p \in Processes, NEW i \in ShownAlerts(p)
        PROVE  inner[p].alerts[i].signal.category \in inner[p].store.categories
    <3>1. i \in DOMAIN inner[p].alerts
      BY <2>1 DEF ShownAlerts
    <3> QED BY <2>1, <3>1 DEF AttentionInv, ChosenOf
  <2> QED BY <2>1 DEF AttentionInv, ToldApart, AlertedOnce
<1> QED BY <1>1, <1>2, <1>3, PTL DEF AttentionSpec
=============================================================================
