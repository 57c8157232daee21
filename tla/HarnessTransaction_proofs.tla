---------------------- MODULE HarnessTransaction_proofs ----------------------
(***************************************************************************)
(* Proofs, for any number of files, calls, edits, errors and crashes, that *)
(* the transaction of module HarnessTransaction loses no text of a user,   *)
(* undoes a failed setup and leaves the hooks of the saved setting.        *)
(***************************************************************************)
EXTENDS HarnessTransaction, SequenceTheorems, TLAPS

Possible == Contents \cup {Absent}
Plans == [original : Possible, updated : Possible]
Transactions ==
    [pc : Steps, set : BOOLEAN, want : BOOLEAN, plan : [Paths -> Plans], todo : SUBSET Paths,
     applied : Seq(Paths), path : Paths]
Outcomes ==
    [outcome : {"none", "ok", "error", "crash"}, before : [Paths -> Possible],
     touched : SUBSET Paths, unrestored : SUBSET Paths]

Types ==
    /\ content \in Seq(Contents)
    /\ active \in [Paths -> Inodes \cup {NoFile}]
    /\ spare \in [Paths -> Inodes \cup {NoFile}]
    /\ detached \in Inodes \cup {NoFile}
    /\ strays \subseteq Inodes
    /\ saved \in BOOLEAN
    /\ tx \in Transactions
    /\ last \in Outcomes
    /\ kept \subseteq 1..edits
    /\ edits \in 0..MaxEdits

\* No inode has two names.
Apart ==
    /\ \A p, q \in Paths :
          /\ active[p] # NoFile => /\ active[p] # spare[q]
                                   /\ p # q => active[p] # active[q]
          /\ spare[p] # NoFile /\ p # q => spare[p] # spare[q]
    /\ \A p \in Paths :
          /\ active[p] # NoFile => active[p] # detached /\ active[p] \notin strays
          /\ spare[p] # NoFile => spare[p] # detached /\ spare[p] \notin strays
    /\ detached # NoFile => detached \notin strays

-----------------------------------------------------------------------------
(* Where the transaction is.                                               *)

Forward == tx.pc \in {"check_all", "next", "stage", "compare", "exchange", "reconcile",
                      "install", "verify", "save"}
Committing == tx.pc \in {"commit", "detach_backup", "check_backup", "drop_backup"}
Between == tx.pc \in {"idle", "check_all", "next", "rollback", "save", "commit"}
Applied == {tx.applied[n] : n \in 1..Len(tx.applied)}
InHand == IF Between THEN {} ELSE {tx.path}

\* A file is to be done, in hand, or done, and has its private names only from
\* when it is staged until it is let go.
Shape ==
    /\ tx.pc = "idle" => tx = Idle /\ \A p \in Paths : spare[p] = NoFile
    /\ detached # NoFile
       <=> tx.pc \in {"check_new", "drop_new", "put_back", "check_backup", "drop_backup"}
    /\ \A m, n \in 1..Len(tx.applied) : tx.applied[m] = tx.applied[n] => m = n
    /\ tx.todo \cap (Applied \cup InHand) = {} /\ InHand \cap Applied = {}
    /\ \A p \in tx.todo \cup Applied \cup InHand : tx.plan[p] # NoPlan
    /\ \A p \in tx.todo : spare[p] = NoFile
    /\ tx.pc = "stage" => spare[tx.path] = NoFile
    /\ tx.pc = "check_all" => Applied = {}
    /\ Forward => \A p \in Paths : tx.plan[p] # NoPlan => p \in tx.todo \cup Applied \cup InHand
    /\ tx.pc = "save" \/ Committing => tx.todo = {}
    /\ Forward \/ Committing => last.unrestored = {}
    /\ tx.pc \in {"exchange", "reconcile", "verify", "swap_back", "check_displaced",
                  "drop_displaced", "swap_again", "detach_backup", "check_backup", "drop_backup"}
       => tx.plan[tx.path].original # Absent
    /\ tx.pc \in {"install", "detach_new", "check_new", "drop_new", "put_back"}
       => tx.plan[tx.path].original = Absent
    /\ tx.pc \in {"reconcile", "verify", "swap_back", "check_displaced", "drop_displaced",
                  "swap_again", "detach_backup"}
       => spare[tx.path] # NoFile
    /\ \A p \in Applied : tx.plan[p].original # Absent => spare[p] # NoFile

\* A plan goes from what was there to the wanted hook and keeps the text.
PlanSound ==
    tx.pc # "idle" =>
        \A p \in Paths :
            \/ tx.plan[p] = NoPlan /\ last.before[p].hook = tx.want
            \/ /\ tx.plan[p] # NoPlan
               /\ tx.plan[p].original = last.before[p]
               /\ tx.plan[p].updated \in Contents /\ tx.plan[p].updated.hook = tx.want
               /\ tx.plan[p].updated.text =
                     IF tx.plan[p].original = Absent THEN 0 ELSE tx.plan[p].original.text

Texted ==
    /\ \A i \in Inodes : content[i].text <= edits
    /\ \A p \in Paths : tx.plan[p].original.text <= edits

-----------------------------------------------------------------------------
(* Why no text is lost.                                                    *)

\* The text a plan carries over is, as long as it has to be kept, ...
Text(p) == tx.plan[p].original.text
InPlace(p) == Text(p) \in kept => Current(p).text = Text(p)
InSpare(p) == Text(p) \in kept => spare[p] # NoFile /\ content[spare[p]].text = Text(p)

\* ... in the file that stays whenever the other one is about to go.
Carried ==
    /\ tx.pc \in {"compare", "exchange", "install"}
       => spare[tx.path] # NoFile /\ content[spare[tx.path]] = tx.plan[tx.path].updated
    /\ tx.pc \in {"compare", "exchange", "reconcile", "verify", "check_displaced",
                  "drop_displaced", "detach_backup", "check_backup", "drop_backup"}
       => InPlace(tx.path)
    /\ tx.pc \in {"compare", "exchange", "reconcile", "verify", "swap_back"} => InSpare(tx.path)
    /\ \A p \in Applied : InPlace(p) /\ InSpare(p)

\* What is about to be removed has no other text that has to be kept.
DoomedIsSpent ==
    /\ tx.pc = "drop_displaced"
       => (content[spare[tx.path]].text \in kept => content[spare[tx.path]].text = Text(tx.path))
    /\ tx.pc = "drop_new" => content[detached].text \notin kept
    /\ tx.pc = "drop_backup"
       => (content[detached].text \in kept => content[detached].text = Text(tx.path))

-----------------------------------------------------------------------------
(* What has become of a file that nobody else touched.                     *)

AsBefore(p) == Current(p) = last.before[p]
Exchanged(p) ==
    /\ Current(p) = tx.plan[p].updated
    /\ tx.plan[p].original # Absent =>
          spare[p] # NoFile /\ content[spare[p]] = tx.plan[p].original

Follows(p) ==
    /\ ~Committing /\ tx.pc # "idle" =>
          /\ p \in Applied => Exchanged(p)
          /\ p \notin Applied \cup InHand => AsBefore(p)
    /\ Committing => Current(p) = IF tx.plan[p] = NoPlan THEN last.before[p] ELSE tx.plan[p].updated
    /\ p = tx.path =>
          /\ tx.pc \in {"stage", "compare", "exchange", "install", "check_displaced",
                        "drop_displaced", "check_new", "drop_new"} => AsBefore(p)
          /\ tx.pc = "reconcile" =>
                \/ AsBefore(p) /\ content[spare[p]] = tx.plan[p].updated
                \/ Exchanged(p)
          /\ tx.pc \in {"verify", "swap_back", "detach_new"} => Exchanged(p)
          /\ tx.pc = "check_displaced" => content[spare[p]] = tx.plan[p].updated
          /\ tx.pc = "check_new" => content[detached] = tx.plan[p].updated

Followed == \A p \in Paths \ (last.touched \cup last.unrestored) : Follows(p)

IInv ==
    /\ Types /\ Apart /\ Shape /\ PlanSound /\ Texted
    /\ UserTextSurvives /\ Carried /\ DoomedIsSpent
    /\ Followed /\ FailedSetupIsUndone
    /\ HooksFollowSetting
    /\ Committing => saved = tx.want

-----------------------------------------------------------------------------
(* The files and their names.                                              *)

LEMMA Appended ==
    ASSUME content \in Seq(Contents), NEW c \in Contents, content' = Append(content, c)
    PROVE  /\ content' \in Seq(Contents) /\ Len(content') = Len(content) + 1 /\ Len(content) \in Nat
           /\ content'[Len(content) + 1] = c
           /\ \A i \in Inodes : i \in Inodes' /\ content'[i] = content[i]
           /\ Inodes' = Inodes \cup {Len(content) + 1} /\ Len(content) + 1 \notin Inodes
  BY AppendProperties DEF Inodes

LEMMA Rewritten ==
    ASSUME content \in Seq(Contents), NEW c \in Contents, NEW i \in Inodes,
           content' = [content EXCEPT ![i] = c]
    PROVE  /\ content' \in Seq(Contents) /\ Inodes' = Inodes
           /\ \A j \in Inodes : content'[j] = IF j = i THEN c ELSE content[j]
<1>1. /\ content' \in Seq(Contents) /\ Len(content') = Len(content)
      /\ \A j \in 1..Len(content) : content'[j] = IF j = i THEN c ELSE content[j]
  BY ExceptSeq DEF Inodes
<1> QED BY <1>1 DEF Inodes

\* What the names are of.
LEMMA Holds ==
    ASSUME Types
    PROVE  /\ \A i \in Inodes : content[i] \in Contents /\ i \in Nat /\ i # NoFile
           /\ \A p \in Paths : Current(p) \in Possible
           /\ Contents \subseteq Possible /\ Absent \notin Contents
           /\ \A x \in Possible : x.text \in Int /\ x.hook \in BOOLEAN
<1>1. \A i \in Inodes : content[i] \in Contents /\ i \in Nat /\ i # NoFile
<2>1. \A i \in 1..Len(content) : content[i] \in Contents
    BY ElementOfSeq DEF Types
  <2>2. Len(content) \in Nat
    BY LenProperties DEF Types
  <2> QED BY <2>1, <2>2 DEF Inodes, NoFile
<1>2. Absent.text = -1 /\ Absent.hook = FALSE
  BY DEF Absent
<1>3. \A x \in Contents : x.text \in Nat /\ x.hook \in BOOLEAN
  BY BoundsAssumption DEF Contents, Texts
<1>4. Absent \notin Contents
  BY <1>2, <1>3
<1>5. \A p \in Paths : Current(p) \in Possible
  BY <1>1 DEF Types, Current, Possible
<1>6. \A x \in Possible : x \in Contents \/ x = Absent
  BY DEF Possible
<1>7. \A x \in Possible : x.text \in Int
  BY <1>2, <1>3, <1>6
<1>8. \A x \in Possible : x.hook \in BOOLEAN
  BY <1>2, <1>3, <1>6
<1>9. Contents \subseteq Possible
  BY DEF Possible
<1> QED BY <1>1, <1>4, <1>5, <1>7, <1>8, <1>9

\* A step of the transaction that writes no file: what its names keep.
NamesTyped ==
    /\ active \in [Paths -> Inodes \cup {NoFile}]
    /\ spare \in [Paths -> Inodes \cup {NoFile}]
    /\ detached \in Inodes \cup {NoFile}
    /\ strays \subseteq Inodes

LEMMA SwapMoves ==
    ASSUME NamesTyped, Apart, UNCHANGED content, NEW p \in Paths, Swap(p)
    PROVE  /\ NamesTyped' /\ Apart' /\ Named' = Named
           /\ UNCHANGED <<detached, strays>>
           /\ \A q \in Paths : /\ active'[q] = IF q = p THEN spare[p] ELSE active[q]
                               /\ spare'[q] = IF q = p THEN active[p] ELSE spare[q]
<1>1. /\ UNCHANGED <<detached, strays>>
      /\ \A q \in Paths : /\ active'[q] = IF q = p THEN spare[p] ELSE active[q]
                          /\ spare'[q] = IF q = p THEN active[p] ELSE spare[q]
      /\ active' \in [Paths -> Inodes \cup {NoFile}]
      /\ spare' \in [Paths -> Inodes \cup {NoFile}]
  BY DEF Swap, NamesTyped
<1>2. NamesTyped'
  BY <1>1 DEF NamesTyped, Inodes
<1>3. Apart'
  BY <1>1 DEF Apart
<1>4. {active'[q] : q \in Paths} \cup {spare'[q] : q \in Paths}
      = {active[q] : q \in Paths} \cup {spare[q] : q \in Paths}
  BY <1>1
<1> QED BY <1>1, <1>2, <1>3, <1>4 DEF Named

LEMMA DropMoves ==
    ASSUME NamesTyped, Apart, UNCHANGED content, NEW p \in Paths, DropSpare(p)
    PROVE  /\ NamesTyped' /\ Apart' /\ Named \subseteq Named' \cup {spare[p]}
           /\ UNCHANGED <<active, detached, strays>>
           /\ \A q \in Paths : spare'[q] = IF q = p THEN NoFile ELSE spare[q]
<1>1. /\ UNCHANGED <<active, detached, strays>>
      /\ \A q \in Paths : spare'[q] = IF q = p THEN NoFile ELSE spare[q]
      /\ spare' \in [Paths -> Inodes \cup {NoFile}]
  BY DEF DropSpare, NamesTyped
<1>2. NamesTyped'
  BY <1>1 DEF NamesTyped, Inodes
<1>3. Apart'
  BY <1>1 DEF Apart
<1>4. {spare[q] : q \in Paths} \subseteq {spare'[q] : q \in Paths} \cup {spare[p]}
  BY <1>1
<1> QED BY <1>1, <1>2, <1>3, <1>4 DEF Named

LEMMA InstallMoves ==
    ASSUME NamesTyped, Apart, UNCHANGED <<content, detached, strays>>, NEW p \in Paths,
           active[p] = NoFile,
           active' = [active EXCEPT ![p] = spare[p]], spare' = [spare EXCEPT ![p] = NoFile]
    PROVE  /\ NamesTyped' /\ Apart' /\ Named \subseteq Named'
           /\ \A q \in Paths : /\ active'[q] = IF q = p THEN spare[p] ELSE active[q]
                               /\ spare'[q] = IF q = p THEN NoFile ELSE spare[q]
<1>1. /\ \A q \in Paths : /\ active'[q] = IF q = p THEN spare[p] ELSE active[q]
                          /\ spare'[q] = IF q = p THEN NoFile ELSE spare[q]
      /\ active' \in [Paths -> Inodes \cup {NoFile}]
      /\ spare' \in [Paths -> Inodes \cup {NoFile}]
  BY DEF NamesTyped
<1>2. NamesTyped'
  BY <1>1 DEF NamesTyped, Inodes
<1>3. Apart'
  BY <1>1 DEF Apart
<1>4. \A i \in Named : i \in Named'
  BY <1>1 DEF Named
<1> QED BY <1>1, <1>2, <1>3, <1>4

\* A name moved to the detached one.
LEMMA DetachMoves ==
    ASSUME NamesTyped, Apart, UNCHANGED <<content, strays>>, NEW p \in Paths, detached = NoFile,
           \/ /\ detached' = active[p] /\ active' = [active EXCEPT ![p] = NoFile]
              /\ UNCHANGED spare
           \/ /\ detached' = spare[p] /\ spare' = [spare EXCEPT ![p] = NoFile]
              /\ UNCHANGED active
    PROVE  NamesTyped' /\ Apart' /\ Named \subseteq Named'
<1>1. CASE /\ detached' = active[p] /\ active' = [active EXCEPT ![p] = NoFile]
           /\ UNCHANGED spare
  <2>1. \A q \in Paths : active'[q] = IF q = p THEN NoFile ELSE active[q]
    BY <1>1 DEF NamesTyped
  <2>2. NamesTyped'
    BY <1>1 DEF NamesTyped, Inodes
  <2>3. Apart'
    BY <1>1, <2>1 DEF Apart
  <2>4. \A i \in Named : i \in Named'
    BY <1>1, <2>1 DEF Named
  <2> QED BY <2>2, <2>3, <2>4
<1>2. CASE /\ detached' = spare[p] /\ spare' = [spare EXCEPT ![p] = NoFile]
           /\ UNCHANGED active
  <2>1. \A q \in Paths : spare'[q] = IF q = p THEN NoFile ELSE spare[q]
    BY <1>2 DEF NamesTyped
  <2>2. NamesTyped'
    BY <1>2 DEF NamesTyped, Inodes
  <2>3. Apart'
    BY <1>2, <2>1 DEF Apart
  <2>4. \A i \in Named : i \in Named'
    BY <1>2, <2>1 DEF Named
  <2> QED BY <2>2, <2>3, <2>4
<1> QED BY <1>1, <1>2

\* The detached file put back, kept under a recovery name, or removed.
LEMMA DetachedGoes ==
    ASSUME NamesTyped, Apart, UNCHANGED <<content, spare>>, NEW p \in Paths,
           detached # NoFile, detached' = NoFile,
           \/ active[p] = NoFile /\ active' = [active EXCEPT ![p] = detached] /\ UNCHANGED strays
           \/ UNCHANGED active /\ strays' = strays \cup {detached}
           \/ UNCHANGED <<active, strays>>
    PROVE  /\ NamesTyped' /\ Apart' /\ Named \subseteq Named' \cup {detached}
           /\ (active' # active \/ strays' # strays) => Named \subseteq Named'
<1>1. CASE /\ active[p] = NoFile
           /\ active' = [active EXCEPT ![p] = detached]
           /\ UNCHANGED strays
  <2>1. \A q \in Paths : active'[q] = IF q = p THEN detached ELSE active[q]
    BY <1>1 DEF NamesTyped
  <2>2. NamesTyped'
    BY <1>1 DEF NamesTyped, Inodes
  <2>3. Apart'
    BY <1>1, <2>1 DEF Apart
  <2>4. \A i \in Named : i \in Named'
    BY <1>1, <2>1 DEF Named
  <2> QED BY <2>2, <2>3, <2>4
<1>2. CASE UNCHANGED active /\ strays' = strays \cup {detached}
  <2>2. NamesTyped'
    BY <1>2 DEF NamesTyped, Inodes
  <2>3. Apart'
    BY <1>2 DEF Apart
  <2>4. \A i \in Named : i \in Named'
    BY <1>2 DEF Named
  <2> QED BY <2>2, <2>3, <2>4
<1>3. CASE UNCHANGED <<active, strays>>
  <2>2. NamesTyped'
    BY <1>3 DEF NamesTyped, Inodes
  <2>3. Apart'
    BY <1>3 DEF Apart
  <2>4. \A i \in Named : i \in Named' \cup {detached}
    BY <1>3 DEF Named
  <2> QED BY <1>3, <2>2, <2>3, <2>4
<1> QED BY <1>1, <1>2, <1>3

LEMMA ReturnMoves ==
    ASSUME NamesTyped, Apart, UNCHANGED <<content, active>>, NEW o, Return(o)
    PROVE  NamesTyped' /\ Apart' /\ Named' = Named /\ \A p \in Paths : spare'[p] = NoFile
<1>1. /\ strays' = (strays \cup {spare[p] : p \in Paths} \cup {detached}) \ {NoFile}
      /\ spare' = [p \in Paths |-> NoFile] /\ detached' = NoFile
      /\ \A p \in Paths : spare'[p] = NoFile
  BY DEF Return
<1>2. NamesTyped'
  BY <1>1 DEF NamesTyped, Inodes
<1>3. Apart'
  BY <1>1 DEF Apart
<1>4. \A i : i \in Named' <=> i \in Named
  BY <1>1 DEF Named
<1> QED BY <1>1, <1>2, <1>3, <1>4

-----------------------------------------------------------------------------
(* What every step of a running transaction leaves alone.                  *)

LEMMA Goes ==
    ASSUME tx \in Transactions, NEW c \in Steps, Goto(c)
    PROVE  /\ tx' \in Transactions /\ tx'.pc = c
           /\ tx'.set = tx.set /\ tx'.want = tx.want /\ tx'.plan = tx.plan
           /\ tx'.todo = tx.todo /\ tx'.applied = tx.applied /\ tx'.path = tx.path
  BY DEF Goto, Transactions

\* Own: a step of the transaction that writes no file.
Own ==
    /\ tx.pc # "idle" /\ tx'.pc # "idle" /\ tx' \in Transactions
    /\ tx'.plan = tx.plan /\ tx'.want = tx.want
    /\ content' = content /\ kept' = kept /\ edits' = edits
    /\ last' \in Outcomes /\ last'.before = last.before

LEMMA Steady ==
    ASSUME IInv, Own
    PROVE  PlanSound' /\ Texted' /\ FailedSetupIsUndone' /\ HooksFollowSetting'
<1>1. tx' # Idle
  BY DEF Own, Idle
<1>2. PlanSound'
  BY DEF IInv, Own, PlanSound
<1>3. Texted'
  BY DEF IInv, Own, Texted, Inodes
<1> QED BY <1>1, <1>2, <1>3 DEF FailedSetupIsUndone, HooksFollowSetting

\* No text is lost when every file that loses its last name is spent.
LEMMA TextKept ==
    ASSUME UserTextSurvives, content' = content, kept' = kept,
           \A i \in Named : i \in Named' \/ content[i].text \notin kept
                            \/ \E j \in Named' : content[j].text = content[i].text
    PROVE  UserTextSurvives'
  BY DEF UserTextSurvives

\* What is left to show of such a step.
LEMMA Step ==
    ASSUME IInv, Own, NamesTyped', saved' \in BOOLEAN, Apart', UserTextSurvives',
           Shape', Carried', DoomedIsSpent', Followed', Committing' => saved' = tx'.want
    PROVE  IInv'
<1>1. Types'
  BY DEF IInv, Types, Own, NamesTyped, Inodes
<1> QED BY <1>1, Steady DEF IInv

LEMMA NothingMoves ==
    ASSUME NamesTyped, Apart, UserTextSurvives, UNCHANGED names, content' = content, kept' = kept
    PROVE  NamesTyped' /\ Apart' /\ UserTextSurvives'
  BY DEF NamesTyped, Apart, UserTextSurvives, names, Inodes, Named

\* The transaction returns.
LEMMA Returned ==
    ASSUME IInv, NEW o \in {"ok", "error", "crash"}, Return(o),
           UNCHANGED <<active, content, saved, kept, edits>>,
           FailedSetupIsUndone', HooksFollowSetting'
    PROVE  IInv'
<1>1. /\ tx' = Idle /\ detached' = NoFile /\ NamesTyped /\ Apart
      /\ tx'.pc = "idle" /\ tx'.path = 1 /\ tx'.applied = <<>> /\ tx'.todo = {}
      /\ \A p \in Paths : tx'.plan[p] = NoPlan
  BY DEF IInv, Types, NamesTyped, Return, Idle
<1>2. NamesTyped' /\ Apart' /\ Named' = Named /\ \A p \in Paths : spare'[p] = NoFile
  BY <1>1, ReturnMoves DEF Return
<1>3. Idle \in Transactions
  <2>1. NoPlan \in Plans
    BY DEF NoPlan, Plans, Possible
  <2>2. 1 \in Paths
    BY BoundsAssumption DEF Paths
  <2>3. <<>> \in Seq(Paths)
    BY EmptySeq
  <2> QED BY <2>1, <2>2, <2>3 DEF Idle, Transactions, Steps
<1>4. Types'
  BY <1>1, <1>2, <1>3 DEF IInv, Types, NamesTyped, Outcomes, Return, Inodes
<1>5. Applied' = {}
  BY <1>1 DEF Applied
<1>6. Shape'
  BY <1>1, <1>2, <1>5 DEF Shape, InHand, Between, Forward, Committing
<1>7. PlanSound' /\ DoomedIsSpent' /\ ~Committing'
  BY <1>1 DEF PlanSound, DoomedIsSpent, Committing
<1>8. Texted'
  BY <1>1 DEF IInv, Types, Texted, Inodes, NoPlan, Absent
<1>9. Carried'
  BY <1>1, <1>5 DEF Carried
<1>10. Followed'
  BY <1>1, <1>5 DEF Followed, Follows, Committing
<1>11. UserTextSurvives'
  BY <1>2 DEF IInv, UserTextSurvives
<1> QED BY <1>2, <1>4, <1>6, <1>7, <1>8, <1>9, <1>10, <1>11 DEF IInv

\* The files already replaced, as a sequence of paths without repetition.
LEMMA AppliedGrows ==
    ASSUME NEW s \in Seq(Paths), NEW p \in Paths, p \notin {s[n] : n \in 1..Len(s)},
           \A m, n \in 1..Len(s) : s[m] = s[n] => m = n,
           NEW t, t = Append(s, p)
    PROVE  /\ t \in Seq(Paths)
           /\ {t[n] : n \in 1..Len(t)} = {s[n] : n \in 1..Len(s)} \cup {p}
           /\ \A m, n \in 1..Len(t) : t[m] = t[n] => m = n
<1>1. /\ t \in Seq(Paths) /\ Len(t) = Len(s) + 1 /\ Len(s) \in Nat /\ t[Len(s) + 1] = p
      /\ \A n \in 1..Len(s) : t[n] = s[n]
  BY AppendProperties, LenProperties
<1>2. 1..Len(t) = 1..Len(s) \cup {Len(s) + 1}
  BY <1>1
<1> QED BY <1>1, <1>2

LEMMA AppliedShrinks ==
    ASSUME NEW s \in Seq(Paths), s # <<>>,
           \A m, n \in 1..Len(s) : s[m] = s[n] => m = n,
           NEW t, NEW p,
           \/ p = s[Len(s)] /\ t = SubSeq(s, 1, Len(s) - 1)
           \/ p = Head(s) /\ t = Tail(s)
    PROVE  /\ t \in Seq(Paths) /\ p \in Paths /\ p \in {s[n] : n \in 1..Len(s)}
           /\ {t[n] : n \in 1..Len(t)} = {s[n] : n \in 1..Len(s)} \ {p}
           /\ \A m, n \in 1..Len(t) : t[m] = t[n] => m = n
<1>1. Len(s) \in Nat /\ Len(s) >= 1 /\ \A n \in 1..Len(s) : s[n] \in Paths
  BY LenProperties, EmptySeq, ElementOfSeq
<1>2. CASE p = s[Len(s)] /\ t = SubSeq(s, 1, Len(s) - 1)
  <2>0. /\ 1 \in Int /\ Len(s) - 1 \in Int /\ \A n \in 1..(Len(s) - 1) : s[n] \in Paths
    BY <1>1
  <2> DEFINE u == SubSeq(s, 1, Len(s) - 1)
  <2>1a. /\ u \in Seq(Paths)
         /\ Len(u) = IF 1 <= Len(s) - 1 THEN Len(s) - 1 - 1 + 1 ELSE 0
         /\ \A n \in 1..(Len(s) - 1 - 1 + 1) : u[n] = s[1 + n - 1]
    BY <2>0, SubSeqProperties
  <2> HIDE DEF u
  <2>1b. Len(u) = Len(s) - 1
    <3>1. CASE Len(s) = 1
      BY <2>1a, <3>1
    <3>2. CASE Len(s) # 1
      <4>1. 1 <= Len(s) - 1 /\ (Len(s) - 1) - 1 + 1 = Len(s) - 1
        <5>1. \A k \in Nat : k >= 1 /\ k # 1 => 1 <= k - 1 /\ (k - 1) - 1 + 1 = k - 1
          OBVIOUS
        <5> QED BY <1>1, <3>2, <5>1
      <4> QED BY <2>1a, <4>1
    <3> QED BY <3>1, <3>2
  <2>1c. \A n \in 1..(Len(s) - 1) : u[n] = s[n]
    BY <1>1, <2>1a
  <2>1. t \in Seq(Paths) /\ Len(t) = Len(s) - 1 /\ \A n \in 1..(Len(s) - 1) : t[n] = s[n]
    BY <1>1, <1>2, <2>1a, <2>1b, <2>1c DEF u
  <2>2. \A n \in 1..Len(s) : n \in 1..Len(t) \/ n = Len(s)
    BY <1>1, <2>1
  <2>3. Len(s) \in 1..Len(s) /\ \A n \in 1..Len(t) : n \in 1..Len(s) /\ n # Len(s) /\ t[n] = s[n]
    BY <1>1, <2>1
  <2>4. \A n \in 1..Len(t) : t[n] # p
    BY <1>2, <2>3
  <2>5. {t[n] : n \in 1..Len(t)} = {s[n] : n \in 1..Len(s)} \ {p}
    <3>1. ASSUME NEW x \in {t[n] : n \in 1..Len(t)} PROVE x \in {s[n] : n \in 1..Len(s)} \ {p}
      BY <2>3, <2>4
    <3>2. ASSUME NEW x \in {s[n] : n \in 1..Len(s)} \ {p} PROVE x \in {t[n] : n \in 1..Len(t)}
      BY <1>2, <2>2, <2>3
    <3> QED BY <3>1, <3>2
  <2>6. \A m, n \in 1..Len(t) : t[m] = t[n] => m = n
    BY <2>3
  <2>7. p \in Paths /\ p \in {s[n] : n \in 1..Len(s)}
    BY <1>1, <1>2, <2>3
  <2> QED BY <2>1, <2>5, <2>6, <2>7
<1>3. CASE p = Head(s) /\ t = Tail(s)
  <2>1. /\ t \in Seq(Paths) /\ Len(t) = Len(s) - 1 /\ p = s[1]
        /\ \A n \in 1..(Len(s) - 1) : t[n] = s[n + 1]
    BY <1>1, <1>3, HeadTailProperties
  <2>2. \A n \in 1..Len(s) : n = 1 \/ (n - 1 \in 1..Len(t) /\ s[n] = t[n - 1])
    BY <1>1, <2>1
  <2>3. \A n \in 1..Len(t) : n + 1 \in 1..Len(s) /\ n + 1 # 1 /\ t[n] = s[n + 1]
    BY <1>1, <2>1
  <2>4. \A n \in 1..Len(t) : t[n] # p
    BY <1>1, <2>1, <2>3
  <2>5. {t[n] : n \in 1..Len(t)} = {s[n] : n \in 1..Len(s)} \ {p}
    <3>1. \A n \in 1..Len(t) : \E m \in 1..Len(s) : t[n] = s[m]
      BY <2>3
    <3>2. \A n \in 1..Len(s) : s[n] # p => \E m \in 1..Len(t) : s[n] = t[m]
      BY <2>1, <2>2
    <3>3. ASSUME NEW x \in {t[n] : n \in 1..Len(t)} PROVE x \in {s[n] : n \in 1..Len(s)} \ {p}
      BY <2>4, <3>1
    <3>4. ASSUME NEW x \in {s[n] : n \in 1..Len(s)} \ {p} PROVE x \in {t[n] : n \in 1..Len(t)}
      BY <3>2
    <3> QED BY <3>3, <3>4
  <2>6. \A m, n \in 1..Len(t) : t[m] = t[n] => m = n
    BY <1>1, <2>1, <2>3
  <2>7. p \in {s[n] : n \in 1..Len(s)}
    BY <1>1, <2>1
  <2> QED BY <1>1, <2>1, <2>5, <2>6, <2>7
<1> QED BY <1>2, <1>3

\* Where the files of the plan are.
LEMMA Places ==
    ASSUME Types
    PROVE  /\ Applied \subseteq Paths /\ tx.todo \subseteq Paths
           /\ tx.applied \in Seq(Paths) /\ (tx.applied = <<>> => Applied = {})
<1>1. tx.applied \in Seq(Paths) /\ tx.todo \subseteq Paths
  BY DEF Types, Transactions
<1>2. \A n \in 1..Len(tx.applied) : tx.applied[n] \in Paths
  BY <1>1, ElementOfSeq
<1>3. tx.applied = <<>> => Len(tx.applied) = 0
  OBVIOUS
<1> QED BY <1>1, <1>2, <1>3 DEF Applied

-----------------------------------------------------------------------------
(* sync_at and apply_plans.                                                *)

LEMMA CompareKeeps == ASSUME IInv, Compare PROVE IInv'
<1>1. /\ Types /\ Apart /\ Shape /\ PlanSound /\ Texted /\ UserTextSurvives
      /\ Carried /\ DoomedIsSpent /\ Followed
      /\ InHand = {tx.path}
      /\ tx \in Transactions /\ tx.pc = "compare" /\ tx.path \in Paths
      /\ NamesTyped /\ saved \in BOOLEAN /\ last \in Outcomes /\ edits' = edits
      /\ detached = NoFile /\ last.unrestored = {}
  BY DEF IInv, Types, NamesTyped, Transactions, Compare, Succeeds, Fails, bounds, Shape,
     Forward, Committing, Doomed, InHand, Between
<1>0. /\ Applied \subseteq Paths /\ tx.todo \subseteq Paths /\ tx.applied \in Seq(Paths)
      /\ InHand \cap Applied = {} /\ tx.todo \cap (Applied \cup InHand) = {}
      /\ \A e \in kept : e # Absent.text /\ e # 0
  BY <1>1, Places DEF Shape, Types, Absent
<1>2. CASE Unchanged(p0) /\ Plan.original = Absent
  <2>12. /\ content' = content /\ kept' = kept /\ saved' = saved /\ last' = last
    BY <1>1, <1>2 DEF Compare, Succeeds, Fails
  <2>1. /\ UNCHANGED names /\ Goto("install")
    BY <1>1, <1>2 DEF Compare, Succeeds, Fails, names, p0, Plan
  <2>2. /\ tx' \in Transactions /\ tx'.pc = "install"
        /\ tx'.want = tx.want /\ tx'.plan = tx.plan
        /\ tx'.todo = tx.todo /\ tx'.applied = tx.applied /\ tx'.path = tx.path
    BY <1>1, <2>1, Goes DEF Steps
  <2>3. Own
    BY <1>1, <2>2, <2>12 DEF Own
  <2>4. NamesTyped' /\ Apart' /\ UserTextSurvives'
    BY <1>1, <2>1, <2>12, NothingMoves
  <2>11. Applied' = Applied /\ InHand' = {tx.path}
    BY <1>1, <2>2 DEF Applied, InHand, Between
  <2>6. Shape'
    BY <1>1, <1>2, <2>1, <2>2, <2>12, <1>0, <2>11 DEF Shape, Carried, Forward, Committing,
       Plan, p0, names
  <2>7. Carried'
    BY <1>1, <1>2, <2>1, <2>2, <2>12, <1>0, <2>11 DEF Carried, Shape, InPlace, InSpare, Text,
       Current, Plan, p0, Unchanged, names
  <2>8. DoomedIsSpent'
    BY <1>1, <1>2, <2>1, <2>2, <2>12, <1>0, <2>11 DEF DoomedIsSpent, Shape, Text, InSpare,
       InPlace, Carried, Current, Plan, p0, names
  <2>9. Followed'
    <3> SUFFICES ASSUME NEW p \in Paths, p \notin last'.touched, p \notin last'.unrestored
                 PROVE  Follows(p)'
      BY DEF Followed
    <3>1. Follows(p)
      BY <1>1, <2>12, <2>2 DEF Followed
    <3>2. CASE p # tx.path
      <4>1. active'[p] = active[p] /\ spare'[p] = spare[p]
        BY <2>1, <2>2, <2>12, <3>2 DEF names
      <4>2. /\ Current(p)' = Current(p) /\ (AsBefore(p)' <=> AsBefore(p))
            /\ (Exchanged(p)' <=> Exchanged(p))
        BY <2>12, <2>2, <4>1 DEF Current, AsBefore, Exchanged
      <4> QED BY <1>0, <1>1, <2>12, <2>2, <2>11, <3>1, <3>2, <4>2 DEF Follows, Committing
    <3>3. CASE p = tx.path
      BY <1>0, <1>1, <1>2, <2>1, <2>2, <2>12, <2>11, <3>1, <3>3
      DEF Follows, Committing, AsBefore, Exchanged, Current, Plan, p0, Unchanged, names,
         Carried, PlanSound, Shape
    <3> QED BY <3>2, <3>3
  <2>10. Committing' => saved' = tx'.want
    BY <1>1, <2>12, <2>2 DEF Committing, IInv
  <2> QED BY <1>1, <2>1, <2>12, <2>3, <2>4, <2>6, <2>7, <2>8, <2>9, <2>10, Step
<1>3. CASE Unchanged(p0) /\ Plan.original # Absent
  <2>12. /\ content' = content /\ kept' = kept /\ saved' = saved /\ last' = last
    BY <1>1, <1>3 DEF Compare, Succeeds, Fails
  <2>1. /\ UNCHANGED names /\ Goto("exchange")
    BY <1>1, <1>3 DEF Compare, Succeeds, Fails, names, p0, Plan
  <2>2. /\ tx' \in Transactions /\ tx'.pc = "exchange"
        /\ tx'.want = tx.want /\ tx'.plan = tx.plan
        /\ tx'.todo = tx.todo /\ tx'.applied = tx.applied /\ tx'.path = tx.path
    BY <1>1, <2>1, Goes DEF Steps
  <2>3. Own
    BY <1>1, <2>2, <2>12 DEF Own
  <2>4. NamesTyped' /\ Apart' /\ UserTextSurvives'
    BY <1>1, <2>1, <2>12, NothingMoves
  <2>11. Applied' = Applied /\ InHand' = {tx.path}
    BY <1>1, <2>2 DEF Applied, InHand, Between
  <2>6. Shape'
    BY <1>1, <1>3, <2>1, <2>2, <2>12, <1>0, <2>11 DEF Shape, Carried, Forward, Committing,
       Plan, p0, names
  <2>7. Carried'
    BY <1>1, <1>3, <2>1, <2>2, <2>12, <1>0, <2>11 DEF Carried, Shape, InPlace, InSpare, Text,
       Current, Plan, p0, Unchanged, names
  <2>8. DoomedIsSpent'
    BY <1>1, <1>3, <2>1, <2>2, <2>12, <1>0, <2>11 DEF DoomedIsSpent, Shape, Text, InSpare,
       InPlace, Carried, Current, Plan, p0, names
  <2>9. Followed'
    <3> SUFFICES ASSUME NEW p \in Paths, p \notin last'.touched, p \notin last'.unrestored
                 PROVE  Follows(p)'
      BY DEF Followed
    <3>1. Follows(p)
      BY <1>1, <2>12, <2>2 DEF Followed
    <3>2. CASE p # tx.path
      <4>1. active'[p] = active[p] /\ spare'[p] = spare[p]
        BY <2>1, <2>2, <2>12, <3>2 DEF names
      <4>2. /\ Current(p)' = Current(p) /\ (AsBefore(p)' <=> AsBefore(p))
            /\ (Exchanged(p)' <=> Exchanged(p))
        BY <2>12, <2>2, <4>1 DEF Current, AsBefore, Exchanged
      <4> QED BY <1>0, <1>1, <2>12, <2>2, <2>11, <3>1, <3>2, <4>2 DEF Follows, Committing
    <3>3. CASE p = tx.path
      BY <1>0, <1>1, <1>3, <2>1, <2>2, <2>12, <2>11, <3>1, <3>3
      DEF Follows, Committing, AsBefore, Exchanged, Current, Plan, p0, Unchanged, names,
         Carried, PlanSound, Shape
    <3> QED BY <3>2, <3>3
  <2>10. Committing' => saved' = tx'.want
    BY <1>1, <2>12, <2>2 DEF Committing, IInv
  <2> QED BY <1>1, <2>1, <2>12, <2>3, <2>4, <2>6, <2>7, <2>8, <2>9, <2>10, Step
<1>4. CASE ~Unchanged(p0)
  <2>12. /\ content' = content /\ kept' = kept /\ saved' = saved /\ last' = last
    BY <1>1, <1>4 DEF Compare, Succeeds, Fails
  <2>1. /\ DropSpare(p0) /\ Goto("rollback")
    BY <1>1, <1>4 DEF Compare, Succeeds, Fails, names, p0, Plan
  <2>2. /\ tx' \in Transactions /\ tx'.pc = "rollback"
        /\ tx'.want = tx.want /\ tx'.plan = tx.plan
        /\ tx'.todo = tx.todo /\ tx'.applied = tx.applied /\ tx'.path = tx.path
    BY <1>1, <2>1, Goes DEF Steps
  <2>3. Own
    BY <1>1, <2>2, <2>12 DEF Own
  <2>4. /\ NamesTyped' /\ Apart' /\ Named \subseteq Named' \cup {spare[tx.path]}
        /\ UNCHANGED <<active, detached, strays>>
        /\ \A q \in Paths : spare'[q] = IF q = tx.path THEN NoFile ELSE spare[q]
    BY <1>1, <2>1, <2>12, DropMoves DEF p0
  <2>5. UserTextSurvives'
    <3>1. content[spare[tx.path]].text \in kept => Current(tx.path).text = content[spare[tx.path]].text
      <4>1. content[spare[tx.path]] = tx.plan[tx.path].updated
        BY <1>1 DEF Carried
      <4>2. tx.path \in InHand
        BY <1>1
      <4>3. tx.plan[tx.path] # NoPlan
        BY <1>1, <4>2 DEF Shape
      <4>4. CASE tx.plan[tx.path].original = Absent
        BY <1>1, <4>1, <4>3, <4>4 DEF PlanSound, Types
      <4>5. CASE tx.plan[tx.path].original # Absent
        <5>1. content[spare[tx.path]].text = Text(tx.path)
          BY <1>1, <4>1, <4>3, <4>5 DEF PlanSound, Text
        <5> QED BY <1>1, <5>1 DEF Carried, InPlace
      <4> QED BY <4>4, <4>5
    <3>2. \A e \in kept : e # Absent.text
      BY <1>1 DEF Types, Absent
    <3>3. content[spare[tx.path]].text \in kept =>
            \E i \in Named' : content[i].text = content[spare[tx.path]].text
      BY <1>1, <2>4, <3>1, <3>2 DEF Current, Named
    <3> QED BY <1>1, <2>12, <2>4, <3>3, TextKept
  <2>11. Applied' = Applied /\ InHand' = {}
    BY <1>1, <2>2 DEF Applied, InHand, Between
  <2>6. Shape'
    BY <1>1, <1>4, <2>2, <2>4, <2>12, <1>0, <2>11 DEF Shape, Carried, Forward, Committing,
       Plan, p0, names
  <2>7. Carried'
    BY <1>1, <1>4, <2>2, <2>4, <2>12, <1>0, <2>11 DEF Carried, Shape, InPlace, InSpare, Text,
       Current, Plan, p0, Unchanged, names
  <2>8. DoomedIsSpent'
    BY <1>1, <1>4, <2>2, <2>4, <2>12, <1>0, <2>11 DEF DoomedIsSpent, Shape, Text, InSpare,
       InPlace, Carried, Current, Plan, p0, names
  <2>9. Followed'
    <3> SUFFICES ASSUME NEW p \in Paths, p \notin last'.touched, p \notin last'.unrestored
                 PROVE  Follows(p)'
      BY DEF Followed
    <3>1. Follows(p)
      BY <1>1, <2>12, <2>2 DEF Followed
    <3>2. CASE p # tx.path
      <4>1. active'[p] = active[p] /\ spare'[p] = spare[p]
        BY <2>2, <2>4, <2>12, <3>2 DEF names
      <4>2. /\ Current(p)' = Current(p) /\ (AsBefore(p)' <=> AsBefore(p))
            /\ (Exchanged(p)' <=> Exchanged(p))
        BY <2>12, <2>2, <4>1 DEF Current, AsBefore, Exchanged
      <4> QED BY <1>0, <1>1, <2>12, <2>2, <2>11, <3>1, <3>2, <4>2 DEF Follows, Committing
    <3>3. CASE p = tx.path
      BY <1>0, <1>1, <1>4, <2>2, <2>4, <2>12, <2>11, <3>1, <3>3
      DEF Follows, Committing, AsBefore, Exchanged, Current, Plan, p0, Unchanged, names,
         Carried, PlanSound, Shape
    <3> QED BY <3>2, <3>3
  <2>10. Committing' => saved' = tx'.want
    BY <1>1, <2>12, <2>2 DEF Committing, IInv
  <2> QED BY <1>1, <2>1, <2>12, <2>3, <2>4, <2>5, <2>6, <2>7, <2>8, <2>9, <2>10, Step
<1> QED BY <1>1, <1>2, <1>3, <1>4 DEF Compare, Succeeds, Fails, names

LEMMA ExchangeKeeps == ASSUME IInv, Exchange PROVE IInv'
<1>1. /\ Types /\ Apart /\ Shape /\ PlanSound /\ Texted /\ UserTextSurvives
      /\ Carried /\ DoomedIsSpent /\ Followed
      /\ InHand = {tx.path}
      /\ tx \in Transactions /\ tx.pc = "exchange" /\ tx.path \in Paths
      /\ NamesTyped /\ saved \in BOOLEAN /\ last \in Outcomes /\ edits' = edits
      /\ detached = NoFile /\ last.unrestored = {} /\ last' = last /\ content' = content
      /\ kept' = kept /\ saved' = saved
  BY DEF IInv, Types, NamesTyped, Transactions, Exchange, Succeeds, Fails, bounds, Shape,
     Forward, Committing, Doomed, InHand, Between
<1>0. /\ Applied \subseteq Paths /\ tx.todo \subseteq Paths /\ tx.applied \in Seq(Paths)
      /\ InHand \cap Applied = {} /\ tx.todo \cap (Applied \cup InHand) = {}
      /\ \A e \in kept : e # Absent.text /\ e # 0
  BY <1>1, Places DEF Shape, Types, Absent
<1>2. CASE active[p0] # NoFile /\ Swap(p0) /\ Goto("verify") /\ Succeeds
  <2>12. /\ content' = content /\ kept' = kept /\ saved' = saved /\ last' = last
    BY <1>1, <1>2 DEF Exchange, Succeeds, Fails
  <2>1. /\ Swap(p0) /\ Goto("verify")
    BY <1>1, <1>2 DEF Exchange, Succeeds, Fails, names, p0, Plan
  <2>2. /\ tx' \in Transactions /\ tx'.pc = "verify"
        /\ tx'.want = tx.want /\ tx'.plan = tx.plan
        /\ tx'.todo = tx.todo /\ tx'.applied = tx.applied /\ tx'.path = tx.path
    BY <1>1, <2>1, Goes DEF Steps
  <2>3. Own
    BY <1>1, <2>2, <2>12 DEF Own
  <2>4. /\ NamesTyped' /\ Apart' /\ Named' = Named /\ UNCHANGED <<detached, strays>>
        /\ \A q \in Paths : /\ active'[q] = IF q = tx.path THEN spare[tx.path] ELSE active[q]
                            /\ spare'[q] = IF q = tx.path THEN active[tx.path] ELSE spare[q]
    BY <1>1, <2>1, <2>12, SwapMoves DEF p0
  <2>5. UserTextSurvives'
    BY <1>1, <2>12, <2>4 DEF UserTextSurvives
  <2>11. Applied' = Applied /\ InHand' = {tx.path}
    BY <1>1, <2>2 DEF Applied, InHand, Between
  <2>6. Shape'
    BY <1>1, <1>2, <2>2, <2>4, <2>12, <1>0, <2>11 DEF Shape, Carried, Forward, Committing,
       Plan, p0, names
  <2>7. Carried'
    BY <1>1, <1>2, <2>2, <2>4, <2>12, <1>0, <2>11 DEF Carried, Shape, InPlace, InSpare, Text,
       Current, Plan, p0, Unchanged, names
  <2>8. DoomedIsSpent'
    BY <1>1, <1>2, <2>2, <2>4, <2>12, <1>0, <2>11 DEF DoomedIsSpent, Shape, Text, InSpare,
       InPlace, Carried, Current, Plan, p0, names
  <2>9. Followed'
    <3> SUFFICES ASSUME NEW p \in Paths, p \notin last'.touched, p \notin last'.unrestored
                 PROVE  Follows(p)'
      BY DEF Followed
    <3>1. Follows(p)
      BY <1>1, <2>12, <2>2 DEF Followed
    <3>2. CASE p # tx.path
      <4>1. active'[p] = active[p] /\ spare'[p] = spare[p]
        BY <2>2, <2>4, <2>12, <3>2 DEF names
      <4>2. /\ Current(p)' = Current(p) /\ (AsBefore(p)' <=> AsBefore(p))
            /\ (Exchanged(p)' <=> Exchanged(p))
        BY <2>12, <2>2, <4>1 DEF Current, AsBefore, Exchanged
      <4> QED BY <1>0, <1>1, <2>12, <2>2, <2>11, <3>1, <3>2, <4>2 DEF Follows, Committing
    <3>3. CASE p = tx.path
      BY <1>0, <1>1, <1>2, <2>2, <2>4, <2>12, <2>11, <3>1, <3>3
      DEF Follows, Committing, AsBefore, Exchanged, Current, Plan, p0, Unchanged, names,
         Carried, PlanSound, Shape
    <3> QED BY <3>2, <3>3
  <2>10. Committing' => saved' = tx'.want
    BY <1>1, <2>12, <2>2 DEF Committing, IInv
  <2> QED BY <1>1, <2>1, <2>12, <2>3, <2>4, <2>5, <2>6, <2>7, <2>8, <2>9, <2>10, Step
<1>3. CASE active[p0] # NoFile /\ Swap(p0) /\ Goto("reconcile") /\ Fails
  <2>12. /\ content' = content /\ kept' = kept /\ saved' = saved /\ last' = last
    BY <1>1, <1>3 DEF Exchange, Succeeds, Fails
  <2>1. /\ Swap(p0) /\ Goto("reconcile")
    BY <1>1, <1>3 DEF Exchange, Succeeds, Fails, names, p0, Plan
  <2>2. /\ tx' \in Transactions /\ tx'.pc = "reconcile"
        /\ tx'.want = tx.want /\ tx'.plan = tx.plan
        /\ tx'.todo = tx.todo /\ tx'.applied = tx.applied /\ tx'.path = tx.path
    BY <1>1, <2>1, Goes DEF Steps
  <2>3. Own
    BY <1>1, <2>2, <2>12 DEF Own
  <2>4. /\ NamesTyped' /\ Apart' /\ Named' = Named /\ UNCHANGED <<detached, strays>>
        /\ \A q \in Paths : /\ active'[q] = IF q = tx.path THEN spare[tx.path] ELSE active[q]
                            /\ spare'[q] = IF q = tx.path THEN active[tx.path] ELSE spare[q]
    BY <1>1, <2>1, <2>12, SwapMoves DEF p0
  <2>5. UserTextSurvives'
    BY <1>1, <2>12, <2>4 DEF UserTextSurvives
  <2>11. Applied' = Applied /\ InHand' = {tx.path}
    BY <1>1, <2>2 DEF Applied, InHand, Between
  <2>6. Shape'
    BY <1>1, <1>3, <2>2, <2>4, <2>12, <1>0, <2>11 DEF Shape, Carried, Forward, Committing,
       Plan, p0, names
  <2>7. Carried'
    BY <1>1, <1>3, <2>2, <2>4, <2>12, <1>0, <2>11 DEF Carried, Shape, InPlace, InSpare, Text,
       Current, Plan, p0, Unchanged, names
  <2>8. DoomedIsSpent'
    BY <1>1, <1>3, <2>2, <2>4, <2>12, <1>0, <2>11 DEF DoomedIsSpent, Shape, Text, InSpare,
       InPlace, Carried, Current, Plan, p0, names
  <2>9. Followed'
    <3> SUFFICES ASSUME NEW p \in Paths, p \notin last'.touched, p \notin last'.unrestored
                 PROVE  Follows(p)'
      BY DEF Followed
    <3>1. Follows(p)
      BY <1>1, <2>12, <2>2 DEF Followed
    <3>2. CASE p # tx.path
      <4>1. active'[p] = active[p] /\ spare'[p] = spare[p]
        BY <2>2, <2>4, <2>12, <3>2 DEF names
      <4>2. /\ Current(p)' = Current(p) /\ (AsBefore(p)' <=> AsBefore(p))
            /\ (Exchanged(p)' <=> Exchanged(p))
        BY <2>12, <2>2, <4>1 DEF Current, AsBefore, Exchanged
      <4> QED BY <1>0, <1>1, <2>12, <2>2, <2>11, <3>1, <3>2, <4>2 DEF Follows, Committing
    <3>3. CASE p = tx.path
      BY <1>0, <1>1, <1>3, <2>2, <2>4, <2>12, <2>11, <3>1, <3>3
      DEF Follows, Committing, AsBefore, Exchanged, Current, Plan, p0, Unchanged, names,
         Carried, PlanSound, Shape
    <3> QED BY <3>2, <3>3
  <2>10. Committing' => saved' = tx'.want
    BY <1>1, <2>12, <2>2 DEF Committing, IInv
  <2> QED BY <1>1, <2>1, <2>12, <2>3, <2>4, <2>5, <2>6, <2>7, <2>8, <2>9, <2>10, Step
<1>4. CASE UNCHANGED names /\ Goto("reconcile")
  <2>12. /\ content' = content /\ kept' = kept /\ saved' = saved /\ last' = last
    BY <1>1, <1>4 DEF Exchange, Succeeds, Fails
  <2>1. /\ UNCHANGED names /\ Goto("reconcile")
    BY <1>1, <1>4 DEF Exchange, Succeeds, Fails, names, p0, Plan
  <2>2. /\ tx' \in Transactions /\ tx'.pc = "reconcile"
        /\ tx'.want = tx.want /\ tx'.plan = tx.plan
        /\ tx'.todo = tx.todo /\ tx'.applied = tx.applied /\ tx'.path = tx.path
    BY <1>1, <2>1, Goes DEF Steps
  <2>3. Own
    BY <1>1, <2>2, <2>12 DEF Own
  <2>4. NamesTyped' /\ Apart' /\ UserTextSurvives'
    BY <1>1, <2>1, <2>12, NothingMoves
  <2>11. Applied' = Applied /\ InHand' = {tx.path}
    BY <1>1, <2>2 DEF Applied, InHand, Between
  <2>6. Shape'
    BY <1>1, <1>4, <2>1, <2>2, <2>12, <1>0, <2>11 DEF Shape, Carried, Forward, Committing,
       Plan, p0, names
  <2>7. Carried'
    BY <1>1, <1>4, <2>1, <2>2, <2>12, <1>0, <2>11 DEF Carried, Shape, InPlace, InSpare, Text,
       Current, Plan, p0, Unchanged, names
  <2>8. DoomedIsSpent'
    BY <1>1, <1>4, <2>1, <2>2, <2>12, <1>0, <2>11 DEF DoomedIsSpent, Shape, Text, InSpare,
       InPlace, Carried, Current, Plan, p0, names
  <2>9. Followed'
    <3> SUFFICES ASSUME NEW p \in Paths, p \notin last'.touched, p \notin last'.unrestored
                 PROVE  Follows(p)'
      BY DEF Followed
    <3>1. Follows(p)
      BY <1>1, <2>12, <2>2 DEF Followed
    <3>2. CASE p # tx.path
      <4>1. active'[p] = active[p] /\ spare'[p] = spare[p]
        BY <2>1, <2>2, <2>12, <3>2 DEF names
      <4>2. /\ Current(p)' = Current(p) /\ (AsBefore(p)' <=> AsBefore(p))
            /\ (Exchanged(p)' <=> Exchanged(p))
        BY <2>12, <2>2, <4>1 DEF Current, AsBefore, Exchanged
      <4> QED BY <1>0, <1>1, <2>12, <2>2, <2>11, <3>1, <3>2, <4>2 DEF Follows, Committing
    <3>3. CASE p = tx.path
      BY <1>0, <1>1, <1>4, <2>1, <2>2, <2>12, <2>11, <3>1, <3>3
      DEF Follows, Committing, AsBefore, Exchanged, Current, Plan, p0, Unchanged, names,
         Carried, PlanSound, Shape
    <3> QED BY <3>2, <3>3
  <2>10. Committing' => saved' = tx'.want
    BY <1>1, <2>12, <2>2 DEF Committing, IInv
  <2> QED BY <1>1, <2>1, <2>12, <2>3, <2>4, <2>6, <2>7, <2>8, <2>9, <2>10, Step
<1> QED BY <1>1, <1>2, <1>3, <1>4 DEF Exchange, Succeeds, Fails, names

LEMMA ReconcileKeeps == ASSUME IInv, Reconcile PROVE IInv'
<1>1. /\ Types /\ Apart /\ Shape /\ PlanSound /\ Texted /\ UserTextSurvives
      /\ Carried /\ DoomedIsSpent /\ Followed
      /\ InHand = {tx.path}
      /\ tx \in Transactions /\ tx.pc = "reconcile" /\ tx.path \in Paths
      /\ NamesTyped /\ saved \in BOOLEAN /\ last \in Outcomes /\ edits' = edits
      /\ detached = NoFile /\ last.unrestored = {}
  BY DEF IInv, Types, NamesTyped, Transactions, Reconcile, Succeeds, Fails, bounds, Shape,
     Forward, Committing, Doomed, InHand, Between
<1>0. /\ Applied \subseteq Paths /\ tx.todo \subseteq Paths /\ tx.applied \in Seq(Paths)
      /\ InHand \cap Applied = {} /\ tx.todo \cap (Applied \cup InHand) = {}
      /\ \A e \in kept : e # Absent.text /\ e # 0
  BY <1>1, Places DEF Shape, Types, Absent
<1>2. CASE /\ UNCHANGED names
           /\ Goto("verify")
           /\ Current(p0) = Plan.updated
           /\ content[spare[p0]] = Plan.original
  <2>12. /\ content' = content /\ kept' = kept /\ saved' = saved /\ last' = last
    BY <1>1, <1>2 DEF Reconcile, Succeeds, Fails
  <2>1. /\ UNCHANGED names /\ Goto("verify")
    BY <1>1, <1>2 DEF Reconcile, Succeeds, Fails, names, p0, Plan
  <2>2. /\ tx' \in Transactions /\ tx'.pc = "verify"
        /\ tx'.want = tx.want /\ tx'.plan = tx.plan
        /\ tx'.todo = tx.todo /\ tx'.applied = tx.applied /\ tx'.path = tx.path
    BY <1>1, <2>1, Goes DEF Steps
  <2>3. Own
    BY <1>1, <2>2, <2>12 DEF Own
  <2>4. NamesTyped' /\ Apart' /\ UserTextSurvives'
    BY <1>1, <2>1, <2>12, NothingMoves
  <2>11. Applied' = Applied /\ InHand' = {tx.path}
    BY <1>1, <2>2 DEF Applied, InHand, Between
  <2>6. Shape'
    BY <1>1, <1>2, <2>1, <2>2, <2>12, <1>0, <2>11 DEF Shape, Carried, Forward, Committing,
       Plan, p0, names
  <2>7. Carried'
    BY <1>1, <1>2, <2>1, <2>2, <2>12, <1>0, <2>11 DEF Carried, Shape, InPlace, InSpare, Text,
       Current, Plan, p0, Unchanged, names
  <2>8. DoomedIsSpent'
    BY <1>1, <1>2, <2>1, <2>2, <2>12, <1>0, <2>11 DEF DoomedIsSpent, Shape, Text, InSpare,
       InPlace, Carried, Current, Plan, p0, names
  <2>9. Followed'
    <3> SUFFICES ASSUME NEW p \in Paths, p \notin last'.touched, p \notin last'.unrestored
                 PROVE  Follows(p)'
      BY DEF Followed
    <3>1. Follows(p)
      BY <1>1, <2>12, <2>2 DEF Followed
    <3>2. CASE p # tx.path
      <4>1. active'[p] = active[p] /\ spare'[p] = spare[p]
        BY <2>1, <2>2, <2>12, <3>2 DEF names
      <4>2. /\ Current(p)' = Current(p) /\ (AsBefore(p)' <=> AsBefore(p))
            /\ (Exchanged(p)' <=> Exchanged(p))
        BY <2>12, <2>2, <4>1 DEF Current, AsBefore, Exchanged
      <4> QED BY <1>0, <1>1, <2>12, <2>2, <2>11, <3>1, <3>2, <4>2 DEF Follows, Committing
    <3>3. CASE p = tx.path
      BY <1>0, <1>1, <1>2, <2>1, <2>2, <2>12, <2>11, <3>1, <3>3
      DEF Follows, Committing, AsBefore, Exchanged, Current, Plan, p0, Unchanged, names,
         Carried, PlanSound, Shape
    <3> QED BY <3>2, <3>3
  <2>10. Committing' => saved' = tx'.want
    BY <1>1, <2>12, <2>2 DEF Committing, IInv
  <2> QED BY <1>1, <2>1, <2>12, <2>3, <2>4, <2>6, <2>7, <2>8, <2>9, <2>10, Step
<1>3. CASE /\ DropSpare(p0)
           /\ Goto("rollback")
           /\ Current(p0) = Plan.original
           /\ content[spare[p0]] = Plan.updated
  <2>12. /\ content' = content /\ kept' = kept /\ saved' = saved /\ last' = last
    BY <1>1, <1>3 DEF Reconcile, Succeeds, Fails
  <2>1. /\ DropSpare(p0) /\ Goto("rollback")
    BY <1>1, <1>3 DEF Reconcile, Succeeds, Fails, names, p0, Plan
  <2>2. /\ tx' \in Transactions /\ tx'.pc = "rollback"
        /\ tx'.want = tx.want /\ tx'.plan = tx.plan
        /\ tx'.todo = tx.todo /\ tx'.applied = tx.applied /\ tx'.path = tx.path
    BY <1>1, <2>1, Goes DEF Steps
  <2>3. Own
    BY <1>1, <2>2, <2>12 DEF Own
  <2>4. /\ NamesTyped' /\ Apart' /\ Named \subseteq Named' \cup {spare[tx.path]}
        /\ UNCHANGED <<active, detached, strays>>
        /\ \A q \in Paths : spare'[q] = IF q = tx.path THEN NoFile ELSE spare[q]
    BY <1>1, <2>1, <2>12, DropMoves DEF p0
  <2>5. UserTextSurvives'
    <3>1. content[spare[tx.path]].text = Text(tx.path) /\ Current(tx.path).text = Text(tx.path)
      <4>1. tx.path \in InHand
        BY <1>1
      <4>2. tx.plan[tx.path] # NoPlan /\ tx.plan[tx.path].original # Absent
        BY <1>1, <4>1 DEF Shape
      <4> QED BY <1>1, <1>3, <4>2 DEF PlanSound, Text, p0, Plan
    <3>2. \A e \in kept : e # Absent.text
      BY <1>1 DEF Types, Absent
    <3>3. content[spare[tx.path]].text \in kept =>
            \E i \in Named' : content[i].text = content[spare[tx.path]].text
      BY <1>1, <2>4, <3>1, <3>2 DEF Current, Named
    <3> QED BY <1>1, <2>12, <2>4, <3>3, TextKept
  <2>11. Applied' = Applied /\ InHand' = {}
    BY <1>1, <2>2 DEF Applied, InHand, Between
  <2>6. Shape'
    BY <1>1, <1>3, <2>2, <2>4, <2>12, <1>0, <2>11 DEF Shape, Carried, Forward, Committing,
       Plan, p0, names
  <2>7. Carried'
    BY <1>1, <1>3, <2>2, <2>4, <2>12, <1>0, <2>11 DEF Carried, Shape, InPlace, InSpare, Text,
       Current, Plan, p0, Unchanged, names
  <2>8. DoomedIsSpent'
    BY <1>1, <1>3, <2>2, <2>4, <2>12, <1>0, <2>11 DEF DoomedIsSpent, Shape, Text, InSpare,
       InPlace, Carried, Current, Plan, p0, names
  <2>9. Followed'
    <3> SUFFICES ASSUME NEW p \in Paths, p \notin last'.touched, p \notin last'.unrestored
                 PROVE  Follows(p)'
      BY DEF Followed
    <3>1. Follows(p)
      BY <1>1, <2>12, <2>2 DEF Followed
    <3>2. CASE p # tx.path
      <4>1. active'[p] = active[p] /\ spare'[p] = spare[p]
        BY <2>2, <2>4, <2>12, <3>2 DEF names
      <4>2. /\ Current(p)' = Current(p) /\ (AsBefore(p)' <=> AsBefore(p))
            /\ (Exchanged(p)' <=> Exchanged(p))
        BY <2>12, <2>2, <4>1 DEF Current, AsBefore, Exchanged
      <4> QED BY <1>0, <1>1, <2>12, <2>2, <2>11, <3>1, <3>2, <4>2 DEF Follows, Committing
    <3>3. CASE p = tx.path
      BY <1>0, <1>1, <1>3, <2>2, <2>4, <2>12, <2>11, <3>1, <3>3
      DEF Follows, Committing, AsBefore, Exchanged, Current, Plan, p0, Unchanged, names,
         Carried, PlanSound, Shape
    <3> QED BY <3>2, <3>3
  <2>10. Committing' => saved' = tx'.want
    BY <1>1, <2>12, <2>2 DEF Committing, IInv
  <2> QED BY <1>1, <2>1, <2>12, <2>3, <2>4, <2>5, <2>6, <2>7, <2>8, <2>9, <2>10, Step
<1>4. CASE /\ UNCHANGED names
           /\ Goto("rollback")
           /\ ~(Current(p0) = Plan.updated /\ content[spare[p0]] = Plan.original)
           /\ ~(Current(p0) = Plan.original /\ content[spare[p0]] = Plan.updated)
  <2>12. /\ content' = content /\ kept' = kept /\ saved' = saved /\ last' = last
    BY <1>1, <1>4 DEF Reconcile, Succeeds, Fails
  <2>1. /\ UNCHANGED names /\ Goto("rollback")
    BY <1>1, <1>4 DEF Reconcile, Succeeds, Fails, names, p0, Plan
  <2>2. /\ tx' \in Transactions /\ tx'.pc = "rollback"
        /\ tx'.want = tx.want /\ tx'.plan = tx.plan
        /\ tx'.todo = tx.todo /\ tx'.applied = tx.applied /\ tx'.path = tx.path
    BY <1>1, <2>1, Goes DEF Steps
  <2>3. Own
    BY <1>1, <2>2, <2>12 DEF Own
  <2>4. NamesTyped' /\ Apart' /\ UserTextSurvives'
    BY <1>1, <2>1, <2>12, NothingMoves
  <2>11. Applied' = Applied /\ InHand' = {}
    BY <1>1, <2>2 DEF Applied, InHand, Between
  <2>6. Shape'
    BY <1>1, <1>4, <2>1, <2>2, <2>12, <1>0, <2>11 DEF Shape, Carried, Forward, Committing,
       Plan, p0, names
  <2>7. Carried'
    BY <1>1, <1>4, <2>1, <2>2, <2>12, <1>0, <2>11 DEF Carried, Shape, InPlace, InSpare, Text,
       Current, Plan, p0, Unchanged, names
  <2>8. DoomedIsSpent'
    BY <1>1, <1>4, <2>1, <2>2, <2>12, <1>0, <2>11 DEF DoomedIsSpent, Shape, Text, InSpare,
       InPlace, Carried, Current, Plan, p0, names
  <2>9. Followed'
    <3> SUFFICES ASSUME NEW p \in Paths, p \notin last'.touched, p \notin last'.unrestored
                 PROVE  Follows(p)'
      BY DEF Followed
    <3>1. Follows(p)
      BY <1>1, <2>12, <2>2 DEF Followed
    <3>2. CASE p # tx.path
      <4>1. active'[p] = active[p] /\ spare'[p] = spare[p]
        BY <2>1, <2>2, <2>12, <3>2 DEF names
      <4>2. /\ Current(p)' = Current(p) /\ (AsBefore(p)' <=> AsBefore(p))
            /\ (Exchanged(p)' <=> Exchanged(p))
        BY <2>12, <2>2, <4>1 DEF Current, AsBefore, Exchanged
      <4> QED BY <1>0, <1>1, <2>12, <2>2, <2>11, <3>1, <3>2, <4>2 DEF Follows, Committing
    <3>3. CASE p = tx.path
      BY <1>0, <1>1, <1>4, <2>1, <2>2, <2>12, <2>11, <3>1, <3>3
      DEF Follows, Committing, AsBefore, Exchanged, Current, Plan, p0, Unchanged, names,
         Carried, PlanSound, Shape
    <3> QED BY <3>2, <3>3
  <2>10. Committing' => saved' = tx'.want
    BY <1>1, <2>12, <2>2 DEF Committing, IInv
  <2> QED BY <1>1, <2>1, <2>12, <2>3, <2>4, <2>6, <2>7, <2>8, <2>9, <2>10, Step
<1> QED BY <1>1, <1>2, <1>3, <1>4 DEF Reconcile, Succeeds, Fails, names

LEMMA InstallKeeps == ASSUME IInv, Install PROVE IInv'
<1>1. /\ Types /\ Apart /\ Shape /\ PlanSound /\ Texted /\ UserTextSurvives
      /\ Carried /\ DoomedIsSpent /\ Followed
      /\ InHand = {tx.path}
      /\ tx \in Transactions /\ tx.pc = "install" /\ tx.path \in Paths
      /\ NamesTyped /\ saved \in BOOLEAN /\ last \in Outcomes /\ edits' = edits
      /\ detached = NoFile /\ last.unrestored = {} /\ last' = last /\ content' = content
      /\ kept' = kept /\ saved' = saved
  BY DEF IInv, Types, NamesTyped, Transactions, Install, Succeeds, Fails, bounds, Shape,
     Forward, Committing, Doomed, InHand, Between
<1>0. /\ Applied \subseteq Paths /\ tx.todo \subseteq Paths /\ tx.applied \in Seq(Paths)
      /\ InHand \cap Applied = {} /\ tx.todo \cap (Applied \cup InHand) = {}
      /\ \A e \in kept : e # Absent.text /\ e # 0
  BY <1>1, Places DEF Shape, Types, Absent
<1>2. CASE /\ active[p0] = NoFile
           /\ active' = [active EXCEPT ![p0] = spare[p0]]
           /\ spare' = [spare EXCEPT ![p0] = NoFile]
           /\ UNCHANGED <<detached, strays>>
           /\ tx' = [tx EXCEPT !.pc = "next", !.applied = Append(@, p0)]
  <2>12. /\ content' = content /\ kept' = kept /\ saved' = saved /\ last' = last
    BY <1>1, <1>2 DEF Install, Succeeds, Fails
  <2>1. /\ active' = [active EXCEPT ![p0] = spare[p0]] /\ spare' = [spare EXCEPT ![p0] = NoFile]
        /\ UNCHANGED <<detached, strays>>
    BY <1>1, <1>2 DEF Install, Succeeds, Fails, names, p0, Plan
  <2>2. /\ tx' \in Transactions /\ tx'.pc = "next"
        /\ tx'.want = tx.want /\ tx'.plan = tx.plan
        /\ tx'.todo = tx.todo /\ tx'.applied = Append(tx.applied, tx.path) /\ tx'.path = tx.path
        /\ Applied' = Applied \cup {tx.path}
        /\ \A m, n \in 1..Len(tx'.applied) : tx'.applied[m] = tx'.applied[n] => m = n
    <3>1. tx' = [tx EXCEPT !.pc = "next", !.applied = Append(@, p0)]
      BY <1>1, <1>2
    <3>2. tx'.applied = Append(tx.applied, tx.path)
      BY <1>1, <3>1 DEF Transactions, p0
    <3>3. /\ tx'.applied \in Seq(Paths) /\ Applied' = Applied \cup {tx.path}
          /\ \A m, n \in 1..Len(tx'.applied) : tx'.applied[m] = tx'.applied[n] => m = n
      <4>1. tx.path \notin {tx.applied[n] : n \in 1..Len(tx.applied)}
        BY <1>0, <1>1 DEF Applied
      <4>2. \A m, n \in 1..Len(tx.applied) : tx.applied[m] = tx.applied[n] => m = n
        BY <1>1 DEF Shape
      <4> QED BY <1>0, <1>1, <3>2, <4>1, <4>2, AppliedGrows DEF Applied
    <3> QED BY <1>1, <3>1, <3>3 DEF Transactions, Steps, p0
  <2>3. Own
    BY <1>1, <2>2, <2>12 DEF Own
  <2>4. /\ NamesTyped' /\ Apart' /\ Named \subseteq Named' /\ UNCHANGED <<detached, strays>>
        /\ active[tx.path] = NoFile
        /\ \A q \in Paths : /\ active'[q] = IF q = tx.path THEN spare[tx.path] ELSE active[q]
                            /\ spare'[q] = IF q = tx.path THEN NoFile ELSE spare[q]
    BY <1>1, <1>2, <2>1, <2>12, InstallMoves DEF p0
  <2>5. UserTextSurvives'
    BY <1>1, <2>12, <2>4 DEF UserTextSurvives
  <2>11. Applied' = Applied \cup {tx.path} /\ InHand' = {}
    BY <1>1, <2>2 DEF InHand, Between
  <2>6. Shape'
    BY <1>1, <2>2, <2>4, <2>12, <1>0, <2>11 DEF Shape, Carried, Forward, Committing, Plan, p0,
       names
  <2>7. Carried'
    BY <1>1, <2>2, <2>4, <2>12, <1>0, <2>11 DEF Carried, Shape, InPlace, InSpare, Text,
       Current, Plan, p0, Unchanged, names
  <2>8. DoomedIsSpent'
    BY <1>1, <2>2, <2>4, <2>12, <1>0, <2>11 DEF DoomedIsSpent, Shape, Text, InSpare, InPlace,
       Carried, Current, Plan, p0, names
  <2>9. Followed'
    <3> SUFFICES ASSUME NEW p \in Paths, p \notin last'.touched, p \notin last'.unrestored
                 PROVE  Follows(p)'
      BY DEF Followed
    <3>1. Follows(p)
      BY <1>1, <2>12, <2>2 DEF Followed
    <3>2. CASE p # tx.path
      <4>1. active'[p] = active[p] /\ spare'[p] = spare[p]
        BY <2>2, <2>4, <2>12, <3>2 DEF names
      <4>2. /\ Current(p)' = Current(p) /\ (AsBefore(p)' <=> AsBefore(p))
            /\ (Exchanged(p)' <=> Exchanged(p))
        BY <2>12, <2>2, <4>1 DEF Current, AsBefore, Exchanged
      <4> QED BY <1>0, <1>1, <2>12, <2>2, <2>11, <3>1, <3>2, <4>2 DEF Follows, Committing
    <3>3. CASE p = tx.path
      BY <1>0, <1>1, <2>2, <2>4, <2>12, <2>11, <3>1, <3>3 DEF Follows, Committing, AsBefore,
         Exchanged, Current, Plan, p0, Unchanged, names, Carried, PlanSound, Shape
    <3> QED BY <3>2, <3>3
  <2>10. Committing' => saved' = tx'.want
    BY <1>1, <2>12, <2>2 DEF Committing, IInv
  <2> QED BY <1>1, <2>1, <2>12, <2>3, <2>4, <2>5, <2>6, <2>7, <2>8, <2>9, <2>10, Step
<1>3. CASE /\ active[p0] = NoFile
           /\ active' = [active EXCEPT ![p0] = spare[p0]]
           /\ spare' = [spare EXCEPT ![p0] = NoFile]
           /\ UNCHANGED <<detached, strays>>
           /\ Goto("detach_new")
  <2>12. /\ content' = content /\ kept' = kept /\ saved' = saved /\ last' = last
    BY <1>1, <1>3 DEF Install, Succeeds, Fails
  <2>1. /\ active' = [active EXCEPT ![p0] = spare[p0]] /\ spare' = [spare EXCEPT ![p0] = NoFile]
        /\ UNCHANGED <<detached, strays>> /\ Goto("detach_new")
    BY <1>1, <1>3 DEF Install, Succeeds, Fails, names, p0, Plan
  <2>2. /\ tx' \in Transactions /\ tx'.pc = "detach_new"
        /\ tx'.want = tx.want /\ tx'.plan = tx.plan
        /\ tx'.todo = tx.todo /\ tx'.applied = tx.applied /\ tx'.path = tx.path
    BY <1>1, <2>1, Goes DEF Steps
  <2>3. Own
    BY <1>1, <2>2, <2>12 DEF Own
  <2>4. /\ NamesTyped' /\ Apart' /\ Named \subseteq Named' /\ UNCHANGED <<detached, strays>>
        /\ active[tx.path] = NoFile
        /\ \A q \in Paths : /\ active'[q] = IF q = tx.path THEN spare[tx.path] ELSE active[q]
                            /\ spare'[q] = IF q = tx.path THEN NoFile ELSE spare[q]
    BY <1>1, <1>3, <2>1, <2>12, InstallMoves DEF p0
  <2>5. UserTextSurvives'
    BY <1>1, <2>12, <2>4 DEF UserTextSurvives
  <2>11. Applied' = Applied /\ InHand' = {tx.path}
    BY <1>1, <2>2 DEF Applied, InHand, Between
  <2>6. Shape'
    BY <1>1, <2>2, <2>4, <2>12, <1>0, <2>11 DEF Shape, Carried, Forward, Committing, Plan, p0,
       names
  <2>7. Carried'
    BY <1>1, <2>2, <2>4, <2>12, <1>0, <2>11 DEF Carried, Shape, InPlace, InSpare, Text,
       Current, Plan, p0, Unchanged, names
  <2>8. DoomedIsSpent'
    BY <1>1, <2>2, <2>4, <2>12, <1>0, <2>11 DEF DoomedIsSpent, Shape, Text, InSpare, InPlace,
       Carried, Current, Plan, p0, names
  <2>9. Followed'
    <3> SUFFICES ASSUME NEW p \in Paths, p \notin last'.touched, p \notin last'.unrestored
                 PROVE  Follows(p)'
      BY DEF Followed
    <3>1. Follows(p)
      BY <1>1, <2>12, <2>2 DEF Followed
    <3>2. CASE p # tx.path
      <4>1. active'[p] = active[p] /\ spare'[p] = spare[p]
        BY <2>2, <2>4, <2>12, <3>2 DEF names
      <4>2. /\ Current(p)' = Current(p) /\ (AsBefore(p)' <=> AsBefore(p))
            /\ (Exchanged(p)' <=> Exchanged(p))
        BY <2>12, <2>2, <4>1 DEF Current, AsBefore, Exchanged
      <4> QED BY <1>0, <1>1, <2>12, <2>2, <2>11, <3>1, <3>2, <4>2 DEF Follows, Committing
    <3>3. CASE p = tx.path
      BY <1>0, <1>1, <2>2, <2>4, <2>12, <2>11, <3>1, <3>3 DEF Follows, Committing, AsBefore,
         Exchanged, Current, Plan, p0, Unchanged, names, Carried, PlanSound, Shape
    <3> QED BY <3>2, <3>3
  <2>10. Committing' => saved' = tx'.want
    BY <1>1, <2>12, <2>2 DEF Committing, IInv
  <2> QED BY <1>1, <2>1, <2>12, <2>3, <2>4, <2>5, <2>6, <2>7, <2>8, <2>9, <2>10, Step
<1>4. CASE DropSpare(p0) /\ Goto("rollback")
  <2>12. /\ content' = content /\ kept' = kept /\ saved' = saved /\ last' = last
    BY <1>1, <1>4 DEF Install, Succeeds, Fails
  <2>1. /\ DropSpare(p0) /\ Goto("rollback")
    BY <1>1, <1>4 DEF Install, Succeeds, Fails, names, p0, Plan
  <2>2. /\ tx' \in Transactions /\ tx'.pc = "rollback"
        /\ tx'.want = tx.want /\ tx'.plan = tx.plan
        /\ tx'.todo = tx.todo /\ tx'.applied = tx.applied /\ tx'.path = tx.path
    BY <1>1, <2>1, Goes DEF Steps
  <2>3. Own
    BY <1>1, <2>2, <2>12 DEF Own
  <2>4. /\ NamesTyped' /\ Apart' /\ Named \subseteq Named' \cup {spare[tx.path]}
        /\ UNCHANGED <<active, detached, strays>>
        /\ \A q \in Paths : spare'[q] = IF q = tx.path THEN NoFile ELSE spare[q]
    BY <1>1, <2>1, <2>12, DropMoves DEF p0
  <2>5. UserTextSurvives'
    <3>1. content[spare[tx.path]].text \notin kept
      <4>1. content[spare[tx.path]] = tx.plan[tx.path].updated
        BY <1>1 DEF Carried
      <4>2. tx.path \in InHand
        BY <1>1
      <4>3. tx.plan[tx.path] # NoPlan /\ tx.plan[tx.path].original = Absent
        BY <1>1, <4>2 DEF Shape
      <4> QED BY <1>1, <4>1, <4>3 DEF PlanSound, Types
    <3> QED BY <1>1, <2>12, <2>4, <3>1, TextKept
  <2>11. Applied' = Applied /\ InHand' = {}
    BY <1>1, <2>2 DEF Applied, InHand, Between
  <2>6. Shape'
    BY <1>1, <1>4, <2>2, <2>4, <2>12, <1>0, <2>11 DEF Shape, Carried, Forward, Committing,
       Plan, p0, names
  <2>7. Carried'
    BY <1>1, <1>4, <2>2, <2>4, <2>12, <1>0, <2>11 DEF Carried, Shape, InPlace, InSpare, Text,
       Current, Plan, p0, Unchanged, names
  <2>8. DoomedIsSpent'
    BY <1>1, <1>4, <2>2, <2>4, <2>12, <1>0, <2>11 DEF DoomedIsSpent, Shape, Text, InSpare,
       InPlace, Carried, Current, Plan, p0, names
  <2>9. Followed'
    <3> SUFFICES ASSUME NEW p \in Paths, p \notin last'.touched, p \notin last'.unrestored
                 PROVE  Follows(p)'
      BY DEF Followed
    <3>1. Follows(p)
      BY <1>1, <2>12, <2>2 DEF Followed
    <3>2. CASE p # tx.path
      <4>1. active'[p] = active[p] /\ spare'[p] = spare[p]
        BY <2>2, <2>4, <2>12, <3>2 DEF names
      <4>2. /\ Current(p)' = Current(p) /\ (AsBefore(p)' <=> AsBefore(p))
            /\ (Exchanged(p)' <=> Exchanged(p))
        BY <2>12, <2>2, <4>1 DEF Current, AsBefore, Exchanged
      <4> QED BY <1>0, <1>1, <2>12, <2>2, <2>11, <3>1, <3>2, <4>2 DEF Follows, Committing
    <3>3. CASE p = tx.path
      BY <1>0, <1>1, <1>4, <2>2, <2>4, <2>12, <2>11, <3>1, <3>3
      DEF Follows, Committing, AsBefore, Exchanged, Current, Plan, p0, Unchanged, names,
         Carried, PlanSound, Shape
    <3> QED BY <3>2, <3>3
  <2>10. Committing' => saved' = tx'.want
    BY <1>1, <2>12, <2>2 DEF Committing, IInv
  <2> QED BY <1>1, <2>1, <2>12, <2>3, <2>4, <2>5, <2>6, <2>7, <2>8, <2>9, <2>10, Step
<1> QED BY <1>1, <1>2, <1>3, <1>4 DEF Install, Succeeds, Fails, DropSpare, names

LEMMA VerifyExchangeKeeps == ASSUME IInv, VerifyExchange PROVE IInv'
<1>1. /\ Types /\ Apart /\ Shape /\ PlanSound /\ Texted /\ UserTextSurvives
      /\ Carried /\ DoomedIsSpent /\ Followed
      /\ InHand = {tx.path}
      /\ tx \in Transactions /\ tx.pc = "verify" /\ tx.path \in Paths
      /\ NamesTyped /\ saved \in BOOLEAN /\ last \in Outcomes /\ edits' = edits
      /\ detached = NoFile /\ last.unrestored = {} /\ last' = last /\ content' = content
      /\ kept' = kept /\ saved' = saved /\ UNCHANGED names
  BY DEF IInv, Types, NamesTyped, Transactions, VerifyExchange, Succeeds, Fails, bounds, Shape,
     Forward, Committing, Doomed, InHand, Between
<1>0. /\ Applied \subseteq Paths /\ tx.todo \subseteq Paths /\ tx.applied \in Seq(Paths)
      /\ InHand \cap Applied = {} /\ tx.todo \cap (Applied \cup InHand) = {}
      /\ \A e \in kept : e # Absent.text /\ e # 0
  BY <1>1, Places DEF Shape, Types, Absent
<1>2. CASE /\ content[spare[p0]] = Plan.original
           /\ tx' = [tx EXCEPT !.pc = "next", !.applied = Append(@, p0)]
  <2>12. /\ content' = content /\ kept' = kept /\ saved' = saved /\ last' = last
    BY <1>1, <1>2 DEF VerifyExchange, Succeeds, Fails
  <2>1. /\ UNCHANGED names
    BY <1>1, <1>2 DEF VerifyExchange, Succeeds, Fails, names, p0, Plan
  <2>2. /\ tx' \in Transactions /\ tx'.pc = "next"
        /\ tx'.want = tx.want /\ tx'.plan = tx.plan
        /\ tx'.todo = tx.todo /\ tx'.applied = Append(tx.applied, tx.path) /\ tx'.path = tx.path
        /\ Applied' = Applied \cup {tx.path}
        /\ \A m, n \in 1..Len(tx'.applied) : tx'.applied[m] = tx'.applied[n] => m = n
    <3>1. tx' = [tx EXCEPT !.pc = "next", !.applied = Append(@, p0)]
      BY <1>1, <1>2
    <3>2. tx'.applied = Append(tx.applied, tx.path)
      BY <1>1, <3>1 DEF Transactions, p0
    <3>3. /\ tx'.applied \in Seq(Paths) /\ Applied' = Applied \cup {tx.path}
          /\ \A m, n \in 1..Len(tx'.applied) : tx'.applied[m] = tx'.applied[n] => m = n
      <4>1. tx.path \notin {tx.applied[n] : n \in 1..Len(tx.applied)}
        BY <1>0, <1>1 DEF Applied
      <4>2. \A m, n \in 1..Len(tx.applied) : tx.applied[m] = tx.applied[n] => m = n
        BY <1>1 DEF Shape
      <4> QED BY <1>0, <1>1, <3>2, <4>1, <4>2, AppliedGrows DEF Applied
    <3> QED BY <1>1, <3>1, <3>3 DEF Transactions, Steps, p0
  <2>3. Own
    BY <1>1, <2>2, <2>12 DEF Own
  <2>4. NamesTyped' /\ Apart' /\ UserTextSurvives'
    BY <1>1, <2>1, <2>12, NothingMoves
  <2>11. Applied' = Applied \cup {tx.path} /\ InHand' = {}
    BY <1>1, <2>2 DEF InHand, Between
  <2>6. Shape'
    BY <1>1, <1>2, <2>1, <2>2, <2>12, <1>0, <2>11 DEF Shape, Carried, Forward, Committing,
       Plan, p0, names
  <2>7. Carried'
    BY <1>1, <1>2, <2>1, <2>2, <2>12, <1>0, <2>11 DEF Carried, Shape, InPlace, InSpare, Text,
       Current, Plan, p0, Unchanged, names
  <2>8. DoomedIsSpent'
    BY <1>1, <1>2, <2>1, <2>2, <2>12, <1>0, <2>11 DEF DoomedIsSpent, Shape, Text, InSpare,
       InPlace, Carried, Current, Plan, p0, names
  <2>9. Followed'
    <3> SUFFICES ASSUME NEW p \in Paths, p \notin last'.touched, p \notin last'.unrestored
                 PROVE  Follows(p)'
      BY DEF Followed
    <3>1. Follows(p)
      BY <1>1, <2>12, <2>2 DEF Followed
    <3>2. CASE p # tx.path
      <4>1. active'[p] = active[p] /\ spare'[p] = spare[p]
        BY <2>1, <2>2, <2>12, <3>2 DEF names
      <4>2. /\ Current(p)' = Current(p) /\ (AsBefore(p)' <=> AsBefore(p))
            /\ (Exchanged(p)' <=> Exchanged(p))
        BY <2>12, <2>2, <4>1 DEF Current, AsBefore, Exchanged
      <4> QED BY <1>0, <1>1, <2>12, <2>2, <2>11, <3>1, <3>2, <4>2 DEF Follows, Committing
    <3>3. CASE p = tx.path
      BY <1>0, <1>1, <1>2, <2>1, <2>2, <2>12, <2>11, <3>1, <3>3
      DEF Follows, Committing, AsBefore, Exchanged, Current, Plan, p0, Unchanged, names,
         Carried, PlanSound, Shape
    <3> QED BY <3>2, <3>3
  <2>10. Committing' => saved' = tx'.want
    BY <1>1, <2>12, <2>2 DEF Committing, IInv
  <2> QED BY <1>1, <2>1, <2>12, <2>3, <2>4, <2>6, <2>7, <2>8, <2>9, <2>10, Step
<1>3. CASE Goto("swap_back")
  <2>12. /\ content' = content /\ kept' = kept /\ saved' = saved /\ last' = last
    BY <1>1, <1>3 DEF VerifyExchange, Succeeds, Fails
  <2>1. /\ UNCHANGED names /\ Goto("swap_back")
    BY <1>1, <1>3 DEF VerifyExchange, Succeeds, Fails, names, p0, Plan
  <2>2. /\ tx' \in Transactions /\ tx'.pc = "swap_back"
        /\ tx'.want = tx.want /\ tx'.plan = tx.plan
        /\ tx'.todo = tx.todo /\ tx'.applied = tx.applied /\ tx'.path = tx.path
    BY <1>1, <2>1, Goes DEF Steps
  <2>3. Own
    BY <1>1, <2>2, <2>12 DEF Own
  <2>4. NamesTyped' /\ Apart' /\ UserTextSurvives'
    BY <1>1, <2>1, <2>12, NothingMoves
  <2>11. Applied' = Applied /\ InHand' = {tx.path}
    BY <1>1, <2>2 DEF Applied, InHand, Between
  <2>6. Shape'
    BY <1>1, <1>3, <2>1, <2>2, <2>12, <1>0, <2>11 DEF Shape, Carried, Forward, Committing,
       Plan, p0, names
  <2>7. Carried'
    BY <1>1, <1>3, <2>1, <2>2, <2>12, <1>0, <2>11 DEF Carried, Shape, InPlace, InSpare, Text,
       Current, Plan, p0, Unchanged, names
  <2>8. DoomedIsSpent'
    BY <1>1, <1>3, <2>1, <2>2, <2>12, <1>0, <2>11 DEF DoomedIsSpent, Shape, Text, InSpare,
       InPlace, Carried, Current, Plan, p0, names
  <2>9. Followed'
    <3> SUFFICES ASSUME NEW p \in Paths, p \notin last'.touched, p \notin last'.unrestored
                 PROVE  Follows(p)'
      BY DEF Followed
    <3>1. Follows(p)
      BY <1>1, <2>12, <2>2 DEF Followed
    <3>2. CASE p # tx.path
      <4>1. active'[p] = active[p] /\ spare'[p] = spare[p]
        BY <2>1, <2>2, <2>12, <3>2 DEF names
      <4>2. /\ Current(p)' = Current(p) /\ (AsBefore(p)' <=> AsBefore(p))
            /\ (Exchanged(p)' <=> Exchanged(p))
        BY <2>12, <2>2, <4>1 DEF Current, AsBefore, Exchanged
      <4> QED BY <1>0, <1>1, <2>12, <2>2, <2>11, <3>1, <3>2, <4>2 DEF Follows, Committing
    <3>3. CASE p = tx.path
      BY <1>0, <1>1, <1>3, <2>1, <2>2, <2>12, <2>11, <3>1, <3>3
      DEF Follows, Committing, AsBefore, Exchanged, Current, Plan, p0, Unchanged, names,
         Carried, PlanSound, Shape
    <3> QED BY <3>2, <3>3
  <2>10. Committing' => saved' = tx'.want
    BY <1>1, <2>12, <2>2 DEF Committing, IInv
  <2> QED BY <1>1, <2>1, <2>12, <2>3, <2>4, <2>6, <2>7, <2>8, <2>9, <2>10, Step
<1> QED BY <1>1, <1>2, <1>3 DEF VerifyExchange, Succeeds, Fails, names

LEMMA CheckAllKeeps == ASSUME IInv, CheckAll PROVE IInv'
<1>1. /\ Types /\ Apart /\ Shape /\ PlanSound /\ Texted /\ UserTextSurvives
      /\ Carried /\ DoomedIsSpent /\ Followed /\ InHand = {} /\ Applied = {}
      /\ tx \in Transactions /\ tx.pc = "check_all" /\ tx.path \in Paths
      /\ NamesTyped /\ saved \in BOOLEAN /\ last \in Outcomes /\ edits' = edits
      /\ content' = content /\ kept' = kept /\ saved' = saved /\ active' = active
  BY DEF IInv, Types, NamesTyped, Transactions, CheckAll, bounds, names, Shape, InHand, Between
<1>0. /\ Applied \subseteq Paths /\ tx.todo \subseteq Paths /\ tx.applied \in Seq(Paths)
      /\ InHand \cap Applied = {} /\ tx.todo \cap (Applied \cup InHand) = {}
      /\ \A e \in kept : e # Absent.text /\ e # 0
  BY <1>1, Places DEF Shape, Types, Absent
<1>2. CASE Goto("next") /\ UNCHANGED names /\ last' = last
  <2>12. /\ content' = content /\ kept' = kept /\ saved' = saved /\ last' = last
    BY <1>1, <1>2 DEF CheckAll, Succeeds, Fails
  <2>1. /\ UNCHANGED names /\ Goto("next")
    BY <1>1, <1>2 DEF CheckAll, Succeeds, Fails, names, p0, Plan
  <2>2. /\ tx' \in Transactions /\ tx'.pc = "next"
        /\ tx'.want = tx.want /\ tx'.plan = tx.plan
        /\ tx'.todo = tx.todo /\ tx'.applied = tx.applied /\ tx'.path = tx.path
    BY <1>1, <2>1, Goes DEF Steps
  <2>3. Own
    BY <1>1, <2>2, <2>12 DEF Own
  <2>4. NamesTyped' /\ Apart' /\ UserTextSurvives'
    BY <1>1, <2>1, <2>12, NothingMoves
  <2>11. Applied' = Applied /\ InHand' = {}
    BY <1>1, <2>2 DEF Applied, InHand, Between
  <2>6. Shape'
    BY <1>1, <1>2, <2>1, <2>2, <2>12, <1>0, <2>11 DEF Shape, Carried, Forward, Committing,
       Plan, p0, names
  <2>7. Carried'
    BY <1>1, <1>2, <2>1, <2>2, <2>12, <1>0, <2>11 DEF Carried, Shape, InPlace, InSpare, Text,
       Current, Plan, p0, Unchanged, names
  <2>8. DoomedIsSpent'
    BY <1>1, <1>2, <2>1, <2>2, <2>12, <1>0, <2>11 DEF DoomedIsSpent, Shape, Text, InSpare,
       InPlace, Carried, Current, Plan, p0, names
  <2>9. Followed'
    <3> SUFFICES ASSUME NEW p \in Paths, p \notin last'.touched, p \notin last'.unrestored
                 PROVE  Follows(p)'
      BY DEF Followed
    <3>1. Follows(p)
      BY <1>1, <2>12, <2>2 DEF Followed
    <3>2. CASE p # tx.path
      <4>1. active'[p] = active[p] /\ spare'[p] = spare[p]
        BY <2>1, <2>2, <2>12, <3>2 DEF names
      <4>2. /\ Current(p)' = Current(p) /\ (AsBefore(p)' <=> AsBefore(p))
            /\ (Exchanged(p)' <=> Exchanged(p))
        BY <2>12, <2>2, <4>1 DEF Current, AsBefore, Exchanged
      <4> QED BY <1>0, <1>1, <2>12, <2>2, <2>11, <3>1, <3>2, <4>2 DEF Follows, Committing
    <3>3. CASE p = tx.path
      BY <1>0, <1>1, <1>2, <2>1, <2>2, <2>12, <2>11, <3>1, <3>3
      DEF Follows, Committing, AsBefore, Exchanged, Current, Plan, p0, Unchanged, names,
         Carried, PlanSound, Shape
    <3> QED BY <3>2, <3>3
  <2>10. Committing' => saved' = tx'.want
    BY <1>1, <2>12, <2>2 DEF Committing, IInv
  <2> QED BY <1>1, <2>1, <2>12, <2>3, <2>4, <2>6, <2>7, <2>8, <2>9, <2>10, Step
<1>3. CASE Return("error")
  <2>1. tx' = Idle /\ last' = [last EXCEPT !.outcome = "error"]
    BY <1>3 DEF Return
  <2>2. FailedSetupIsUndone'
    <3> SUFFICES ASSUME NEW p \in Paths, p \notin last'.touched, p \notin last'.unrestored
                 PROVE  Current(p)' = last'.before[p]
      BY DEF FailedSetupIsUndone
    <3>1. last'.touched = last.touched /\ last'.unrestored = last.unrestored /\ last'.before = last.before
      BY <1>1, <2>1 DEF Outcomes
    <3>2. Follows(p)
      BY <1>1, <3>1 DEF Followed
    <3>3. AsBefore(p)
      BY <1>1, <3>2 DEF Follows, Committing
    <3> QED BY <1>1, <3>1, <3>3 DEF AsBefore, Current
  <2>3. HooksFollowSetting'
    BY <1>1, <2>1 DEF HooksFollowSetting, Outcomes
  <2> QED BY <1>1, <1>3, <2>2, <2>3, Returned
<1> QED BY <1>1, <1>2, <1>3 DEF CheckAll, names

LEMMA NextPlanKeeps == ASSUME IInv, NextPlan PROVE IInv'
<1>1. /\ Types /\ Apart /\ Shape /\ PlanSound /\ Texted /\ UserTextSurvives
      /\ Carried /\ DoomedIsSpent /\ Followed
      /\ InHand = {}
      /\ tx \in Transactions /\ tx.pc = "next" /\ tx.path \in Paths
      /\ NamesTyped /\ saved \in BOOLEAN /\ last \in Outcomes /\ edits' = edits
      /\ detached = NoFile /\ last.unrestored = {} /\ content' = content /\ kept' = kept
      /\ saved' = saved /\ last' = last /\ UNCHANGED names
  BY DEF IInv, Types, NamesTyped, Transactions, NextPlan, Succeeds, Fails, bounds, Shape,
     Forward, Committing, Doomed, InHand, Between
<1>0. /\ Applied \subseteq Paths /\ tx.todo \subseteq Paths /\ tx.applied \in Seq(Paths)
      /\ InHand \cap Applied = {} /\ tx.todo \cap (Applied \cup InHand) = {}
      /\ \A e \in kept : e # Absent.text /\ e # 0
  BY <1>1, Places DEF Shape, Types, Absent
<1>2. CASE tx.todo = {} /\ Goto("save")
  <2>12. /\ content' = content /\ kept' = kept /\ saved' = saved /\ last' = last
    BY <1>1, <1>2 DEF NextPlan, Succeeds, Fails
  <2>1. /\ UNCHANGED names /\ Goto("save")
    BY <1>1, <1>2 DEF NextPlan, Succeeds, Fails, names, p0, Plan
  <2>2. /\ tx' \in Transactions /\ tx'.pc = "save"
        /\ tx'.want = tx.want /\ tx'.plan = tx.plan
        /\ tx'.todo = tx.todo /\ tx'.applied = tx.applied /\ tx'.path = tx.path
    BY <1>1, <2>1, Goes DEF Steps
  <2>3. Own
    BY <1>1, <2>2, <2>12 DEF Own
  <2>4. NamesTyped' /\ Apart' /\ UserTextSurvives'
    BY <1>1, <2>1, <2>12, NothingMoves
  <2>11. Applied' = Applied /\ InHand' = {}
    BY <1>1, <2>2 DEF Applied, InHand, Between
  <2>6. Shape'
    BY <1>1, <1>2, <2>1, <2>2, <2>12, <1>0, <2>11 DEF Shape, Carried, Forward, Committing,
       Plan, p0, names
  <2>7. Carried'
    BY <1>1, <1>2, <2>1, <2>2, <2>12, <1>0, <2>11 DEF Carried, Shape, InPlace, InSpare, Text,
       Current, Plan, p0, Unchanged, names
  <2>8. DoomedIsSpent'
    BY <1>1, <1>2, <2>1, <2>2, <2>12, <1>0, <2>11 DEF DoomedIsSpent, Shape, Text, InSpare,
       InPlace, Carried, Current, Plan, p0, names
  <2>9. Followed'
    <3> SUFFICES ASSUME NEW p \in Paths, p \notin last'.touched, p \notin last'.unrestored
                 PROVE  Follows(p)'
      BY DEF Followed
    <3>1. Follows(p)
      BY <1>1, <2>12, <2>2 DEF Followed
    <3>2. CASE p # tx.path
      <4>1. active'[p] = active[p] /\ spare'[p] = spare[p]
        BY <2>1, <2>2, <2>12, <3>2 DEF names
      <4>2. /\ Current(p)' = Current(p) /\ (AsBefore(p)' <=> AsBefore(p))
            /\ (Exchanged(p)' <=> Exchanged(p))
        BY <2>12, <2>2, <4>1 DEF Current, AsBefore, Exchanged
      <4> QED BY <1>0, <1>1, <2>12, <2>2, <2>11, <3>1, <3>2, <4>2 DEF Follows, Committing
    <3>3. CASE p = tx.path
      BY <1>0, <1>1, <1>2, <2>1, <2>2, <2>12, <2>11, <3>1, <3>3
      DEF Follows, Committing, AsBefore, Exchanged, Current, Plan, p0, Unchanged, names,
         Carried, PlanSound, Shape
    <3> QED BY <3>2, <3>3
  <2>10. Committing' => saved' = tx'.want
    BY <1>1, <2>12, <2>2 DEF Committing, IInv
  <2> QED BY <1>1, <2>1, <2>12, <2>3, <2>4, <2>6, <2>7, <2>8, <2>9, <2>10, Step
<1>3. ASSUME NEW q \in tx.todo,
             tx' = [tx EXCEPT !.pc = "stage", !.path = q, !.todo = @ \ {q}]
      PROVE  IInv'
  <2>12. /\ content' = content /\ kept' = kept /\ saved' = saved /\ last' = last
         /\ UNCHANGED names /\ q \in Paths
    BY <1>0, <1>1
  <2>2. /\ tx' \in Transactions /\ tx'.pc = "stage"
        /\ tx'.want = tx.want /\ tx'.plan = tx.plan
        /\ tx'.todo = tx.todo \ {q} /\ tx'.applied = tx.applied /\ tx'.path = q
    BY <1>1, <1>3, <2>12 DEF Transactions, Steps
  <2>3. Own
    BY <1>1, <2>2, <2>12 DEF Own
  <2>4. NamesTyped' /\ Apart' /\ UserTextSurvives'
    BY <1>1, <2>12, NothingMoves
  <2>11. Applied' = Applied /\ InHand' = {q}
    BY <1>1, <2>2 DEF Applied, InHand, Between
  <2>6. Shape'
    BY <1>0, <1>1, <2>2, <2>11, <2>12 DEF Shape, Forward, Committing, names
  <2>7. Carried'
    BY <1>0, <1>1, <2>2, <2>11, <2>12 DEF Carried, InPlace, InSpare, Text, Current, names
  <2>8. DoomedIsSpent'
    BY <2>2 DEF DoomedIsSpent
  <2>9. Followed'
    <3> SUFFICES ASSUME NEW p \in Paths, p \notin last'.touched, p \notin last'.unrestored
                 PROVE  Follows(p)'
      BY DEF Followed
    <3>1. Follows(p)
      BY <1>1, <2>12 DEF Followed
    <3>2. /\ Current(p)' = Current(p) /\ (AsBefore(p)' <=> AsBefore(p))
          /\ (Exchanged(p)' <=> Exchanged(p))
      BY <2>2, <2>12 DEF Current, AsBefore, Exchanged, names
    <3> QED BY <1>0, <1>1, <2>2, <2>11, <2>12, <3>1, <3>2 DEF Follows, Committing
  <2>10. ~Committing'
    BY <2>2 DEF Committing
  <2> QED BY <1>1, <2>12, <2>3, <2>4, <2>6, <2>7, <2>8, <2>9, <2>10, Step
<1> QED BY <1>1, <1>2, <1>3 DEF NextPlan

LEMMA StageKeeps == ASSUME IInv, Stage PROVE IInv'
<1>1. /\ Types /\ Apart /\ Shape /\ PlanSound /\ Texted /\ UserTextSurvives
      /\ Carried /\ DoomedIsSpent /\ Followed
      /\ InHand = {tx.path}
      /\ tx \in Transactions /\ tx.pc = "stage" /\ tx.path \in Paths
      /\ NamesTyped /\ saved \in BOOLEAN /\ last \in Outcomes /\ edits' = edits
      /\ detached = NoFile /\ last.unrestored = {} /\ kept' = kept /\ saved' = saved
      /\ last' = last
  BY DEF IInv, Types, NamesTyped, Transactions, Stage, Succeeds, Fails, bounds, Shape, Forward,
     Committing, Doomed, InHand, Between
<1>0. /\ Applied \subseteq Paths /\ tx.todo \subseteq Paths /\ tx.applied \in Seq(Paths)
      /\ InHand \cap Applied = {} /\ tx.todo \cap (Applied \cup InHand) = {}
      /\ \A e \in kept : e # Absent.text /\ e # 0
  BY <1>1, Places DEF Shape, Types, Absent
<1>2. CASE Goto("rollback") /\ UNCHANGED names /\ content' = content
  <2>12. /\ content' = content /\ kept' = kept /\ saved' = saved /\ last' = last
    BY <1>1, <1>2 DEF Stage, Succeeds, Fails
  <2>1. /\ UNCHANGED names /\ Goto("rollback")
    BY <1>1, <1>2 DEF Stage, Succeeds, Fails, names, p0, Plan
  <2>2. /\ tx' \in Transactions /\ tx'.pc = "rollback"
        /\ tx'.want = tx.want /\ tx'.plan = tx.plan
        /\ tx'.todo = tx.todo /\ tx'.applied = tx.applied /\ tx'.path = tx.path
    BY <1>1, <2>1, Goes DEF Steps
  <2>3. Own
    BY <1>1, <2>2, <2>12 DEF Own
  <2>4. NamesTyped' /\ Apart' /\ UserTextSurvives'
    BY <1>1, <2>1, <2>12, NothingMoves
  <2>11. Applied' = Applied /\ InHand' = {}
    BY <1>1, <2>2 DEF Applied, InHand, Between
  <2>6. Shape'
    BY <1>1, <1>2, <2>1, <2>2, <2>12, <1>0, <2>11 DEF Shape, Carried, Forward, Committing,
       Plan, p0, names
  <2>7. Carried'
    BY <1>1, <1>2, <2>1, <2>2, <2>12, <1>0, <2>11 DEF Carried, Shape, InPlace, InSpare, Text,
       Current, Plan, p0, Unchanged, names
  <2>8. DoomedIsSpent'
    BY <1>1, <1>2, <2>1, <2>2, <2>12, <1>0, <2>11 DEF DoomedIsSpent, Shape, Text, InSpare,
       InPlace, Carried, Current, Plan, p0, names
  <2>9. Followed'
    <3> SUFFICES ASSUME NEW p \in Paths, p \notin last'.touched, p \notin last'.unrestored
                 PROVE  Follows(p)'
      BY DEF Followed
    <3>1. Follows(p)
      BY <1>1, <2>12, <2>2 DEF Followed
    <3>2. CASE p # tx.path
      <4>1. active'[p] = active[p] /\ spare'[p] = spare[p]
        BY <2>1, <2>2, <2>12, <3>2 DEF names
      <4>2. /\ Current(p)' = Current(p) /\ (AsBefore(p)' <=> AsBefore(p))
            /\ (Exchanged(p)' <=> Exchanged(p))
        BY <2>12, <2>2, <4>1 DEF Current, AsBefore, Exchanged
      <4> QED BY <1>0, <1>1, <2>12, <2>2, <2>11, <3>1, <3>2, <4>2 DEF Follows, Committing
    <3>3. CASE p = tx.path
      BY <1>0, <1>1, <1>2, <2>1, <2>2, <2>12, <2>11, <3>1, <3>3
      DEF Follows, Committing, AsBefore, Exchanged, Current, Plan, p0, Unchanged, names,
         Carried, PlanSound, Shape
    <3> QED BY <3>2, <3>3
  <2>10. Committing' => saved' = tx'.want
    BY <1>1, <2>12, <2>2 DEF Committing, IInv
  <2> QED BY <1>1, <2>1, <2>12, <2>3, <2>4, <2>6, <2>7, <2>8, <2>9, <2>10, Step
<1>3. CASE /\ Unchanged(p0) /\ Goto("compare")
           /\ content' = Append(content, Plan.updated)
           /\ spare' = [spare EXCEPT ![p0] = Len(content) + 1]
           /\ UNCHANGED <<active, detached, strays>>
  <2> DEFINE n == Len(content) + 1
  <2>1. /\ tx.path \in InHand /\ tx.plan[tx.path] # NoPlan
        /\ tx.plan[tx.path].original = last.before[tx.path]
        /\ tx.plan[tx.path].updated \in Contents
        /\ tx.plan[tx.path].updated.text =
              IF tx.plan[tx.path].original = Absent THEN 0 ELSE tx.plan[tx.path].original.text
        /\ Current(tx.path) = tx.plan[tx.path].original /\ spare[tx.path] = NoFile
    BY <1>0, <1>1, <1>3 DEF Shape, PlanSound, Unchanged, p0
  <2>2. /\ content' \in Seq(Contents) /\ content'[n] = tx.plan[tx.path].updated
        /\ \A i \in Inodes : i \in Inodes' /\ content'[i] = content[i]
        /\ Inodes' = Inodes \cup {n} /\ n \notin Inodes /\ n # NoFile
    BY <1>1, <1>3, <2>1, Appended DEF Types, Plan, p0, NoFile, Inodes
  <2>3. /\ tx' \in Transactions /\ tx'.pc = "compare"
        /\ tx'.want = tx.want /\ tx'.plan = tx.plan
        /\ tx'.todo = tx.todo /\ tx'.applied = tx.applied /\ tx'.path = tx.path
    BY <1>1, <1>3, Goes DEF Steps
  <2>4. /\ \A q \in Paths : spare'[q] = IF q = tx.path THEN n ELSE spare[q]
        /\ active' = active /\ detached' = detached /\ strays' = strays
    BY <1>1, <1>3 DEF NamesTyped, p0
  <2> HIDE DEF n
  <2>5. /\ spare' \in [Paths -> Inodes' \cup {NoFile}]
        /\ active' \in [Paths -> Inodes' \cup {NoFile}]
        /\ detached' \in Inodes' \cup {NoFile} /\ strays' \subseteq Inodes'
    BY <1>1, <1>3, <2>2, <2>4 DEF NamesTyped, n
  <2>6. Types'
    BY <1>1, <2>2, <2>3, <2>5 DEF Types, Inodes
  <2>7. Apart'
    BY <1>1, <1>3, <2>2, <2>4 DEF Apart, NamesTyped
  <2>8. Applied' = Applied /\ InHand' = {tx.path}
    BY <1>1, <2>3 DEF Applied, InHand, Between
  <2>9. Shape'
    BY <1>0, <1>1, <2>1, <2>2, <2>3, <2>4, <2>8 DEF Shape, Forward, Committing
  <2>10. PlanSound'
    BY <1>1, <2>3 DEF PlanSound
  <2>11. Texted'
    BY <1>1, <2>1, <2>2, <2>3 DEF Texted, Types
  <2>12. UserTextSurvives'
    <3>1. \A i \in Named : i \in Named'
      BY <1>1, <1>3, <2>1, <2>4 DEF Named
    <3>2. Named \subseteq Inodes
      BY <1>1 DEF Named, NamesTyped
    <3> QED BY <1>1, <2>2, <3>1, <3>2 DEF UserTextSurvives
  <2>13. \A p \in Paths :
            /\ active'[p] = active[p] /\ (active[p] # NoFile => content'[active[p]] = content[active[p]])
            /\ (spare[p] # NoFile => spare'[p] = spare[p] /\ content'[spare[p]] = content[spare[p]])
    BY <1>1, <2>1, <2>2, <2>4 DEF NamesTyped
  <2>14. Carried'
    BY <1>0, <1>1, <2>1, <2>2, <2>3, <2>4, <2>8, <2>13 DEF Carried, InPlace, InSpare, Text,
       Current
  <2>15. DoomedIsSpent' /\ ~Committing'
    BY <2>3 DEF DoomedIsSpent, Committing
  <2>16. Followed'
    <3> SUFFICES ASSUME NEW p \in Paths, p \notin last'.touched, p \notin last'.unrestored
                 PROVE  Follows(p)'
      BY DEF Followed
    <3>1. Follows(p)
      BY <1>1 DEF Followed
    <3>2. AsBefore(p)' <=> AsBefore(p)
      BY <1>1, <2>3, <2>13 DEF AsBefore, Current
    <3>3. Exchanged(p) => Exchanged(p)'
      BY <1>1, <2>3, <2>13 DEF Exchanged, Current
    <3> QED BY <1>0, <1>1, <2>3, <2>8, <3>1, <3>2, <3>3 DEF Follows, Committing
  <2>17. tx' # Idle
    BY <2>3 DEF Idle
  <2>18. FailedSetupIsUndone' /\ HooksFollowSetting'
    BY <2>17 DEF FailedSetupIsUndone, HooksFollowSetting
  <2> QED BY <2>6, <2>7, <2>9, <2>10, <2>11, <2>12, <2>14, <2>15, <2>16, <2>18 DEF IInv
<1> QED BY <1>1, <1>2, <1>3 DEF Stage, Succeeds, Fails, names

-----------------------------------------------------------------------------
(* restore_applied.                                                        *)

LEMMA RollbackKeeps == ASSUME IInv, Rollback PROVE IInv'
<1>1. /\ Types /\ Apart /\ Shape /\ PlanSound /\ Texted /\ UserTextSurvives
      /\ Carried /\ DoomedIsSpent /\ Followed
      /\ InHand = {}
      /\ tx \in Transactions /\ tx.pc = "rollback" /\ tx.path \in Paths
      /\ NamesTyped /\ saved \in BOOLEAN /\ last \in Outcomes /\ edits' = edits
      /\ detached = NoFile /\ content' = content /\ kept' = kept /\ saved' = saved
  BY DEF IInv, Types, NamesTyped, Transactions, Rollback, Succeeds, Fails, bounds, Shape,
     Forward, Committing, Doomed, InHand, Between
<1>0. /\ Applied \subseteq Paths /\ tx.todo \subseteq Paths /\ tx.applied \in Seq(Paths)
      /\ InHand \cap Applied = {} /\ tx.todo \cap (Applied \cup InHand) = {}
      /\ \A e \in kept : e # Absent.text /\ e # 0
  BY <1>1, Places DEF Shape, Types, Absent
<1>2. CASE Return("error") /\ active' = active /\ tx.applied = <<>>
  <2>1. tx' = Idle /\ last' = [last EXCEPT !.outcome = "error"]
    BY <1>2 DEF Return
  <2>2. Applied = {} /\ last'.outcome = "error" /\ last'.touched = last.touched
        /\ last'.unrestored = last.unrestored /\ last'.before = last.before
    BY <1>1, <1>2, <2>1, Places DEF Outcomes
  <2>3. FailedSetupIsUndone'
    <3> SUFFICES ASSUME NEW p \in Paths, p \notin last'.touched, p \notin last'.unrestored
                 PROVE  Current(p)' = last'.before[p]
      BY DEF FailedSetupIsUndone
    <3>1. Follows(p)
      BY <1>1, <2>2 DEF Followed
    <3>2. AsBefore(p)
      BY <1>1, <2>2, <3>1 DEF Follows, Committing
    <3> QED BY <1>1, <1>2, <2>2, <3>2 DEF AsBefore, Current
  <2>4. HooksFollowSetting'
    BY <2>2 DEF HooksFollowSetting
  <2> QED BY <1>1, <1>2, <2>3, <2>4, Returned
<1>3. CASE /\ tx.applied # <<>> /\ UNCHANGED names /\ last' = last
           /\ LET q == tx.applied[Len(tx.applied)]
              IN  tx' = [tx EXCEPT !.path = q, !.applied = SubSeq(tx.applied, 1, Len(tx.applied) - 1),
                           !.pc = IF tx.plan[q].original = Absent THEN "detach_new" ELSE "swap_back"]
  <2> DEFINE q == tx.applied[Len(tx.applied)]
             t == SubSeq(tx.applied, 1, Len(tx.applied) - 1)
             c == IF tx.plan[q].original = Absent THEN "detach_new" ELSE "swap_back"
  <2>0. q = tx.applied[Len(tx.applied)] /\ t = SubSeq(tx.applied, 1, Len(tx.applied) - 1)
    OBVIOUS
  <2>14. UNCHANGED names /\ last' = last
    BY <1>3
  <2>2. tx' = [tx EXCEPT !.path = q, !.applied = t, !.pc = c]
    BY <1>3
  <2>3. /\ c \in Steps /\ c \in {"detach_new", "swap_back"}
        /\ tx.plan[q].original = Absent => c = "detach_new"
        /\ tx.plan[q].original # Absent => c = "swap_back"
    BY DEF Steps
  <2> HIDE DEF q, t, c
  <2>1. /\ t \in Seq(Paths) /\ q \in Paths /\ q \in Applied
        /\ {t[n] : n \in 1..Len(t)} = Applied \ {q}
        /\ \A m, n \in 1..Len(t) : t[m] = t[n] => m = n
    <3>1. \A m, n \in 1..Len(tx.applied) : tx.applied[m] = tx.applied[n] => m = n
      BY <1>1 DEF Shape
    <3>2. /\ t \in Seq(Paths) /\ q \in Paths
          /\ q \in {tx.applied[n] : n \in 1..Len(tx.applied)}
          /\ {t[n] : n \in 1..Len(t)} = {tx.applied[n] : n \in 1..Len(tx.applied)} \ {q}
          /\ \A m, n \in 1..Len(t) : t[m] = t[n] => m = n
      <4>1. tx.applied \in Seq(Paths) /\ tx.applied # <<>>
        BY <1>0, <1>3
      <4>2. \/ q = tx.applied[Len(tx.applied)] /\ t = SubSeq(tx.applied, 1, Len(tx.applied) - 1)
            \/ q = Head(tx.applied) /\ t = Tail(tx.applied)
        BY <2>0
      <4> QED BY <3>1, <4>1, <4>2, AppliedShrinks
    <3> QED BY <3>2 DEF Applied
  <2>4. /\ tx' \in Transactions /\ tx'.pc = c /\ tx'.path = q /\ tx'.applied = t
        /\ tx'.want = tx.want /\ tx'.plan = tx.plan /\ tx'.todo = tx.todo
    BY <1>1, <2>1, <2>2, <2>3 DEF Transactions
  <2>5. Applied' = Applied \ {q}
    BY <2>1, <2>4 DEF Applied
  <2>6. InHand' \subseteq {q} /\ (c # "commit" => InHand' = {q})
    BY <2>3, <2>4 DEF InHand, Between
  <2>7. Own
    BY <1>1, <2>14, <2>3, <2>4 DEF Own
  <2>8. NamesTyped' /\ Apart' /\ UserTextSurvives'
    BY <1>1, <2>14, NothingMoves
  <2>9. Shape'
    BY <1>0, <1>1, <2>14, <2>1, <2>3, <2>4, <2>5, <2>6 DEF Shape, Forward, Committing, names
  <2>10. Carried'
    BY <1>0, <1>1, <2>14, <2>1, <2>3, <2>4, <2>5 DEF Carried, InPlace, InSpare, Text, Current,
       names
  <2>11. DoomedIsSpent'
    BY <2>3, <2>4 DEF DoomedIsSpent
  <2>12. Followed'
    <3> SUFFICES ASSUME NEW p \in Paths, p \notin last'.touched, p \notin last'.unrestored
                 PROVE  Follows(p)'
      BY DEF Followed
    <3>1. Follows(p)
      BY <1>1, <2>14 DEF Followed
    <3>2. /\ Current(p)' = Current(p) /\ (AsBefore(p)' <=> AsBefore(p))
          /\ (Exchanged(p)' <=> Exchanged(p))
      BY <1>1, <2>14, <2>4 DEF Current, AsBefore, Exchanged, names
    <3> QED BY <1>0, <1>1, <2>1, <2>3, <2>4, <2>5, <2>6, <2>14, <3>1, <3>2
            DEF Follows, Committing
  <2>13. Committing' => saved' = tx'.want
    BY <1>1, <2>3, <2>4 DEF Committing, IInv
  <2> QED BY <1>1, <2>7, <2>8, <2>9, <2>10, <2>11, <2>12, <2>13, Step
<1> QED BY <1>1, <1>2, <1>3 DEF Rollback, names

LEMMA SwapBackKeeps == ASSUME IInv, SwapBack PROVE IInv'
<1>1. /\ Types /\ Apart /\ Shape /\ PlanSound /\ Texted /\ UserTextSurvives
      /\ Carried /\ DoomedIsSpent /\ Followed
      /\ InHand = {tx.path}
      /\ tx \in Transactions /\ tx.pc = "swap_back" /\ tx.path \in Paths
      /\ NamesTyped /\ saved \in BOOLEAN /\ last \in Outcomes /\ edits' = edits
      /\ detached = NoFile /\ content' = content /\ kept' = kept /\ saved' = saved
  BY DEF IInv, Types, NamesTyped, Transactions, SwapBack, Succeeds, Fails, bounds, Shape,
     Forward, Committing, Doomed, InHand, Between
<1>0. /\ Applied \subseteq Paths /\ tx.todo \subseteq Paths /\ tx.applied \in Seq(Paths)
      /\ InHand \cap Applied = {} /\ tx.todo \cap (Applied \cup InHand) = {}
      /\ \A e \in kept : e # Absent.text /\ e # 0
  BY <1>1, Places DEF Shape, Types, Absent
<1>2. CASE active[p0] # NoFile /\ Swap(p0) /\ Goto("check_displaced") /\ last' = last
  <2>12. /\ content' = content /\ kept' = kept /\ saved' = saved /\ last' = last
    BY <1>1, <1>2 DEF SwapBack, Succeeds, Fails
  <2>1. /\ Swap(p0) /\ Goto("check_displaced")
    BY <1>1, <1>2 DEF SwapBack, Succeeds, Fails, names, p0, Plan
  <2>2. /\ tx' \in Transactions /\ tx'.pc = "check_displaced"
        /\ tx'.want = tx.want /\ tx'.plan = tx.plan
        /\ tx'.todo = tx.todo /\ tx'.applied = tx.applied /\ tx'.path = tx.path
    BY <1>1, <2>1, Goes DEF Steps
  <2>3. Own
    BY <1>1, <2>2, <2>12 DEF Own
  <2>4. /\ NamesTyped' /\ Apart' /\ Named' = Named /\ UNCHANGED <<detached, strays>>
        /\ \A q \in Paths : /\ active'[q] = IF q = tx.path THEN spare[tx.path] ELSE active[q]
                            /\ spare'[q] = IF q = tx.path THEN active[tx.path] ELSE spare[q]
    BY <1>1, <2>1, <2>12, SwapMoves DEF p0
  <2>5. UserTextSurvives'
    BY <1>1, <2>12, <2>4 DEF UserTextSurvives
  <2>11. Applied' = Applied /\ InHand' = {tx.path}
    BY <1>1, <2>2 DEF Applied, InHand, Between
  <2>6. Shape'
    BY <1>1, <1>2, <2>2, <2>4, <2>12, <1>0, <2>11 DEF Shape, Carried, Forward, Committing,
       Plan, p0, names
  <2>7. Carried'
    BY <1>1, <1>2, <2>2, <2>4, <2>12, <1>0, <2>11 DEF Carried, Shape, InPlace, InSpare, Text,
       Current, Plan, p0, Unchanged, names
  <2>8. DoomedIsSpent'
    BY <1>1, <1>2, <2>2, <2>4, <2>12, <1>0, <2>11 DEF DoomedIsSpent, Shape, Text, InSpare,
       InPlace, Carried, Current, Plan, p0, names
  <2>9. Followed'
    <3> SUFFICES ASSUME NEW p \in Paths, p \notin last'.touched, p \notin last'.unrestored
                 PROVE  Follows(p)'
      BY DEF Followed
    <3>1. Follows(p)
      BY <1>1, <2>12, <2>2 DEF Followed
    <3>2. CASE p # tx.path
      <4>1. active'[p] = active[p] /\ spare'[p] = spare[p]
        BY <2>2, <2>4, <2>12, <3>2 DEF names
      <4>2. /\ Current(p)' = Current(p) /\ (AsBefore(p)' <=> AsBefore(p))
            /\ (Exchanged(p)' <=> Exchanged(p))
        BY <2>12, <2>2, <4>1 DEF Current, AsBefore, Exchanged
      <4> QED BY <1>0, <1>1, <2>12, <2>2, <2>11, <3>1, <3>2, <4>2 DEF Follows, Committing
    <3>3. CASE p = tx.path
      BY <1>0, <1>1, <1>2, <2>2, <2>4, <2>12, <2>11, <3>1, <3>3
      DEF Follows, Committing, AsBefore, Exchanged, Current, Plan, p0, Unchanged, names,
         Carried, PlanSound, Shape
    <3> QED BY <3>2, <3>3
  <2>10. Committing' => saved' = tx'.want
    BY <1>1, <2>12, <2>2 DEF Committing, IInv
  <2> QED BY <1>1, <2>1, <2>12, <2>3, <2>4, <2>5, <2>6, <2>7, <2>8, <2>9, <2>10, Step
<1>3. CASE Unrestored /\ UNCHANGED names
  <2>12. /\ content' = content /\ kept' = kept /\ saved' = saved
    BY <1>1, <1>3 DEF SwapBack, Succeeds, Fails
  <2>1. /\ UNCHANGED names /\ Unrestored
    BY <1>1, <1>3 DEF SwapBack, Succeeds, Fails, names, p0, Plan
  <2>2. /\ tx' \in Transactions /\ tx'.pc = "rollback"
        /\ tx'.want = tx.want /\ tx'.plan = tx.plan
        /\ tx'.todo = tx.todo /\ tx'.applied = tx.applied /\ tx'.path = tx.path
        /\ last'.before = last.before /\ last'.touched = last.touched /\ last' \in Outcomes
        /\ last'.unrestored = last.unrestored \cup {tx.path}
    BY <1>1, <2>1, Goes DEF Unrestored, Steps, Outcomes, p0
  <2>3. Own
    BY <1>1, <2>2, <2>12 DEF Own
  <2>4. NamesTyped' /\ Apart' /\ UserTextSurvives'
    BY <1>1, <2>1, <2>12, NothingMoves
  <2>11. Applied' = Applied /\ InHand' = {}
    BY <1>1, <2>2 DEF Applied, InHand, Between
  <2>6. Shape'
    BY <1>1, <1>3, <2>1, <2>2, <2>12, <1>0, <2>11 DEF Shape, Carried, Forward, Committing,
       Plan, p0, names
  <2>7. Carried'
    BY <1>1, <1>3, <2>1, <2>2, <2>12, <1>0, <2>11 DEF Carried, Shape, InPlace, InSpare, Text,
       Current, Plan, p0, Unchanged, names
  <2>8. DoomedIsSpent'
    BY <1>1, <1>3, <2>1, <2>2, <2>12, <1>0, <2>11 DEF DoomedIsSpent, Shape, Text, InSpare,
       InPlace, Carried, Current, Plan, p0, names
  <2>9. Followed'
    <3> SUFFICES ASSUME NEW p \in Paths, p \notin last'.touched, p \notin last'.unrestored
                 PROVE  Follows(p)'
      BY DEF Followed
    <3>1. Follows(p)
      BY <1>1, <2>12, <2>2 DEF Followed
    <3>2. CASE p # tx.path
      <4>1. active'[p] = active[p] /\ spare'[p] = spare[p]
        BY <2>1, <2>2, <2>12, <3>2 DEF names
      <4>2. /\ Current(p)' = Current(p) /\ (AsBefore(p)' <=> AsBefore(p))
            /\ (Exchanged(p)' <=> Exchanged(p))
        BY <2>12, <2>2, <4>1 DEF Current, AsBefore, Exchanged
      <4> QED BY <1>0, <1>1, <2>12, <2>2, <2>11, <3>1, <3>2, <4>2 DEF Follows, Committing
    <3>3. CASE p = tx.path
      BY <1>0, <1>1, <1>3, <2>1, <2>2, <2>12, <2>11, <3>1, <3>3
      DEF Follows, Committing, AsBefore, Exchanged, Current, Plan, p0, Unchanged, names,
         Carried, PlanSound, Shape
    <3> QED BY <3>2, <3>3
  <2>10. Committing' => saved' = tx'.want
    BY <1>1, <2>12, <2>2 DEF Committing, IInv
  <2> QED BY <1>1, <2>1, <2>12, <2>3, <2>4, <2>6, <2>7, <2>8, <2>9, <2>10, Step
<1> QED BY <1>1, <1>2, <1>3 DEF SwapBack, Succeeds, Fails, names

LEMMA CheckDisplacedKeeps == ASSUME IInv, CheckDisplaced PROVE IInv'
<1>1. /\ Types /\ Apart /\ Shape /\ PlanSound /\ Texted /\ UserTextSurvives
      /\ Carried /\ DoomedIsSpent /\ Followed
      /\ InHand = {tx.path}
      /\ tx \in Transactions /\ tx.pc = "check_displaced" /\ tx.path \in Paths
      /\ NamesTyped /\ saved \in BOOLEAN /\ last \in Outcomes /\ edits' = edits
      /\ detached = NoFile /\ content' = content /\ kept' = kept /\ saved' = saved
      /\ last' = last /\ UNCHANGED names
  BY DEF IInv, Types, NamesTyped, Transactions, CheckDisplaced, Succeeds, Fails, bounds, Shape,
     Forward, Committing, Doomed, InHand, Between
<1>0. /\ Applied \subseteq Paths /\ tx.todo \subseteq Paths /\ tx.applied \in Seq(Paths)
      /\ InHand \cap Applied = {} /\ tx.todo \cap (Applied \cup InHand) = {}
      /\ \A e \in kept : e # Absent.text /\ e # 0
  BY <1>1, Places DEF Shape, Types, Absent
<1>2. CASE content[spare[p0]] = Plan.updated /\ Goto("drop_displaced")
  <2>12. /\ content' = content /\ kept' = kept /\ saved' = saved /\ last' = last
    BY <1>1, <1>2 DEF CheckDisplaced, Succeeds, Fails
  <2>1. /\ UNCHANGED names /\ Goto("drop_displaced")
    BY <1>1, <1>2 DEF CheckDisplaced, Succeeds, Fails, names, p0, Plan
  <2>2. /\ tx' \in Transactions /\ tx'.pc = "drop_displaced"
        /\ tx'.want = tx.want /\ tx'.plan = tx.plan
        /\ tx'.todo = tx.todo /\ tx'.applied = tx.applied /\ tx'.path = tx.path
    BY <1>1, <2>1, Goes DEF Steps
  <2>3. Own
    BY <1>1, <2>2, <2>12 DEF Own
  <2>4. NamesTyped' /\ Apart' /\ UserTextSurvives'
    BY <1>1, <2>1, <2>12, NothingMoves
  <2>11. Applied' = Applied /\ InHand' = {tx.path}
    BY <1>1, <2>2 DEF Applied, InHand, Between
  <2>6. Shape'
    BY <1>1, <1>2, <2>1, <2>2, <2>12, <1>0, <2>11 DEF Shape, Carried, Forward, Committing,
       Plan, p0, names
  <2>7. Carried'
    BY <1>1, <1>2, <2>1, <2>2, <2>12, <1>0, <2>11 DEF Carried, Shape, InPlace, InSpare, Text,
       Current, Plan, p0, Unchanged, names
  <2>8. DoomedIsSpent'
    <3>1. tx.path \in InHand
      BY <1>1
    <3>2. tx.plan[tx.path].original # Absent /\ tx.plan[tx.path] # NoPlan
      BY <1>1, <3>1 DEF Shape
    <3>3. content[spare[tx.path]].text = Text(tx.path)
      BY <1>1, <1>2, <3>2 DEF PlanSound, Plan, p0, Text
    <3> QED BY <1>1, <2>1, <2>2, <2>12, <3>3 DEF DoomedIsSpent, names, Text
  <2>9. Followed'
    <3> SUFFICES ASSUME NEW p \in Paths, p \notin last'.touched, p \notin last'.unrestored
                 PROVE  Follows(p)'
      BY DEF Followed
    <3>1. Follows(p)
      BY <1>1, <2>12, <2>2 DEF Followed
    <3>2. CASE p # tx.path
      <4>1. active'[p] = active[p] /\ spare'[p] = spare[p]
        BY <2>1, <2>2, <2>12, <3>2 DEF names
      <4>2. /\ Current(p)' = Current(p) /\ (AsBefore(p)' <=> AsBefore(p))
            /\ (Exchanged(p)' <=> Exchanged(p))
        BY <2>12, <2>2, <4>1 DEF Current, AsBefore, Exchanged
      <4> QED BY <1>0, <1>1, <2>12, <2>2, <2>11, <3>1, <3>2, <4>2 DEF Follows, Committing
    <3>3. CASE p = tx.path
      BY <1>0, <1>1, <1>2, <2>1, <2>2, <2>12, <2>11, <3>1, <3>3
      DEF Follows, Committing, AsBefore, Exchanged, Current, Plan, p0, Unchanged, names,
         Carried, PlanSound, Shape
    <3> QED BY <3>2, <3>3
  <2>10. Committing' => saved' = tx'.want
    BY <1>1, <2>12, <2>2 DEF Committing, IInv
  <2> QED BY <1>1, <2>1, <2>12, <2>3, <2>4, <2>6, <2>7, <2>8, <2>9, <2>10, Step
<1>3. CASE Goto("swap_again")
  <2>12. /\ content' = content /\ kept' = kept /\ saved' = saved /\ last' = last
    BY <1>1, <1>3 DEF CheckDisplaced, Succeeds, Fails
  <2>1. /\ UNCHANGED names /\ Goto("swap_again")
    BY <1>1, <1>3 DEF CheckDisplaced, Succeeds, Fails, names, p0, Plan
  <2>2. /\ tx' \in Transactions /\ tx'.pc = "swap_again"
        /\ tx'.want = tx.want /\ tx'.plan = tx.plan
        /\ tx'.todo = tx.todo /\ tx'.applied = tx.applied /\ tx'.path = tx.path
    BY <1>1, <2>1, Goes DEF Steps
  <2>3. Own
    BY <1>1, <2>2, <2>12 DEF Own
  <2>4. NamesTyped' /\ Apart' /\ UserTextSurvives'
    BY <1>1, <2>1, <2>12, NothingMoves
  <2>11. Applied' = Applied /\ InHand' = {tx.path}
    BY <1>1, <2>2 DEF Applied, InHand, Between
  <2>6. Shape'
    BY <1>1, <1>3, <2>1, <2>2, <2>12, <1>0, <2>11 DEF Shape, Carried, Forward, Committing,
       Plan, p0, names
  <2>7. Carried'
    BY <1>1, <1>3, <2>1, <2>2, <2>12, <1>0, <2>11 DEF Carried, Shape, InPlace, InSpare, Text,
       Current, Plan, p0, Unchanged, names
  <2>8. DoomedIsSpent'
    BY <1>1, <1>3, <2>1, <2>2, <2>12, <1>0, <2>11 DEF DoomedIsSpent, Shape, Text, InSpare,
       InPlace, Carried, Current, Plan, p0, names
  <2>9. Followed'
    <3> SUFFICES ASSUME NEW p \in Paths, p \notin last'.touched, p \notin last'.unrestored
                 PROVE  Follows(p)'
      BY DEF Followed
    <3>1. Follows(p)
      BY <1>1, <2>12, <2>2 DEF Followed
    <3>2. CASE p # tx.path
      <4>1. active'[p] = active[p] /\ spare'[p] = spare[p]
        BY <2>1, <2>2, <2>12, <3>2 DEF names
      <4>2. /\ Current(p)' = Current(p) /\ (AsBefore(p)' <=> AsBefore(p))
            /\ (Exchanged(p)' <=> Exchanged(p))
        BY <2>12, <2>2, <4>1 DEF Current, AsBefore, Exchanged
      <4> QED BY <1>0, <1>1, <2>12, <2>2, <2>11, <3>1, <3>2, <4>2 DEF Follows, Committing
    <3>3. CASE p = tx.path
      BY <1>0, <1>1, <1>3, <2>1, <2>2, <2>12, <2>11, <3>1, <3>3
      DEF Follows, Committing, AsBefore, Exchanged, Current, Plan, p0, Unchanged, names,
         Carried, PlanSound, Shape
    <3> QED BY <3>2, <3>3
  <2>10. Committing' => saved' = tx'.want
    BY <1>1, <2>12, <2>2 DEF Committing, IInv
  <2> QED BY <1>1, <2>1, <2>12, <2>3, <2>4, <2>6, <2>7, <2>8, <2>9, <2>10, Step
<1> QED BY <1>1, <1>2, <1>3 DEF CheckDisplaced, Succeeds, Fails, names

LEMMA DropDisplacedKeeps == ASSUME IInv, DropDisplaced PROVE IInv'
<1>1. /\ Types /\ Apart /\ Shape /\ PlanSound /\ Texted /\ UserTextSurvives
      /\ Carried /\ DoomedIsSpent /\ Followed
      /\ InHand = {tx.path}
      /\ tx \in Transactions /\ tx.pc = "drop_displaced" /\ tx.path \in Paths
      /\ NamesTyped /\ saved \in BOOLEAN /\ last \in Outcomes /\ edits' = edits
      /\ detached = NoFile /\ content' = content /\ kept' = kept /\ saved' = saved
  BY DEF IInv, Types, NamesTyped, Transactions, DropDisplaced, Succeeds, Fails, bounds, Shape,
     Forward, Committing, Doomed, InHand, Between
<1>0. /\ Applied \subseteq Paths /\ tx.todo \subseteq Paths /\ tx.applied \in Seq(Paths)
      /\ InHand \cap Applied = {} /\ tx.todo \cap (Applied \cup InHand) = {}
      /\ \A e \in kept : e # Absent.text /\ e # 0
  BY <1>1, Places DEF Shape, Types, Absent
<1>2. CASE DropSpare(p0) /\ Goto("rollback") /\ last' = last
  <2>12. /\ content' = content /\ kept' = kept /\ saved' = saved /\ last' = last
    BY <1>1, <1>2 DEF DropDisplaced, Succeeds, Fails
  <2>1. /\ DropSpare(p0) /\ Goto("rollback")
    BY <1>1, <1>2 DEF DropDisplaced, Succeeds, Fails, names, p0, Plan
  <2>2. /\ tx' \in Transactions /\ tx'.pc = "rollback"
        /\ tx'.want = tx.want /\ tx'.plan = tx.plan
        /\ tx'.todo = tx.todo /\ tx'.applied = tx.applied /\ tx'.path = tx.path
    BY <1>1, <2>1, Goes DEF Steps
  <2>3. Own
    BY <1>1, <2>2, <2>12 DEF Own
  <2>4. /\ NamesTyped' /\ Apart' /\ Named \subseteq Named' \cup {spare[tx.path]}
        /\ UNCHANGED <<active, detached, strays>>
        /\ \A q \in Paths : spare'[q] = IF q = tx.path THEN NoFile ELSE spare[q]
    BY <1>1, <2>1, <2>12, DropMoves DEF p0
  <2>5. UserTextSurvives'
    <3>1. content[spare[tx.path]].text \in kept =>
            \E i \in Named' : content[i].text = content[spare[tx.path]].text
      BY <1>0, <1>1, <2>4 DEF DoomedIsSpent, Carried, InPlace, Text, Current, Named
    <3> QED BY <1>1, <2>12, <2>4, <3>1, TextKept
  <2>11. Applied' = Applied /\ InHand' = {}
    BY <1>1, <2>2 DEF Applied, InHand, Between
  <2>6. Shape'
    BY <1>1, <1>2, <2>2, <2>4, <2>12, <1>0, <2>11 DEF Shape, Carried, Forward, Committing,
       Plan, p0, names
  <2>7. Carried'
    BY <1>1, <1>2, <2>2, <2>4, <2>12, <1>0, <2>11 DEF Carried, Shape, InPlace, InSpare, Text,
       Current, Plan, p0, Unchanged, names
  <2>8. DoomedIsSpent'
    BY <1>1, <1>2, <2>2, <2>4, <2>12, <1>0, <2>11 DEF DoomedIsSpent, Shape, Text, InSpare,
       InPlace, Carried, Current, Plan, p0, names
  <2>9. Followed'
    <3> SUFFICES ASSUME NEW p \in Paths, p \notin last'.touched, p \notin last'.unrestored
                 PROVE  Follows(p)'
      BY DEF Followed
    <3>1. Follows(p)
      BY <1>1, <2>12, <2>2 DEF Followed
    <3>2. CASE p # tx.path
      <4>1. active'[p] = active[p] /\ spare'[p] = spare[p]
        BY <2>2, <2>4, <2>12, <3>2 DEF names
      <4>2. /\ Current(p)' = Current(p) /\ (AsBefore(p)' <=> AsBefore(p))
            /\ (Exchanged(p)' <=> Exchanged(p))
        BY <2>12, <2>2, <4>1 DEF Current, AsBefore, Exchanged
      <4> QED BY <1>0, <1>1, <2>12, <2>2, <2>11, <3>1, <3>2, <4>2 DEF Follows, Committing
    <3>3. CASE p = tx.path
      BY <1>0, <1>1, <1>2, <2>2, <2>4, <2>12, <2>11, <3>1, <3>3
      DEF Follows, Committing, AsBefore, Exchanged, Current, Plan, p0, Unchanged, names,
         Carried, PlanSound, Shape
    <3> QED BY <3>2, <3>3
  <2>10. Committing' => saved' = tx'.want
    BY <1>1, <2>12, <2>2 DEF Committing, IInv
  <2> QED BY <1>1, <2>1, <2>12, <2>3, <2>4, <2>5, <2>6, <2>7, <2>8, <2>9, <2>10, Step
<1>3. CASE Unrestored /\ UNCHANGED names
  <2>12. /\ content' = content /\ kept' = kept /\ saved' = saved
    BY <1>1, <1>3 DEF DropDisplaced, Succeeds, Fails
  <2>1. /\ UNCHANGED names /\ Unrestored
    BY <1>1, <1>3 DEF DropDisplaced, Succeeds, Fails, names, p0, Plan
  <2>2. /\ tx' \in Transactions /\ tx'.pc = "rollback"
        /\ tx'.want = tx.want /\ tx'.plan = tx.plan
        /\ tx'.todo = tx.todo /\ tx'.applied = tx.applied /\ tx'.path = tx.path
        /\ last'.before = last.before /\ last'.touched = last.touched /\ last' \in Outcomes
        /\ last'.unrestored = last.unrestored \cup {tx.path}
    BY <1>1, <2>1, Goes DEF Unrestored, Steps, Outcomes, p0
  <2>3. Own
    BY <1>1, <2>2, <2>12 DEF Own
  <2>4. NamesTyped' /\ Apart' /\ UserTextSurvives'
    BY <1>1, <2>1, <2>12, NothingMoves
  <2>11. Applied' = Applied /\ InHand' = {}
    BY <1>1, <2>2 DEF Applied, InHand, Between
  <2>6. Shape'
    BY <1>1, <1>3, <2>1, <2>2, <2>12, <1>0, <2>11 DEF Shape, Carried, Forward, Committing,
       Plan, p0, names
  <2>7. Carried'
    BY <1>1, <1>3, <2>1, <2>2, <2>12, <1>0, <2>11 DEF Carried, Shape, InPlace, InSpare, Text,
       Current, Plan, p0, Unchanged, names
  <2>8. DoomedIsSpent'
    BY <1>1, <1>3, <2>1, <2>2, <2>12, <1>0, <2>11 DEF DoomedIsSpent, Shape, Text, InSpare,
       InPlace, Carried, Current, Plan, p0, names
  <2>9. Followed'
    <3> SUFFICES ASSUME NEW p \in Paths, p \notin last'.touched, p \notin last'.unrestored
                 PROVE  Follows(p)'
      BY DEF Followed
    <3>1. Follows(p)
      BY <1>1, <2>12, <2>2 DEF Followed
    <3>2. CASE p # tx.path
      <4>1. active'[p] = active[p] /\ spare'[p] = spare[p]
        BY <2>1, <2>2, <2>12, <3>2 DEF names
      <4>2. /\ Current(p)' = Current(p) /\ (AsBefore(p)' <=> AsBefore(p))
            /\ (Exchanged(p)' <=> Exchanged(p))
        BY <2>12, <2>2, <4>1 DEF Current, AsBefore, Exchanged
      <4> QED BY <1>0, <1>1, <2>12, <2>2, <2>11, <3>1, <3>2, <4>2 DEF Follows, Committing
    <3>3. CASE p = tx.path
      BY <1>0, <1>1, <1>3, <2>1, <2>2, <2>12, <2>11, <3>1, <3>3
      DEF Follows, Committing, AsBefore, Exchanged, Current, Plan, p0, Unchanged, names,
         Carried, PlanSound, Shape
    <3> QED BY <3>2, <3>3
  <2>10. Committing' => saved' = tx'.want
    BY <1>1, <2>12, <2>2 DEF Committing, IInv
  <2> QED BY <1>1, <2>1, <2>12, <2>3, <2>4, <2>6, <2>7, <2>8, <2>9, <2>10, Step
<1> QED BY <1>1, <1>2, <1>3 DEF DropDisplaced, Succeeds, Fails, names

LEMMA SwapAgainKeeps == ASSUME IInv, SwapAgain PROVE IInv'
<1>1. /\ Types /\ Apart /\ Shape /\ PlanSound /\ Texted /\ UserTextSurvives
      /\ Carried /\ DoomedIsSpent /\ Followed
      /\ InHand = {tx.path}
      /\ tx \in Transactions /\ tx.pc = "swap_again" /\ tx.path \in Paths
      /\ NamesTyped /\ saved \in BOOLEAN /\ last \in Outcomes /\ edits' = edits
      /\ detached = NoFile /\ content' = content /\ kept' = kept /\ saved' = saved
  BY DEF IInv, Types, NamesTyped, Transactions, SwapAgain, Succeeds, Fails, bounds, Shape,
     Forward, Committing, Doomed, InHand, Between
<1>0. /\ Applied \subseteq Paths /\ tx.todo \subseteq Paths /\ tx.applied \in Seq(Paths)
      /\ InHand \cap Applied = {} /\ tx.todo \cap (Applied \cup InHand) = {}
      /\ \A e \in kept : e # Absent.text /\ e # 0
  BY <1>1, Places DEF Shape, Types, Absent
<1>2. CASE Swap(p0) /\ Unrestored
  <2>12. /\ content' = content /\ kept' = kept /\ saved' = saved
    BY <1>1, <1>2 DEF SwapAgain, Succeeds, Fails
  <2>1. /\ Swap(p0) /\ Unrestored
    BY <1>1, <1>2 DEF SwapAgain, Succeeds, Fails, names, p0, Plan
  <2>2. /\ tx' \in Transactions /\ tx'.pc = "rollback"
        /\ tx'.want = tx.want /\ tx'.plan = tx.plan
        /\ tx'.todo = tx.todo /\ tx'.applied = tx.applied /\ tx'.path = tx.path
        /\ last'.before = last.before /\ last'.touched = last.touched /\ last' \in Outcomes
        /\ last'.unrestored = last.unrestored \cup {tx.path}
    BY <1>1, <2>1, Goes DEF Unrestored, Steps, Outcomes, p0
  <2>3. Own
    BY <1>1, <2>2, <2>12 DEF Own
  <2>4. /\ NamesTyped' /\ Apart' /\ Named' = Named /\ UNCHANGED <<detached, strays>>
        /\ \A q \in Paths : /\ active'[q] = IF q = tx.path THEN spare[tx.path] ELSE active[q]
                            /\ spare'[q] = IF q = tx.path THEN active[tx.path] ELSE spare[q]
    BY <1>1, <2>1, <2>12, SwapMoves DEF p0
  <2>5. UserTextSurvives'
    BY <1>1, <2>12, <2>4 DEF UserTextSurvives
  <2>11. Applied' = Applied /\ InHand' = {}
    BY <1>1, <2>2 DEF Applied, InHand, Between
  <2>6. Shape'
    BY <1>1, <1>2, <2>2, <2>4, <2>12, <1>0, <2>11 DEF Shape, Carried, Forward, Committing,
       Plan, p0, names
  <2>7. Carried'
    BY <1>1, <1>2, <2>2, <2>4, <2>12, <1>0, <2>11 DEF Carried, Shape, InPlace, InSpare, Text,
       Current, Plan, p0, Unchanged, names
  <2>8. DoomedIsSpent'
    BY <1>1, <1>2, <2>2, <2>4, <2>12, <1>0, <2>11 DEF DoomedIsSpent, Shape, Text, InSpare,
       InPlace, Carried, Current, Plan, p0, names
  <2>9. Followed'
    <3> SUFFICES ASSUME NEW p \in Paths, p \notin last'.touched, p \notin last'.unrestored
                 PROVE  Follows(p)'
      BY DEF Followed
    <3>1. Follows(p)
      BY <1>1, <2>12, <2>2 DEF Followed
    <3>2. CASE p # tx.path
      <4>1. active'[p] = active[p] /\ spare'[p] = spare[p]
        BY <2>2, <2>4, <2>12, <3>2 DEF names
      <4>2. /\ Current(p)' = Current(p) /\ (AsBefore(p)' <=> AsBefore(p))
            /\ (Exchanged(p)' <=> Exchanged(p))
        BY <2>12, <2>2, <4>1 DEF Current, AsBefore, Exchanged
      <4> QED BY <1>0, <1>1, <2>12, <2>2, <2>11, <3>1, <3>2, <4>2 DEF Follows, Committing
    <3>3. CASE p = tx.path
      BY <1>0, <1>1, <1>2, <2>2, <2>4, <2>12, <2>11, <3>1, <3>3
      DEF Follows, Committing, AsBefore, Exchanged, Current, Plan, p0, Unchanged, names,
         Carried, PlanSound, Shape
    <3> QED BY <3>2, <3>3
  <2>10. Committing' => saved' = tx'.want
    BY <1>1, <2>12, <2>2 DEF Committing, IInv
  <2> QED BY <1>1, <2>1, <2>12, <2>3, <2>4, <2>5, <2>6, <2>7, <2>8, <2>9, <2>10, Step
<1>3. CASE Unrestored /\ UNCHANGED names
  <2>12. /\ content' = content /\ kept' = kept /\ saved' = saved
    BY <1>1, <1>3 DEF SwapAgain, Succeeds, Fails
  <2>1. /\ UNCHANGED names /\ Unrestored
    BY <1>1, <1>3 DEF SwapAgain, Succeeds, Fails, names, p0, Plan
  <2>2. /\ tx' \in Transactions /\ tx'.pc = "rollback"
        /\ tx'.want = tx.want /\ tx'.plan = tx.plan
        /\ tx'.todo = tx.todo /\ tx'.applied = tx.applied /\ tx'.path = tx.path
        /\ last'.before = last.before /\ last'.touched = last.touched /\ last' \in Outcomes
        /\ last'.unrestored = last.unrestored \cup {tx.path}
    BY <1>1, <2>1, Goes DEF Unrestored, Steps, Outcomes, p0
  <2>3. Own
    BY <1>1, <2>2, <2>12 DEF Own
  <2>4. NamesTyped' /\ Apart' /\ UserTextSurvives'
    BY <1>1, <2>1, <2>12, NothingMoves
  <2>11. Applied' = Applied /\ InHand' = {}
    BY <1>1, <2>2 DEF Applied, InHand, Between
  <2>6. Shape'
    BY <1>1, <1>3, <2>1, <2>2, <2>12, <1>0, <2>11 DEF Shape, Carried, Forward, Committing,
       Plan, p0, names
  <2>7. Carried'
    BY <1>1, <1>3, <2>1, <2>2, <2>12, <1>0, <2>11 DEF Carried, Shape, InPlace, InSpare, Text,
       Current, Plan, p0, Unchanged, names
  <2>8. DoomedIsSpent'
    BY <1>1, <1>3, <2>1, <2>2, <2>12, <1>0, <2>11 DEF DoomedIsSpent, Shape, Text, InSpare,
       InPlace, Carried, Current, Plan, p0, names
  <2>9. Followed'
    <3> SUFFICES ASSUME NEW p \in Paths, p \notin last'.touched, p \notin last'.unrestored
                 PROVE  Follows(p)'
      BY DEF Followed
    <3>1. Follows(p)
      BY <1>1, <2>12, <2>2 DEF Followed
    <3>2. CASE p # tx.path
      <4>1. active'[p] = active[p] /\ spare'[p] = spare[p]
        BY <2>1, <2>2, <2>12, <3>2 DEF names
      <4>2. /\ Current(p)' = Current(p) /\ (AsBefore(p)' <=> AsBefore(p))
            /\ (Exchanged(p)' <=> Exchanged(p))
        BY <2>12, <2>2, <4>1 DEF Current, AsBefore, Exchanged
      <4> QED BY <1>0, <1>1, <2>12, <2>2, <2>11, <3>1, <3>2, <4>2 DEF Follows, Committing
    <3>3. CASE p = tx.path
      BY <1>0, <1>1, <1>3, <2>1, <2>2, <2>12, <2>11, <3>1, <3>3
      DEF Follows, Committing, AsBefore, Exchanged, Current, Plan, p0, Unchanged, names,
         Carried, PlanSound, Shape
    <3> QED BY <3>2, <3>3
  <2>10. Committing' => saved' = tx'.want
    BY <1>1, <2>12, <2>2 DEF Committing, IInv
  <2> QED BY <1>1, <2>1, <2>12, <2>3, <2>4, <2>6, <2>7, <2>8, <2>9, <2>10, Step
<1> QED BY <1>1, <1>2, <1>3 DEF SwapAgain, Succeeds, Fails, names

LEMMA DetachNewKeeps == ASSUME IInv, DetachNew PROVE IInv'
<1>1. /\ Types /\ Apart /\ Shape /\ PlanSound /\ Texted /\ UserTextSurvives
      /\ Carried /\ DoomedIsSpent /\ Followed
      /\ InHand = {tx.path}
      /\ tx \in Transactions /\ tx.pc = "detach_new" /\ tx.path \in Paths
      /\ NamesTyped /\ saved \in BOOLEAN /\ last \in Outcomes /\ edits' = edits
      /\ detached = NoFile /\ content' = content /\ kept' = kept /\ saved' = saved
  BY DEF IInv, Types, NamesTyped, Transactions, DetachNew, Succeeds, Fails, bounds, Shape,
     Forward, Committing, Doomed, InHand, Between
<1>0. /\ Applied \subseteq Paths /\ tx.todo \subseteq Paths /\ tx.applied \in Seq(Paths)
      /\ InHand \cap Applied = {} /\ tx.todo \cap (Applied \cup InHand) = {}
      /\ \A e \in kept : e # Absent.text /\ e # 0
  BY <1>1, Places DEF Shape, Types, Absent
<1>2. CASE /\ active[p0] # NoFile
           /\ detached' = active[p0]
           /\ active' = [active EXCEPT ![p0] = NoFile]
           /\ UNCHANGED <<spare, strays>>
           /\ Goto("check_new")
           /\ last' = last
  <2>12. /\ content' = content /\ kept' = kept /\ saved' = saved /\ last' = last
    BY <1>1, <1>2 DEF DetachNew, Succeeds, Fails
  <2>1. /\ detached' = active[p0] /\ active' = [active EXCEPT ![p0] = NoFile]
        /\ UNCHANGED <<spare, strays>> /\ Goto("check_new")
    BY <1>1, <1>2 DEF DetachNew, Succeeds, Fails, names, p0, Plan
  <2>2. /\ tx' \in Transactions /\ tx'.pc = "check_new"
        /\ tx'.want = tx.want /\ tx'.plan = tx.plan
        /\ tx'.todo = tx.todo /\ tx'.applied = tx.applied /\ tx'.path = tx.path
    BY <1>1, <2>1, Goes DEF Steps
  <2>3. Own
    BY <1>1, <2>2, <2>12 DEF Own
  <2>4. /\ NamesTyped' /\ Apart' /\ Named \subseteq Named' /\ UNCHANGED <<spare, strays>>
        /\ detached' = active[tx.path] /\ active[tx.path] # NoFile
        /\ \A q \in Paths : active'[q] = IF q = tx.path THEN NoFile ELSE active[q]
    BY <1>1, <1>2, <2>1, <2>12, DetachMoves DEF p0, NamesTyped
  <2>5. UserTextSurvives'
    BY <1>1, <2>12, <2>4 DEF UserTextSurvives
  <2>11. Applied' = Applied /\ InHand' = {tx.path}
    BY <1>1, <2>2 DEF Applied, InHand, Between
  <2>6. Shape'
    BY <1>1, <2>2, <2>4, <2>12, <1>0, <2>11 DEF Shape, Carried, Forward, Committing, Plan, p0,
       names
  <2>7. Carried'
    BY <1>1, <2>2, <2>4, <2>12, <1>0, <2>11 DEF Carried, Shape, InPlace, InSpare, Text,
       Current, Plan, p0, Unchanged, names
  <2>8. DoomedIsSpent'
    BY <1>1, <2>2, <2>4, <2>12, <1>0, <2>11 DEF DoomedIsSpent, Shape, Text, InSpare, InPlace,
       Carried, Current, Plan, p0, names
  <2>9. Followed'
    <3> SUFFICES ASSUME NEW p \in Paths, p \notin last'.touched, p \notin last'.unrestored
                 PROVE  Follows(p)'
      BY DEF Followed
    <3>1. Follows(p)
      BY <1>1, <2>12, <2>2 DEF Followed
    <3>2. CASE p # tx.path
      <4>1. active'[p] = active[p] /\ spare'[p] = spare[p]
        BY <2>2, <2>4, <2>12, <3>2 DEF names
      <4>2. /\ Current(p)' = Current(p) /\ (AsBefore(p)' <=> AsBefore(p))
            /\ (Exchanged(p)' <=> Exchanged(p))
        BY <2>12, <2>2, <4>1 DEF Current, AsBefore, Exchanged
      <4> QED BY <1>0, <1>1, <2>12, <2>2, <2>11, <3>1, <3>2, <4>2 DEF Follows, Committing
    <3>3. CASE p = tx.path
      BY <1>0, <1>1, <2>2, <2>4, <2>12, <2>11, <3>1, <3>3 DEF Follows, Committing, AsBefore,
         Exchanged, Current, Plan, p0, Unchanged, names, Carried, PlanSound, Shape
    <3> QED BY <3>2, <3>3
  <2>10. Committing' => saved' = tx'.want
    BY <1>1, <2>12, <2>2 DEF Committing, IInv
  <2> QED BY <1>1, <2>1, <2>12, <2>3, <2>4, <2>5, <2>6, <2>7, <2>8, <2>9, <2>10, Step
<1>3. CASE Unrestored /\ UNCHANGED names
  <2>12. /\ content' = content /\ kept' = kept /\ saved' = saved
    BY <1>1, <1>3 DEF DetachNew, Succeeds, Fails
  <2>1. /\ UNCHANGED names /\ Unrestored
    BY <1>1, <1>3 DEF DetachNew, Succeeds, Fails, names, p0, Plan
  <2>2. /\ tx' \in Transactions /\ tx'.pc = "rollback"
        /\ tx'.want = tx.want /\ tx'.plan = tx.plan
        /\ tx'.todo = tx.todo /\ tx'.applied = tx.applied /\ tx'.path = tx.path
        /\ last'.before = last.before /\ last'.touched = last.touched /\ last' \in Outcomes
        /\ last'.unrestored = last.unrestored \cup {tx.path}
    BY <1>1, <2>1, Goes DEF Unrestored, Steps, Outcomes, p0
  <2>3. Own
    BY <1>1, <2>2, <2>12 DEF Own
  <2>4. NamesTyped' /\ Apart' /\ UserTextSurvives'
    BY <1>1, <2>1, <2>12, NothingMoves
  <2>11. Applied' = Applied /\ InHand' = {}
    BY <1>1, <2>2 DEF Applied, InHand, Between
  <2>6. Shape'
    BY <1>1, <1>3, <2>1, <2>2, <2>12, <1>0, <2>11 DEF Shape, Carried, Forward, Committing,
       Plan, p0, names
  <2>7. Carried'
    BY <1>1, <1>3, <2>1, <2>2, <2>12, <1>0, <2>11 DEF Carried, Shape, InPlace, InSpare, Text,
       Current, Plan, p0, Unchanged, names
  <2>8. DoomedIsSpent'
    BY <1>1, <1>3, <2>1, <2>2, <2>12, <1>0, <2>11 DEF DoomedIsSpent, Shape, Text, InSpare,
       InPlace, Carried, Current, Plan, p0, names
  <2>9. Followed'
    <3> SUFFICES ASSUME NEW p \in Paths, p \notin last'.touched, p \notin last'.unrestored
                 PROVE  Follows(p)'
      BY DEF Followed
    <3>1. Follows(p)
      BY <1>1, <2>12, <2>2 DEF Followed
    <3>2. CASE p # tx.path
      <4>1. active'[p] = active[p] /\ spare'[p] = spare[p]
        BY <2>1, <2>2, <2>12, <3>2 DEF names
      <4>2. /\ Current(p)' = Current(p) /\ (AsBefore(p)' <=> AsBefore(p))
            /\ (Exchanged(p)' <=> Exchanged(p))
        BY <2>12, <2>2, <4>1 DEF Current, AsBefore, Exchanged
      <4> QED BY <1>0, <1>1, <2>12, <2>2, <2>11, <3>1, <3>2, <4>2 DEF Follows, Committing
    <3>3. CASE p = tx.path
      BY <1>0, <1>1, <1>3, <2>1, <2>2, <2>12, <2>11, <3>1, <3>3
      DEF Follows, Committing, AsBefore, Exchanged, Current, Plan, p0, Unchanged, names,
         Carried, PlanSound, Shape
    <3> QED BY <3>2, <3>3
  <2>10. Committing' => saved' = tx'.want
    BY <1>1, <2>12, <2>2 DEF Committing, IInv
  <2> QED BY <1>1, <2>1, <2>12, <2>3, <2>4, <2>6, <2>7, <2>8, <2>9, <2>10, Step
<1> QED BY <1>1, <1>2, <1>3 DEF DetachNew, Succeeds, Fails, names

LEMMA CheckNewKeeps == ASSUME IInv, CheckNew PROVE IInv'
<1>1. /\ Types /\ Apart /\ Shape /\ PlanSound /\ Texted /\ UserTextSurvives
      /\ Carried /\ DoomedIsSpent /\ Followed
      /\ InHand = {tx.path}
      /\ tx \in Transactions /\ tx.pc = "check_new" /\ tx.path \in Paths
      /\ NamesTyped /\ saved \in BOOLEAN /\ last \in Outcomes /\ edits' = edits
      /\ detached # NoFile /\ content' = content /\ kept' = kept /\ saved' = saved
      /\ last' = last /\ UNCHANGED names
  BY DEF IInv, Types, NamesTyped, Transactions, CheckNew, Succeeds, Fails, bounds, Shape,
     Forward, Committing, Doomed, InHand, Between
<1>0. /\ Applied \subseteq Paths /\ tx.todo \subseteq Paths /\ tx.applied \in Seq(Paths)
      /\ InHand \cap Applied = {} /\ tx.todo \cap (Applied \cup InHand) = {}
      /\ \A e \in kept : e # Absent.text /\ e # 0
  BY <1>1, Places DEF Shape, Types, Absent
<1>2. CASE content[detached] = Plan.updated /\ Goto("drop_new")
  <2>12. /\ content' = content /\ kept' = kept /\ saved' = saved /\ last' = last
    BY <1>1, <1>2 DEF CheckNew, Succeeds, Fails
  <2>1. /\ UNCHANGED names /\ Goto("drop_new")
    BY <1>1, <1>2 DEF CheckNew, Succeeds, Fails, names, p0, Plan
  <2>2. /\ tx' \in Transactions /\ tx'.pc = "drop_new"
        /\ tx'.want = tx.want /\ tx'.plan = tx.plan
        /\ tx'.todo = tx.todo /\ tx'.applied = tx.applied /\ tx'.path = tx.path
    BY <1>1, <2>1, Goes DEF Steps
  <2>3. Own
    BY <1>1, <2>2, <2>12 DEF Own
  <2>4. NamesTyped' /\ Apart' /\ UserTextSurvives'
    BY <1>1, <2>1, <2>12, NothingMoves
  <2>11. Applied' = Applied /\ InHand' = {tx.path}
    BY <1>1, <2>2 DEF Applied, InHand, Between
  <2>6. Shape'
    BY <1>1, <1>2, <2>1, <2>2, <2>12, <1>0, <2>11 DEF Shape, Carried, Forward, Committing,
       Plan, p0, names
  <2>7. Carried'
    BY <1>1, <1>2, <2>1, <2>2, <2>12, <1>0, <2>11 DEF Carried, Shape, InPlace, InSpare, Text,
       Current, Plan, p0, Unchanged, names
  <2>8. DoomedIsSpent'
    <3>1. tx.path \in InHand
      BY <1>1
    <3>2. tx.plan[tx.path].original = Absent /\ tx.plan[tx.path] # NoPlan
      BY <1>1, <3>1 DEF Shape
    <3>3. content[detached].text = 0
      BY <1>1, <1>2, <3>2 DEF PlanSound, Plan, p0
    <3> QED BY <1>0, <1>1, <2>1, <2>2, <2>12, <3>3 DEF DoomedIsSpent, names
  <2>9. Followed'
    <3> SUFFICES ASSUME NEW p \in Paths, p \notin last'.touched, p \notin last'.unrestored
                 PROVE  Follows(p)'
      BY DEF Followed
    <3>1. Follows(p)
      BY <1>1, <2>12, <2>2 DEF Followed
    <3>2. CASE p # tx.path
      <4>1. active'[p] = active[p] /\ spare'[p] = spare[p]
        BY <2>1, <2>2, <2>12, <3>2 DEF names
      <4>2. /\ Current(p)' = Current(p) /\ (AsBefore(p)' <=> AsBefore(p))
            /\ (Exchanged(p)' <=> Exchanged(p))
        BY <2>12, <2>2, <4>1 DEF Current, AsBefore, Exchanged
      <4> QED BY <1>0, <1>1, <2>12, <2>2, <2>11, <3>1, <3>2, <4>2 DEF Follows, Committing
    <3>3. CASE p = tx.path
      BY <1>0, <1>1, <1>2, <2>1, <2>2, <2>12, <2>11, <3>1, <3>3
      DEF Follows, Committing, AsBefore, Exchanged, Current, Plan, p0, Unchanged, names,
         Carried, PlanSound, Shape
    <3> QED BY <3>2, <3>3
  <2>10. Committing' => saved' = tx'.want
    BY <1>1, <2>12, <2>2 DEF Committing, IInv
  <2> QED BY <1>1, <2>1, <2>12, <2>3, <2>4, <2>6, <2>7, <2>8, <2>9, <2>10, Step
<1>3. CASE Goto("put_back")
  <2>12. /\ content' = content /\ kept' = kept /\ saved' = saved /\ last' = last
    BY <1>1, <1>3 DEF CheckNew, Succeeds, Fails
  <2>1. /\ UNCHANGED names /\ Goto("put_back")
    BY <1>1, <1>3 DEF CheckNew, Succeeds, Fails, names, p0, Plan
  <2>2. /\ tx' \in Transactions /\ tx'.pc = "put_back"
        /\ tx'.want = tx.want /\ tx'.plan = tx.plan
        /\ tx'.todo = tx.todo /\ tx'.applied = tx.applied /\ tx'.path = tx.path
    BY <1>1, <2>1, Goes DEF Steps
  <2>3. Own
    BY <1>1, <2>2, <2>12 DEF Own
  <2>4. NamesTyped' /\ Apart' /\ UserTextSurvives'
    BY <1>1, <2>1, <2>12, NothingMoves
  <2>11. Applied' = Applied /\ InHand' = {tx.path}
    BY <1>1, <2>2 DEF Applied, InHand, Between
  <2>6. Shape'
    BY <1>1, <1>3, <2>1, <2>2, <2>12, <1>0, <2>11 DEF Shape, Carried, Forward, Committing,
       Plan, p0, names
  <2>7. Carried'
    BY <1>1, <1>3, <2>1, <2>2, <2>12, <1>0, <2>11 DEF Carried, Shape, InPlace, InSpare, Text,
       Current, Plan, p0, Unchanged, names
  <2>8. DoomedIsSpent'
    BY <1>1, <1>3, <2>1, <2>2, <2>12, <1>0, <2>11 DEF DoomedIsSpent, Shape, Text, InSpare,
       InPlace, Carried, Current, Plan, p0, names
  <2>9. Followed'
    <3> SUFFICES ASSUME NEW p \in Paths, p \notin last'.touched, p \notin last'.unrestored
                 PROVE  Follows(p)'
      BY DEF Followed
    <3>1. Follows(p)
      BY <1>1, <2>12, <2>2 DEF Followed
    <3>2. CASE p # tx.path
      <4>1. active'[p] = active[p] /\ spare'[p] = spare[p]
        BY <2>1, <2>2, <2>12, <3>2 DEF names
      <4>2. /\ Current(p)' = Current(p) /\ (AsBefore(p)' <=> AsBefore(p))
            /\ (Exchanged(p)' <=> Exchanged(p))
        BY <2>12, <2>2, <4>1 DEF Current, AsBefore, Exchanged
      <4> QED BY <1>0, <1>1, <2>12, <2>2, <2>11, <3>1, <3>2, <4>2 DEF Follows, Committing
    <3>3. CASE p = tx.path
      BY <1>0, <1>1, <1>3, <2>1, <2>2, <2>12, <2>11, <3>1, <3>3
      DEF Follows, Committing, AsBefore, Exchanged, Current, Plan, p0, Unchanged, names,
         Carried, PlanSound, Shape
    <3> QED BY <3>2, <3>3
  <2>10. Committing' => saved' = tx'.want
    BY <1>1, <2>12, <2>2 DEF Committing, IInv
  <2> QED BY <1>1, <2>1, <2>12, <2>3, <2>4, <2>6, <2>7, <2>8, <2>9, <2>10, Step
<1> QED BY <1>1, <1>2, <1>3 DEF CheckNew, Succeeds, Fails, names

LEMMA DropNewKeeps == ASSUME IInv, DropNew PROVE IInv'
<1>1. /\ Types /\ Apart /\ Shape /\ PlanSound /\ Texted /\ UserTextSurvives
      /\ Carried /\ DoomedIsSpent /\ Followed
      /\ InHand = {tx.path}
      /\ tx \in Transactions /\ tx.pc = "drop_new" /\ tx.path \in Paths
      /\ NamesTyped /\ saved \in BOOLEAN /\ last \in Outcomes /\ edits' = edits
      /\ detached # NoFile /\ content' = content /\ kept' = kept /\ saved' = saved
  BY DEF IInv, Types, NamesTyped, Transactions, DropNew, Succeeds, Fails, bounds, Shape,
     Forward, Committing, Doomed, InHand, Between
<1>0. /\ Applied \subseteq Paths /\ tx.todo \subseteq Paths /\ tx.applied \in Seq(Paths)
      /\ InHand \cap Applied = {} /\ tx.todo \cap (Applied \cup InHand) = {}
      /\ \A e \in kept : e # Absent.text /\ e # 0
  BY <1>1, Places DEF Shape, Types, Absent
<1>2. CASE /\ detached' = NoFile
           /\ UNCHANGED <<active, spare, strays>>
           /\ Goto("rollback")
           /\ last' = last
  <2>12. /\ content' = content /\ kept' = kept /\ saved' = saved /\ last' = last
    BY <1>1, <1>2 DEF DropNew, Succeeds, Fails
  <2>1. /\ detached' = NoFile /\ UNCHANGED <<active, spare, strays>> /\ Goto("rollback")
    BY <1>1, <1>2 DEF DropNew, Succeeds, Fails, names, p0, Plan
  <2>2. /\ tx' \in Transactions /\ tx'.pc = "rollback"
        /\ tx'.want = tx.want /\ tx'.plan = tx.plan
        /\ tx'.todo = tx.todo /\ tx'.applied = tx.applied /\ tx'.path = tx.path
    BY <1>1, <2>1, Goes DEF Steps
  <2>3. Own
    BY <1>1, <2>2, <2>12 DEF Own
  <2>4. /\ NamesTyped' /\ Apart' /\ Named \subseteq Named' \cup {detached}
        /\ UNCHANGED <<active, spare>> /\ detached' = NoFile
    BY <1>1, <2>1, <2>12, DetachedGoes
  <2>5. UserTextSurvives'
    BY <1>1, <2>12, <2>4, TextKept DEF DoomedIsSpent
  <2>11. Applied' = Applied /\ InHand' = {}
    BY <1>1, <2>2 DEF Applied, InHand, Between
  <2>6. Shape'
    BY <1>1, <2>2, <2>4, <2>12, <1>0, <2>11 DEF Shape, Carried, Forward, Committing, Plan, p0,
       names
  <2>7. Carried'
    BY <1>1, <2>2, <2>4, <2>12, <1>0, <2>11 DEF Carried, Shape, InPlace, InSpare, Text,
       Current, Plan, p0, Unchanged, names
  <2>8. DoomedIsSpent'
    BY <1>1, <2>2, <2>4, <2>12, <1>0, <2>11 DEF DoomedIsSpent, Shape, Text, InSpare, InPlace,
       Carried, Current, Plan, p0, names
  <2>9. Followed'
    <3> SUFFICES ASSUME NEW p \in Paths, p \notin last'.touched, p \notin last'.unrestored
                 PROVE  Follows(p)'
      BY DEF Followed
    <3>1. Follows(p)
      BY <1>1, <2>12, <2>2 DEF Followed
    <3>2. CASE p # tx.path
      <4>1. active'[p] = active[p] /\ spare'[p] = spare[p]
        BY <2>2, <2>4, <2>12, <3>2 DEF names
      <4>2. /\ Current(p)' = Current(p) /\ (AsBefore(p)' <=> AsBefore(p))
            /\ (Exchanged(p)' <=> Exchanged(p))
        BY <2>12, <2>2, <4>1 DEF Current, AsBefore, Exchanged
      <4> QED BY <1>0, <1>1, <2>12, <2>2, <2>11, <3>1, <3>2, <4>2 DEF Follows, Committing
    <3>3. CASE p = tx.path
      BY <1>0, <1>1, <2>2, <2>4, <2>12, <2>11, <3>1, <3>3 DEF Follows, Committing, AsBefore,
         Exchanged, Current, Plan, p0, Unchanged, names, Carried, PlanSound, Shape
    <3> QED BY <3>2, <3>3
  <2>10. Committing' => saved' = tx'.want
    BY <1>1, <2>12, <2>2 DEF Committing, IInv
  <2> QED BY <1>1, <2>1, <2>12, <2>3, <2>4, <2>5, <2>6, <2>7, <2>8, <2>9, <2>10, Step
<1>3. CASE /\ strays' = strays \cup {detached}
           /\ detached' = NoFile
           /\ UNCHANGED <<active, spare>>
           /\ Unrestored
  <2>12. /\ content' = content /\ kept' = kept /\ saved' = saved
    BY <1>1, <1>3 DEF DropNew, Succeeds, Fails
  <2>1. /\ strays' = strays \cup {detached} /\ detached' = NoFile
        /\ UNCHANGED <<active, spare>> /\ Unrestored
    BY <1>1, <1>3 DEF DropNew, Succeeds, Fails, names, p0, Plan
  <2>2. /\ tx' \in Transactions /\ tx'.pc = "rollback"
        /\ tx'.want = tx.want /\ tx'.plan = tx.plan
        /\ tx'.todo = tx.todo /\ tx'.applied = tx.applied /\ tx'.path = tx.path
        /\ last'.before = last.before /\ last'.touched = last.touched /\ last' \in Outcomes
        /\ last'.unrestored = last.unrestored \cup {tx.path}
    BY <1>1, <2>1, Goes DEF Unrestored, Steps, Outcomes, p0
  <2>3. Own
    BY <1>1, <2>2, <2>12 DEF Own
  <2>4. /\ NamesTyped' /\ Apart' /\ Named \subseteq Named' /\ UNCHANGED <<active, spare>>
        /\ detached' = NoFile
    <3>1. detached \notin strays
      BY <1>1 DEF Apart
    <3> QED BY <1>1, <2>1, <2>12, <3>1, DetachedGoes
  <2>5. UserTextSurvives'
    BY <1>1, <2>12, <2>4 DEF UserTextSurvives
  <2>11. Applied' = Applied /\ InHand' = {}
    BY <1>1, <2>2 DEF Applied, InHand, Between
  <2>6. Shape'
    BY <1>1, <2>2, <2>4, <2>12, <1>0, <2>11 DEF Shape, Carried, Forward, Committing, Plan, p0,
       names
  <2>7. Carried'
    BY <1>1, <2>2, <2>4, <2>12, <1>0, <2>11 DEF Carried, Shape, InPlace, InSpare, Text,
       Current, Plan, p0, Unchanged, names
  <2>8. DoomedIsSpent'
    BY <1>1, <2>2, <2>4, <2>12, <1>0, <2>11 DEF DoomedIsSpent, Shape, Text, InSpare, InPlace,
       Carried, Current, Plan, p0, names
  <2>9. Followed'
    <3> SUFFICES ASSUME NEW p \in Paths, p \notin last'.touched, p \notin last'.unrestored
                 PROVE  Follows(p)'
      BY DEF Followed
    <3>1. Follows(p)
      BY <1>1, <2>12, <2>2 DEF Followed
    <3>2. CASE p # tx.path
      <4>1. active'[p] = active[p] /\ spare'[p] = spare[p]
        BY <2>2, <2>4, <2>12, <3>2 DEF names
      <4>2. /\ Current(p)' = Current(p) /\ (AsBefore(p)' <=> AsBefore(p))
            /\ (Exchanged(p)' <=> Exchanged(p))
        BY <2>12, <2>2, <4>1 DEF Current, AsBefore, Exchanged
      <4> QED BY <1>0, <1>1, <2>12, <2>2, <2>11, <3>1, <3>2, <4>2 DEF Follows, Committing
    <3>3. CASE p = tx.path
      BY <1>0, <1>1, <2>2, <2>4, <2>12, <2>11, <3>1, <3>3 DEF Follows, Committing, AsBefore,
         Exchanged, Current, Plan, p0, Unchanged, names, Carried, PlanSound, Shape
    <3> QED BY <3>2, <3>3
  <2>10. Committing' => saved' = tx'.want
    BY <1>1, <2>12, <2>2 DEF Committing, IInv
  <2> QED BY <1>1, <2>1, <2>12, <2>3, <2>4, <2>5, <2>6, <2>7, <2>8, <2>9, <2>10, Step
<1> QED BY <1>1, <1>2, <1>3 DEF DropNew, Succeeds, Fails, names

LEMMA PutBackKeeps == ASSUME IInv, PutBack PROVE IInv'
<1>1. /\ Types /\ Apart /\ Shape /\ PlanSound /\ Texted /\ UserTextSurvives
      /\ Carried /\ DoomedIsSpent /\ Followed
      /\ InHand = {tx.path}
      /\ tx \in Transactions /\ tx.pc = "put_back" /\ tx.path \in Paths
      /\ NamesTyped /\ saved \in BOOLEAN /\ last \in Outcomes /\ edits' = edits
      /\ detached # NoFile /\ content' = content /\ kept' = kept /\ saved' = saved
  BY DEF IInv, Types, NamesTyped, Transactions, PutBack, Succeeds, Fails, bounds, Shape,
     Forward, Committing, Doomed, InHand, Between
<1>0. /\ Applied \subseteq Paths /\ tx.todo \subseteq Paths /\ tx.applied \in Seq(Paths)
      /\ InHand \cap Applied = {} /\ tx.todo \cap (Applied \cup InHand) = {}
      /\ \A e \in kept : e # Absent.text /\ e # 0
  BY <1>1, Places DEF Shape, Types, Absent
<1>2. CASE /\ active[p0] = NoFile
           /\ active' = [active EXCEPT ![p0] = detached]
           /\ detached' = NoFile
           /\ UNCHANGED <<spare, strays>>
           /\ Unrestored
  <2>12. /\ content' = content /\ kept' = kept /\ saved' = saved
    BY <1>1, <1>2 DEF PutBack, Succeeds, Fails
  <2>1. /\ active' = [active EXCEPT ![p0] = detached] /\ detached' = NoFile
        /\ UNCHANGED <<spare, strays>> /\ Unrestored
    BY <1>1, <1>2 DEF PutBack, Succeeds, Fails, names, p0, Plan
  <2>2. /\ tx' \in Transactions /\ tx'.pc = "rollback"
        /\ tx'.want = tx.want /\ tx'.plan = tx.plan
        /\ tx'.todo = tx.todo /\ tx'.applied = tx.applied /\ tx'.path = tx.path
        /\ last'.before = last.before /\ last'.touched = last.touched /\ last' \in Outcomes
        /\ last'.unrestored = last.unrestored \cup {tx.path}
    BY <1>1, <2>1, Goes DEF Unrestored, Steps, Outcomes, p0
  <2>3. Own
    BY <1>1, <2>2, <2>12 DEF Own
  <2>4. /\ NamesTyped' /\ Apart' /\ Named \subseteq Named' /\ UNCHANGED spare
        /\ detached' = NoFile
        /\ \A q \in Paths : active'[q] = IF q = tx.path THEN detached ELSE active[q]
    <3>1. \A q \in Paths : active'[q] = IF q = tx.path THEN detached ELSE active[q]
      BY <1>1, <2>1 DEF NamesTyped, p0
    <3>2. active' # active
      BY <1>1, <1>2, <3>1 DEF p0
    <3> QED BY <1>1, <1>2, <2>1, <2>12, <3>1, <3>2, DetachedGoes DEF p0
  <2>5. UserTextSurvives'
    BY <1>1, <2>12, <2>4 DEF UserTextSurvives
  <2>11. Applied' = Applied /\ InHand' = {}
    BY <1>1, <2>2 DEF Applied, InHand, Between
  <2>6. Shape'
    BY <1>1, <2>2, <2>4, <2>12, <1>0, <2>11 DEF Shape, Carried, Forward, Committing, Plan, p0,
       names
  <2>7. Carried'
    BY <1>1, <2>2, <2>4, <2>12, <1>0, <2>11 DEF Carried, Shape, InPlace, InSpare, Text,
       Current, Plan, p0, Unchanged, names
  <2>8. DoomedIsSpent'
    BY <1>1, <2>2, <2>4, <2>12, <1>0, <2>11 DEF DoomedIsSpent, Shape, Text, InSpare, InPlace,
       Carried, Current, Plan, p0, names
  <2>9. Followed'
    <3> SUFFICES ASSUME NEW p \in Paths, p \notin last'.touched, p \notin last'.unrestored
                 PROVE  Follows(p)'
      BY DEF Followed
    <3>1. Follows(p)
      BY <1>1, <2>12, <2>2 DEF Followed
    <3>2. CASE p # tx.path
      <4>1. active'[p] = active[p] /\ spare'[p] = spare[p]
        BY <2>2, <2>4, <2>12, <3>2 DEF names
      <4>2. /\ Current(p)' = Current(p) /\ (AsBefore(p)' <=> AsBefore(p))
            /\ (Exchanged(p)' <=> Exchanged(p))
        BY <2>12, <2>2, <4>1 DEF Current, AsBefore, Exchanged
      <4> QED BY <1>0, <1>1, <2>12, <2>2, <2>11, <3>1, <3>2, <4>2 DEF Follows, Committing
    <3>3. CASE p = tx.path
      BY <1>0, <1>1, <2>2, <2>4, <2>12, <2>11, <3>1, <3>3 DEF Follows, Committing, AsBefore,
         Exchanged, Current, Plan, p0, Unchanged, names, Carried, PlanSound, Shape
    <3> QED BY <3>2, <3>3
  <2>10. Committing' => saved' = tx'.want
    BY <1>1, <2>12, <2>2 DEF Committing, IInv
  <2> QED BY <1>1, <2>1, <2>12, <2>3, <2>4, <2>5, <2>6, <2>7, <2>8, <2>9, <2>10, Step
<1>3. CASE /\ strays' = strays \cup {detached}
           /\ detached' = NoFile
           /\ UNCHANGED <<active, spare>>
           /\ Unrestored
  <2>12. /\ content' = content /\ kept' = kept /\ saved' = saved
    BY <1>1, <1>3 DEF PutBack, Succeeds, Fails
  <2>1. /\ strays' = strays \cup {detached} /\ detached' = NoFile
        /\ UNCHANGED <<active, spare>> /\ Unrestored
    BY <1>1, <1>3 DEF PutBack, Succeeds, Fails, names, p0, Plan
  <2>2. /\ tx' \in Transactions /\ tx'.pc = "rollback"
        /\ tx'.want = tx.want /\ tx'.plan = tx.plan
        /\ tx'.todo = tx.todo /\ tx'.applied = tx.applied /\ tx'.path = tx.path
        /\ last'.before = last.before /\ last'.touched = last.touched /\ last' \in Outcomes
        /\ last'.unrestored = last.unrestored \cup {tx.path}
    BY <1>1, <2>1, Goes DEF Unrestored, Steps, Outcomes, p0
  <2>3. Own
    BY <1>1, <2>2, <2>12 DEF Own
  <2>4. /\ NamesTyped' /\ Apart' /\ Named \subseteq Named' /\ UNCHANGED <<active, spare>>
        /\ detached' = NoFile
    <3>1. detached \notin strays
      BY <1>1 DEF Apart
    <3> QED BY <1>1, <2>1, <2>12, <3>1, DetachedGoes
  <2>5. UserTextSurvives'
    BY <1>1, <2>12, <2>4 DEF UserTextSurvives
  <2>11. Applied' = Applied /\ InHand' = {}
    BY <1>1, <2>2 DEF Applied, InHand, Between
  <2>6. Shape'
    BY <1>1, <2>2, <2>4, <2>12, <1>0, <2>11 DEF Shape, Carried, Forward, Committing, Plan, p0,
       names
  <2>7. Carried'
    BY <1>1, <2>2, <2>4, <2>12, <1>0, <2>11 DEF Carried, Shape, InPlace, InSpare, Text,
       Current, Plan, p0, Unchanged, names
  <2>8. DoomedIsSpent'
    BY <1>1, <2>2, <2>4, <2>12, <1>0, <2>11 DEF DoomedIsSpent, Shape, Text, InSpare, InPlace,
       Carried, Current, Plan, p0, names
  <2>9. Followed'
    <3> SUFFICES ASSUME NEW p \in Paths, p \notin last'.touched, p \notin last'.unrestored
                 PROVE  Follows(p)'
      BY DEF Followed
    <3>1. Follows(p)
      BY <1>1, <2>12, <2>2 DEF Followed
    <3>2. CASE p # tx.path
      <4>1. active'[p] = active[p] /\ spare'[p] = spare[p]
        BY <2>2, <2>4, <2>12, <3>2 DEF names
      <4>2. /\ Current(p)' = Current(p) /\ (AsBefore(p)' <=> AsBefore(p))
            /\ (Exchanged(p)' <=> Exchanged(p))
        BY <2>12, <2>2, <4>1 DEF Current, AsBefore, Exchanged
      <4> QED BY <1>0, <1>1, <2>12, <2>2, <2>11, <3>1, <3>2, <4>2 DEF Follows, Committing
    <3>3. CASE p = tx.path
      BY <1>0, <1>1, <2>2, <2>4, <2>12, <2>11, <3>1, <3>3 DEF Follows, Committing, AsBefore,
         Exchanged, Current, Plan, p0, Unchanged, names, Carried, PlanSound, Shape
    <3> QED BY <3>2, <3>3
  <2>10. Committing' => saved' = tx'.want
    BY <1>1, <2>12, <2>2 DEF Committing, IInv
  <2> QED BY <1>1, <2>1, <2>12, <2>3, <2>4, <2>5, <2>6, <2>7, <2>8, <2>9, <2>10, Step
<1> QED BY <1>1, <1>2, <1>3 DEF PutBack, Succeeds, Fails, names

-----------------------------------------------------------------------------
(* The save, commit and finalize_backup.                                   *)

LEMMA SaveKeeps == ASSUME IInv, Save PROVE IInv'
<1>1. /\ Types /\ Apart /\ Shape /\ PlanSound /\ Texted /\ UserTextSurvives
      /\ Carried /\ DoomedIsSpent /\ Followed
      /\ InHand = {}
      /\ tx \in Transactions /\ tx.pc = "save" /\ tx.path \in Paths
      /\ NamesTyped /\ saved \in BOOLEAN /\ last \in Outcomes /\ edits' = edits
      /\ detached = NoFile /\ last.unrestored = {}
      /\ saved' \in BOOLEAN /\ content' = content /\ kept' = kept /\ last' = last
      /\ UNCHANGED names
  BY DEF IInv, Types, NamesTyped, Transactions, Save, Succeeds, Fails, bounds, Shape, Forward,
     Committing, Doomed, InHand, Between
<1>0. /\ Applied \subseteq Paths /\ tx.todo \subseteq Paths /\ tx.applied \in Seq(Paths)
      /\ InHand \cap Applied = {} /\ tx.todo \cap (Applied \cup InHand) = {}
      /\ \A e \in kept : e # Absent.text /\ e # 0
  BY <1>1, Places DEF Shape, Types, Absent
<1>2. CASE saved' = tx.want /\ Goto("commit")
  <2>12. /\ content' = content /\ kept' = kept /\ saved' = tx.want /\ last' = last
    BY <1>1, <1>2 DEF Save, Succeeds, Fails
  <2>1. /\ UNCHANGED names /\ Goto("commit")
    BY <1>1, <1>2 DEF Save, Succeeds, Fails, names, p0, Plan
  <2>2. /\ tx' \in Transactions /\ tx'.pc = "commit"
        /\ tx'.want = tx.want /\ tx'.plan = tx.plan
        /\ tx'.todo = tx.todo /\ tx'.applied = tx.applied /\ tx'.path = tx.path
    BY <1>1, <2>1, Goes DEF Steps
  <2>3. Own
    BY <1>1, <2>2, <2>12 DEF Own
  <2>4. NamesTyped' /\ Apart' /\ UserTextSurvives'
    BY <1>1, <2>1, <2>12, NothingMoves
  <2>11. Applied' = Applied /\ InHand' = {}
    BY <1>1, <2>2 DEF Applied, InHand, Between
  <2>6. Shape'
    BY <1>1, <1>2, <2>1, <2>2, <2>12, <1>0, <2>11 DEF Shape, Carried, Forward, Committing,
       Plan, p0, names
  <2>7. Carried'
    BY <1>1, <1>2, <2>1, <2>2, <2>12, <1>0, <2>11 DEF Carried, Shape, InPlace, InSpare, Text,
       Current, Plan, p0, Unchanged, names
  <2>8. DoomedIsSpent'
    BY <1>1, <1>2, <2>1, <2>2, <2>12, <1>0, <2>11 DEF DoomedIsSpent, Shape, Text, InSpare,
       InPlace, Carried, Current, Plan, p0, names
  <2>9. Followed'
    <3> SUFFICES ASSUME NEW p \in Paths, p \notin last'.touched, p \notin last'.unrestored
                 PROVE  Follows(p)'
      BY DEF Followed
    <3>1. Follows(p)
      BY <1>1, <2>12, <2>2 DEF Followed
    <3>2. CASE p # tx.path
      <4>1. active'[p] = active[p] /\ spare'[p] = spare[p]
        BY <2>1, <2>2, <2>12, <3>2 DEF names
      <4>2. /\ Current(p)' = Current(p) /\ (AsBefore(p)' <=> AsBefore(p))
            /\ (Exchanged(p)' <=> Exchanged(p))
        BY <2>12, <2>2, <4>1 DEF Current, AsBefore, Exchanged
      <4> QED BY <1>0, <1>1, <2>2, <2>12, <2>11, <3>1, <4>2 DEF Follows, Committing, Exchanged,
                 AsBefore, Shape, Forward
    <3>3. CASE p = tx.path
      <4>1. Current(p)' = Current(p)
        BY <2>1, <2>12 DEF Current, names
      <4> QED BY <1>0, <1>1, <2>2, <2>12, <2>11, <3>1, <4>1 DEF Follows, Committing, Exchanged,
                 AsBefore, Shape, Forward
    <3> QED BY <3>2, <3>3
  <2>10. Committing' => saved' = tx'.want
    BY <1>1, <2>12, <2>2 DEF Committing, IInv
  <2> QED BY <1>1, <2>1, <2>12, <2>3, <2>4, <2>6, <2>7, <2>8, <2>9, <2>10, Step
<1>3. CASE saved' = saved /\ Goto("rollback")
  <2>12. /\ content' = content /\ kept' = kept /\ saved' = saved /\ last' = last
    BY <1>1, <1>3 DEF Save, Succeeds, Fails
  <2>1. /\ UNCHANGED names /\ Goto("rollback")
    BY <1>1, <1>3 DEF Save, Succeeds, Fails, names, p0, Plan
  <2>2. /\ tx' \in Transactions /\ tx'.pc = "rollback"
        /\ tx'.want = tx.want /\ tx'.plan = tx.plan
        /\ tx'.todo = tx.todo /\ tx'.applied = tx.applied /\ tx'.path = tx.path
    BY <1>1, <2>1, Goes DEF Steps
  <2>3. Own
    BY <1>1, <2>2, <2>12 DEF Own
  <2>4. NamesTyped' /\ Apart' /\ UserTextSurvives'
    BY <1>1, <2>1, <2>12, NothingMoves
  <2>11. Applied' = Applied /\ InHand' = {}
    BY <1>1, <2>2 DEF Applied, InHand, Between
  <2>6. Shape'
    BY <1>1, <1>3, <2>1, <2>2, <2>12, <1>0, <2>11 DEF Shape, Carried, Forward, Committing,
       Plan, p0, names
  <2>7. Carried'
    BY <1>1, <1>3, <2>1, <2>2, <2>12, <1>0, <2>11 DEF Carried, Shape, InPlace, InSpare, Text,
       Current, Plan, p0, Unchanged, names
  <2>8. DoomedIsSpent'
    BY <1>1, <1>3, <2>1, <2>2, <2>12, <1>0, <2>11 DEF DoomedIsSpent, Shape, Text, InSpare,
       InPlace, Carried, Current, Plan, p0, names
  <2>9. Followed'
    <3> SUFFICES ASSUME NEW p \in Paths, p \notin last'.touched, p \notin last'.unrestored
                 PROVE  Follows(p)'
      BY DEF Followed
    <3>1. Follows(p)
      BY <1>1, <2>12, <2>2 DEF Followed
    <3>2. CASE p # tx.path
      <4>1. active'[p] = active[p] /\ spare'[p] = spare[p]
        BY <2>1, <2>2, <2>12, <3>2 DEF names
      <4>2. /\ Current(p)' = Current(p) /\ (AsBefore(p)' <=> AsBefore(p))
            /\ (Exchanged(p)' <=> Exchanged(p))
        BY <2>12, <2>2, <4>1 DEF Current, AsBefore, Exchanged
      <4> QED BY <1>0, <1>1, <2>12, <2>2, <2>11, <3>1, <3>2, <4>2 DEF Follows, Committing
    <3>3. CASE p = tx.path
      BY <1>0, <1>1, <1>3, <2>1, <2>2, <2>12, <2>11, <3>1, <3>3
      DEF Follows, Committing, AsBefore, Exchanged, Current, Plan, p0, Unchanged, names,
         Carried, PlanSound, Shape
    <3> QED BY <3>2, <3>3
  <2>10. Committing' => saved' = tx'.want
    BY <1>1, <2>12, <2>2 DEF Committing, IInv
  <2> QED BY <1>1, <2>1, <2>12, <2>3, <2>4, <2>6, <2>7, <2>8, <2>9, <2>10, Step
<1> QED BY <1>1, <1>2, <1>3 DEF Save, Succeeds, Fails, names

LEMMA CommitKeeps == ASSUME IInv, Commit PROVE IInv'
<1>1. /\ Types /\ Apart /\ Shape /\ PlanSound /\ Texted /\ UserTextSurvives
      /\ Carried /\ DoomedIsSpent /\ Followed
      /\ InHand = {}
      /\ tx \in Transactions /\ tx.pc = "commit" /\ tx.path \in Paths
      /\ NamesTyped /\ saved \in BOOLEAN /\ last \in Outcomes /\ edits' = edits
      /\ detached = NoFile /\ last.unrestored = {} /\ content' = content /\ kept' = kept
      /\ saved' = saved
  BY DEF IInv, Types, NamesTyped, Transactions, Commit, Succeeds, Fails, bounds, Shape,
     Forward, Committing, Doomed, InHand, Between
<1>0. /\ Applied \subseteq Paths /\ tx.todo \subseteq Paths /\ tx.applied \in Seq(Paths)
      /\ InHand \cap Applied = {} /\ tx.todo \cap (Applied \cup InHand) = {}
      /\ \A e \in kept : e # Absent.text /\ e # 0
  BY <1>1, Places DEF Shape, Types, Absent
<1>2. CASE Return("ok") /\ active' = active /\ tx.applied = <<>>
  <2>1. tx' = Idle /\ last' = [last EXCEPT !.outcome = "ok"]
    BY <1>2 DEF Return
  <2>2. Applied = {} /\ last'.outcome = "ok" /\ last'.touched = last.touched
        /\ last'.unrestored = last.unrestored /\ last'.before = last.before
    BY <1>1, <1>2, <2>1, Places DEF Outcomes
  <2>3. FailedSetupIsUndone'
    BY <2>2 DEF FailedSetupIsUndone
  <2>4. HooksFollowSetting'
    <3> SUFFICES ASSUME NEW p \in Paths, p \notin last'.touched
                 PROVE  /\ Current(p)'.hook = saved'
                        /\ last'.before[p] # Absent => Current(p)'.text = last'.before[p].text
      BY DEF HooksFollowSetting
    <3>1. Follows(p)
      BY <1>1, <2>2 DEF Followed
    <3>2. Current(p) = IF tx.plan[p] = NoPlan THEN last.before[p] ELSE tx.plan[p].updated
      BY <1>1, <3>1 DEF Follows, Committing
    <3>3. saved = tx.want
      BY <1>1 DEF IInv, Committing
    <3>4. Current(p)' = Current(p)
      BY <1>1, <1>2 DEF Current
    <3>5. CASE tx.plan[p] = NoPlan
      BY <1>1, <2>2, <3>2, <3>3, <3>4, <3>5 DEF PlanSound
    <3>6. CASE tx.plan[p] # NoPlan
      BY <1>1, <2>2, <3>2, <3>3, <3>4, <3>6 DEF PlanSound
    <3> QED BY <3>5, <3>6
  <2> QED BY <1>1, <1>2, <2>3, <2>4, Returned
<1>3. CASE /\ tx.applied # <<>> /\ UNCHANGED names /\ last' = last
           /\ LET q == Head(tx.applied)
              IN  tx' = [tx EXCEPT !.path = q, !.applied = Tail(tx.applied),
                           !.pc = IF tx.plan[q].original = Absent THEN "commit" ELSE "detach_backup"]
  <2> DEFINE q == Head(tx.applied)
             t == Tail(tx.applied)
             c == IF tx.plan[q].original = Absent THEN "commit" ELSE "detach_backup"
  <2>0. q = Head(tx.applied) /\ t = Tail(tx.applied)
    OBVIOUS
  <2>14. UNCHANGED names /\ last' = last
    BY <1>3
  <2>2. tx' = [tx EXCEPT !.path = q, !.applied = t, !.pc = c]
    BY <1>3
  <2>3. /\ c \in Steps /\ c \in {"commit", "detach_backup"}
        /\ tx.plan[q].original = Absent => c = "commit"
        /\ tx.plan[q].original # Absent => c = "detach_backup"
    BY DEF Steps
  <2> HIDE DEF q, t, c
  <2>1. /\ t \in Seq(Paths) /\ q \in Paths /\ q \in Applied
        /\ {t[n] : n \in 1..Len(t)} = Applied \ {q}
        /\ \A m, n \in 1..Len(t) : t[m] = t[n] => m = n
    <3>1. \A m, n \in 1..Len(tx.applied) : tx.applied[m] = tx.applied[n] => m = n
      BY <1>1 DEF Shape
    <3>2. /\ t \in Seq(Paths) /\ q \in Paths
          /\ q \in {tx.applied[n] : n \in 1..Len(tx.applied)}
          /\ {t[n] : n \in 1..Len(t)} = {tx.applied[n] : n \in 1..Len(tx.applied)} \ {q}
          /\ \A m, n \in 1..Len(t) : t[m] = t[n] => m = n
      <4>1. tx.applied \in Seq(Paths) /\ tx.applied # <<>>
        BY <1>0, <1>3
      <4>2. \/ q = tx.applied[Len(tx.applied)] /\ t = SubSeq(tx.applied, 1, Len(tx.applied) - 1)
            \/ q = Head(tx.applied) /\ t = Tail(tx.applied)
        BY <2>0
      <4> QED BY <3>1, <4>1, <4>2, AppliedShrinks
    <3> QED BY <3>2 DEF Applied
  <2>4. /\ tx' \in Transactions /\ tx'.pc = c /\ tx'.path = q /\ tx'.applied = t
        /\ tx'.want = tx.want /\ tx'.plan = tx.plan /\ tx'.todo = tx.todo
    BY <1>1, <2>1, <2>2, <2>3 DEF Transactions
  <2>5. Applied' = Applied \ {q}
    BY <2>1, <2>4 DEF Applied
  <2>6. InHand' \subseteq {q} /\ (c # "commit" => InHand' = {q})
    BY <2>3, <2>4 DEF InHand, Between
  <2>7. Own
    BY <1>1, <2>14, <2>3, <2>4 DEF Own
  <2>8. NamesTyped' /\ Apart' /\ UserTextSurvives'
    BY <1>1, <2>14, NothingMoves
  <2>9. Shape'
    BY <1>0, <1>1, <2>14, <2>1, <2>3, <2>4, <2>5, <2>6 DEF Shape, Forward, Committing, names
  <2>10. Carried'
    BY <1>0, <1>1, <2>14, <2>1, <2>3, <2>4, <2>5 DEF Carried, InPlace, InSpare, Text, Current,
       names
  <2>11. DoomedIsSpent'
    BY <2>3, <2>4 DEF DoomedIsSpent
  <2>12. Followed'
    <3> SUFFICES ASSUME NEW p \in Paths, p \notin last'.touched, p \notin last'.unrestored
                 PROVE  Follows(p)'
      BY DEF Followed
    <3>1. Follows(p)
      BY <1>1, <2>14 DEF Followed
    <3>2. /\ Current(p)' = Current(p) /\ (AsBefore(p)' <=> AsBefore(p))
          /\ (Exchanged(p)' <=> Exchanged(p))
      BY <1>1, <2>14, <2>4 DEF Current, AsBefore, Exchanged, names
    <3> QED BY <1>0, <1>1, <2>1, <2>3, <2>4, <2>5, <2>6, <2>14, <3>1, <3>2
            DEF Follows, Committing
  <2>13. Committing' => saved' = tx'.want
    BY <1>1, <2>3, <2>4 DEF Committing, IInv
  <2> QED BY <1>1, <2>7, <2>8, <2>9, <2>10, <2>11, <2>12, <2>13, Step
<1> QED BY <1>1, <1>2, <1>3 DEF Commit, names

LEMMA DetachBackupKeeps == ASSUME IInv, DetachBackup PROVE IInv'
<1>1. /\ Types /\ Apart /\ Shape /\ PlanSound /\ Texted /\ UserTextSurvives
      /\ Carried /\ DoomedIsSpent /\ Followed
      /\ InHand = {tx.path}
      /\ tx \in Transactions /\ tx.pc = "detach_backup" /\ tx.path \in Paths
      /\ NamesTyped /\ saved \in BOOLEAN /\ last \in Outcomes /\ edits' = edits
      /\ detached = NoFile /\ content' = content /\ kept' = kept /\ saved' = saved
      /\ last' = last
  BY DEF IInv, Types, NamesTyped, Transactions, DetachBackup, Succeeds, Fails, bounds, Shape,
     Forward, Committing, Doomed, InHand, Between
<1>0. /\ Applied \subseteq Paths /\ tx.todo \subseteq Paths /\ tx.applied \in Seq(Paths)
      /\ InHand \cap Applied = {} /\ tx.todo \cap (Applied \cup InHand) = {}
      /\ \A e \in kept : e # Absent.text /\ e # 0
  BY <1>1, Places DEF Shape, Types, Absent
<1>2. CASE /\ detached' = spare[p0]
           /\ spare' = [spare EXCEPT ![p0] = NoFile]
           /\ UNCHANGED <<active, strays>>
           /\ Goto("check_backup")
  <2>12. /\ content' = content /\ kept' = kept /\ saved' = saved /\ last' = last
    BY <1>1, <1>2 DEF DetachBackup, Succeeds, Fails
  <2>1. /\ detached' = spare[p0] /\ spare' = [spare EXCEPT ![p0] = NoFile]
        /\ UNCHANGED <<active, strays>> /\ Goto("check_backup")
    BY <1>1, <1>2 DEF DetachBackup, Succeeds, Fails, names, p0, Plan
  <2>2. /\ tx' \in Transactions /\ tx'.pc = "check_backup"
        /\ tx'.want = tx.want /\ tx'.plan = tx.plan
        /\ tx'.todo = tx.todo /\ tx'.applied = tx.applied /\ tx'.path = tx.path
    BY <1>1, <2>1, Goes DEF Steps
  <2>3. Own
    BY <1>1, <2>2, <2>12 DEF Own
  <2>4. /\ NamesTyped' /\ Apart' /\ Named \subseteq Named' /\ UNCHANGED <<active, strays>>
        /\ detached' = spare[tx.path] /\ spare[tx.path] # NoFile
        /\ \A q \in Paths : spare'[q] = IF q = tx.path THEN NoFile ELSE spare[q]
    <3>1. spare[tx.path] # NoFile
      BY <1>1 DEF Shape
    <3> QED BY <1>1, <2>1, <2>12, <3>1, DetachMoves DEF p0, NamesTyped
  <2>5. UserTextSurvives'
    BY <1>1, <2>12, <2>4 DEF UserTextSurvives
  <2>11. Applied' = Applied /\ InHand' = {tx.path}
    BY <1>1, <2>2 DEF Applied, InHand, Between
  <2>6. Shape'
    BY <1>1, <2>2, <2>4, <2>12, <1>0, <2>11 DEF Shape, Carried, Forward, Committing, Plan, p0,
       names
  <2>7. Carried'
    BY <1>1, <2>2, <2>4, <2>12, <1>0, <2>11 DEF Carried, Shape, InPlace, InSpare, Text,
       Current, Plan, p0, Unchanged, names
  <2>8. DoomedIsSpent'
    BY <1>1, <2>2, <2>4, <2>12, <1>0, <2>11 DEF DoomedIsSpent, Shape, Text, InSpare, InPlace,
       Carried, Current, Plan, p0, names
  <2>9. Followed'
    <3> SUFFICES ASSUME NEW p \in Paths, p \notin last'.touched, p \notin last'.unrestored
                 PROVE  Follows(p)'
      BY DEF Followed
    <3>1. Follows(p)
      BY <1>1, <2>12, <2>2 DEF Followed
    <3>2. CASE p # tx.path
      <4>1. active'[p] = active[p] /\ spare'[p] = spare[p]
        BY <2>2, <2>4, <2>12, <3>2 DEF names
      <4>2. /\ Current(p)' = Current(p) /\ (AsBefore(p)' <=> AsBefore(p))
            /\ (Exchanged(p)' <=> Exchanged(p))
        BY <2>12, <2>2, <4>1 DEF Current, AsBefore, Exchanged
      <4> QED BY <1>0, <1>1, <2>12, <2>2, <2>11, <3>1, <3>2, <4>2 DEF Follows, Committing
    <3>3. CASE p = tx.path
      BY <1>0, <1>1, <2>2, <2>4, <2>12, <2>11, <3>1, <3>3 DEF Follows, Committing, AsBefore,
         Exchanged, Current, Plan, p0, Unchanged, names, Carried, PlanSound, Shape
    <3> QED BY <3>2, <3>3
  <2>10. Committing' => saved' = tx'.want
    BY <1>1, <2>12, <2>2 DEF Committing, IInv
  <2> QED BY <1>1, <2>1, <2>12, <2>3, <2>4, <2>5, <2>6, <2>7, <2>8, <2>9, <2>10, Step
<1>3. CASE UNCHANGED names /\ Goto("commit")
  <2>12. /\ content' = content /\ kept' = kept /\ saved' = saved /\ last' = last
    BY <1>1, <1>3 DEF DetachBackup, Succeeds, Fails
  <2>1. /\ UNCHANGED names /\ Goto("commit")
    BY <1>1, <1>3 DEF DetachBackup, Succeeds, Fails, names, p0, Plan
  <2>2. /\ tx' \in Transactions /\ tx'.pc = "commit"
        /\ tx'.want = tx.want /\ tx'.plan = tx.plan
        /\ tx'.todo = tx.todo /\ tx'.applied = tx.applied /\ tx'.path = tx.path
    BY <1>1, <2>1, Goes DEF Steps
  <2>3. Own
    BY <1>1, <2>2, <2>12 DEF Own
  <2>4. NamesTyped' /\ Apart' /\ UserTextSurvives'
    BY <1>1, <2>1, <2>12, NothingMoves
  <2>11. Applied' = Applied /\ InHand' = {}
    BY <1>1, <2>2 DEF Applied, InHand, Between
  <2>6. Shape'
    BY <1>1, <1>3, <2>1, <2>2, <2>12, <1>0, <2>11 DEF Shape, Carried, Forward, Committing,
       Plan, p0, names
  <2>7. Carried'
    BY <1>1, <1>3, <2>1, <2>2, <2>12, <1>0, <2>11 DEF Carried, Shape, InPlace, InSpare, Text,
       Current, Plan, p0, Unchanged, names
  <2>8. DoomedIsSpent'
    BY <1>1, <1>3, <2>1, <2>2, <2>12, <1>0, <2>11 DEF DoomedIsSpent, Shape, Text, InSpare,
       InPlace, Carried, Current, Plan, p0, names
  <2>9. Followed'
    <3> SUFFICES ASSUME NEW p \in Paths, p \notin last'.touched, p \notin last'.unrestored
                 PROVE  Follows(p)'
      BY DEF Followed
    <3>1. Follows(p)
      BY <1>1, <2>12, <2>2 DEF Followed
    <3>2. CASE p # tx.path
      <4>1. active'[p] = active[p] /\ spare'[p] = spare[p]
        BY <2>1, <2>2, <2>12, <3>2 DEF names
      <4>2. /\ Current(p)' = Current(p) /\ (AsBefore(p)' <=> AsBefore(p))
            /\ (Exchanged(p)' <=> Exchanged(p))
        BY <2>12, <2>2, <4>1 DEF Current, AsBefore, Exchanged
      <4> QED BY <1>0, <1>1, <2>12, <2>2, <2>11, <3>1, <3>2, <4>2 DEF Follows, Committing
    <3>3. CASE p = tx.path
      BY <1>0, <1>1, <1>3, <2>1, <2>2, <2>12, <2>11, <3>1, <3>3
      DEF Follows, Committing, AsBefore, Exchanged, Current, Plan, p0, Unchanged, names,
         Carried, PlanSound, Shape
    <3> QED BY <3>2, <3>3
  <2>10. Committing' => saved' = tx'.want
    BY <1>1, <2>12, <2>2 DEF Committing, IInv
  <2> QED BY <1>1, <2>1, <2>12, <2>3, <2>4, <2>6, <2>7, <2>8, <2>9, <2>10, Step
<1> QED BY <1>1, <1>2, <1>3 DEF DetachBackup, Succeeds, Fails, names

LEMMA CheckBackupKeeps == ASSUME IInv, CheckBackup PROVE IInv'
<1>1. /\ Types /\ Apart /\ Shape /\ PlanSound /\ Texted /\ UserTextSurvives
      /\ Carried /\ DoomedIsSpent /\ Followed
      /\ InHand = {tx.path}
      /\ tx \in Transactions /\ tx.pc = "check_backup" /\ tx.path \in Paths
      /\ NamesTyped /\ saved \in BOOLEAN /\ last \in Outcomes /\ edits' = edits
      /\ detached # NoFile /\ content' = content /\ kept' = kept /\ saved' = saved
      /\ last' = last
  BY DEF IInv, Types, NamesTyped, Transactions, CheckBackup, Succeeds, Fails, bounds, Shape,
     Forward, Committing, Doomed, InHand, Between
<1>0. /\ Applied \subseteq Paths /\ tx.todo \subseteq Paths /\ tx.applied \in Seq(Paths)
      /\ InHand \cap Applied = {} /\ tx.todo \cap (Applied \cup InHand) = {}
      /\ \A e \in kept : e # Absent.text /\ e # 0
  BY <1>1, Places DEF Shape, Types, Absent
<1>2. CASE content[detached] = Plan.original /\ UNCHANGED names /\ Goto("drop_backup")
  <2>12. /\ content' = content /\ kept' = kept /\ saved' = saved /\ last' = last
    BY <1>1, <1>2 DEF CheckBackup, Succeeds, Fails
  <2>1. /\ UNCHANGED names /\ Goto("drop_backup")
    BY <1>1, <1>2 DEF CheckBackup, Succeeds, Fails, names, p0, Plan
  <2>2. /\ tx' \in Transactions /\ tx'.pc = "drop_backup"
        /\ tx'.want = tx.want /\ tx'.plan = tx.plan
        /\ tx'.todo = tx.todo /\ tx'.applied = tx.applied /\ tx'.path = tx.path
    BY <1>1, <2>1, Goes DEF Steps
  <2>3. Own
    BY <1>1, <2>2, <2>12 DEF Own
  <2>4. NamesTyped' /\ Apart' /\ UserTextSurvives'
    BY <1>1, <2>1, <2>12, NothingMoves
  <2>11. Applied' = Applied /\ InHand' = {tx.path}
    BY <1>1, <2>2 DEF Applied, InHand, Between
  <2>6. Shape'
    BY <1>1, <1>2, <2>1, <2>2, <2>12, <1>0, <2>11 DEF Shape, Carried, Forward, Committing,
       Plan, p0, names
  <2>7. Carried'
    BY <1>1, <1>2, <2>1, <2>2, <2>12, <1>0, <2>11 DEF Carried, Shape, InPlace, InSpare, Text,
       Current, Plan, p0, Unchanged, names
  <2>8. DoomedIsSpent'
    BY <1>1, <1>2, <2>1, <2>2, <2>12, <1>0, <2>11 DEF DoomedIsSpent, Shape, Text, InSpare,
       InPlace, Carried, Current, Plan, p0, names
  <2>9. Followed'
    <3> SUFFICES ASSUME NEW p \in Paths, p \notin last'.touched, p \notin last'.unrestored
                 PROVE  Follows(p)'
      BY DEF Followed
    <3>1. Follows(p)
      BY <1>1, <2>12, <2>2 DEF Followed
    <3>2. CASE p # tx.path
      <4>1. active'[p] = active[p] /\ spare'[p] = spare[p]
        BY <2>1, <2>2, <2>12, <3>2 DEF names
      <4>2. /\ Current(p)' = Current(p) /\ (AsBefore(p)' <=> AsBefore(p))
            /\ (Exchanged(p)' <=> Exchanged(p))
        BY <2>12, <2>2, <4>1 DEF Current, AsBefore, Exchanged
      <4> QED BY <1>0, <1>1, <2>12, <2>2, <2>11, <3>1, <3>2, <4>2 DEF Follows, Committing
    <3>3. CASE p = tx.path
      BY <1>0, <1>1, <1>2, <2>1, <2>2, <2>12, <2>11, <3>1, <3>3
      DEF Follows, Committing, AsBefore, Exchanged, Current, Plan, p0, Unchanged, names,
         Carried, PlanSound, Shape
    <3> QED BY <3>2, <3>3
  <2>10. Committing' => saved' = tx'.want
    BY <1>1, <2>12, <2>2 DEF Committing, IInv
  <2> QED BY <1>1, <2>1, <2>12, <2>3, <2>4, <2>6, <2>7, <2>8, <2>9, <2>10, Step
<1>3. CASE /\ strays' = strays \cup {detached}
           /\ detached' = NoFile
           /\ UNCHANGED <<active, spare>>
           /\ Goto("commit")
  <2>12. /\ content' = content /\ kept' = kept /\ saved' = saved /\ last' = last
    BY <1>1, <1>3 DEF CheckBackup, Succeeds, Fails
  <2>1. /\ strays' = strays \cup {detached} /\ detached' = NoFile
        /\ UNCHANGED <<active, spare>> /\ Goto("commit")
    BY <1>1, <1>3 DEF CheckBackup, Succeeds, Fails, names, p0, Plan
  <2>2. /\ tx' \in Transactions /\ tx'.pc = "commit"
        /\ tx'.want = tx.want /\ tx'.plan = tx.plan
        /\ tx'.todo = tx.todo /\ tx'.applied = tx.applied /\ tx'.path = tx.path
    BY <1>1, <2>1, Goes DEF Steps
  <2>3. Own
    BY <1>1, <2>2, <2>12 DEF Own
  <2>4. /\ NamesTyped' /\ Apart' /\ Named \subseteq Named' /\ UNCHANGED <<active, spare>>
        /\ detached' = NoFile
    <3>1. detached \notin strays
      BY <1>1 DEF Apart
    <3> QED BY <1>1, <2>1, <2>12, <3>1, DetachedGoes
  <2>5. UserTextSurvives'
    BY <1>1, <2>12, <2>4 DEF UserTextSurvives
  <2>11. Applied' = Applied /\ InHand' = {}
    BY <1>1, <2>2 DEF Applied, InHand, Between
  <2>6. Shape'
    BY <1>1, <2>2, <2>4, <2>12, <1>0, <2>11 DEF Shape, Carried, Forward, Committing, Plan, p0,
       names
  <2>7. Carried'
    BY <1>1, <2>2, <2>4, <2>12, <1>0, <2>11 DEF Carried, Shape, InPlace, InSpare, Text,
       Current, Plan, p0, Unchanged, names
  <2>8. DoomedIsSpent'
    BY <1>1, <2>2, <2>4, <2>12, <1>0, <2>11 DEF DoomedIsSpent, Shape, Text, InSpare, InPlace,
       Carried, Current, Plan, p0, names
  <2>9. Followed'
    <3> SUFFICES ASSUME NEW p \in Paths, p \notin last'.touched, p \notin last'.unrestored
                 PROVE  Follows(p)'
      BY DEF Followed
    <3>1. Follows(p)
      BY <1>1, <2>12, <2>2 DEF Followed
    <3>2. CASE p # tx.path
      <4>1. active'[p] = active[p] /\ spare'[p] = spare[p]
        BY <2>2, <2>4, <2>12, <3>2 DEF names
      <4>2. /\ Current(p)' = Current(p) /\ (AsBefore(p)' <=> AsBefore(p))
            /\ (Exchanged(p)' <=> Exchanged(p))
        BY <2>12, <2>2, <4>1 DEF Current, AsBefore, Exchanged
      <4> QED BY <1>0, <1>1, <2>12, <2>2, <2>11, <3>1, <3>2, <4>2 DEF Follows, Committing
    <3>3. CASE p = tx.path
      BY <1>0, <1>1, <2>2, <2>4, <2>12, <2>11, <3>1, <3>3 DEF Follows, Committing, AsBefore,
         Exchanged, Current, Plan, p0, Unchanged, names, Carried, PlanSound, Shape
    <3> QED BY <3>2, <3>3
  <2>10. Committing' => saved' = tx'.want
    BY <1>1, <2>12, <2>2 DEF Committing, IInv
  <2> QED BY <1>1, <2>1, <2>12, <2>3, <2>4, <2>5, <2>6, <2>7, <2>8, <2>9, <2>10, Step
<1> QED BY <1>1, <1>2, <1>3 DEF CheckBackup, Succeeds, Fails, names

LEMMA DropBackupKeeps == ASSUME IInv, DropBackup PROVE IInv'
<1>1. /\ Types /\ Apart /\ Shape /\ PlanSound /\ Texted /\ UserTextSurvives
      /\ Carried /\ DoomedIsSpent /\ Followed
      /\ InHand = {tx.path}
      /\ tx \in Transactions /\ tx.pc = "drop_backup" /\ tx.path \in Paths
      /\ NamesTyped /\ saved \in BOOLEAN /\ last \in Outcomes /\ edits' = edits
      /\ detached # NoFile /\ content' = content /\ kept' = kept /\ saved' = saved
      /\ last' = last
  BY DEF IInv, Types, NamesTyped, Transactions, DropBackup, Succeeds, Fails, bounds, Shape,
     Forward, Committing, Doomed, InHand, Between
<1>0. /\ Applied \subseteq Paths /\ tx.todo \subseteq Paths /\ tx.applied \in Seq(Paths)
      /\ InHand \cap Applied = {} /\ tx.todo \cap (Applied \cup InHand) = {}
      /\ \A e \in kept : e # Absent.text /\ e # 0
  BY <1>1, Places DEF Shape, Types, Absent
<1>2. CASE detached' = NoFile /\ UNCHANGED <<active, spare, strays>> /\ Goto("commit")
  <2>12. /\ content' = content /\ kept' = kept /\ saved' = saved /\ last' = last
    BY <1>1, <1>2 DEF DropBackup, Succeeds, Fails
  <2>1. /\ detached' = NoFile /\ UNCHANGED <<active, spare, strays>> /\ Goto("commit")
    BY <1>1, <1>2 DEF DropBackup, Succeeds, Fails, names, p0, Plan
  <2>2. /\ tx' \in Transactions /\ tx'.pc = "commit"
        /\ tx'.want = tx.want /\ tx'.plan = tx.plan
        /\ tx'.todo = tx.todo /\ tx'.applied = tx.applied /\ tx'.path = tx.path
    BY <1>1, <2>1, Goes DEF Steps
  <2>3. Own
    BY <1>1, <2>2, <2>12 DEF Own
  <2>4. /\ NamesTyped' /\ Apart' /\ Named \subseteq Named' \cup {detached}
        /\ UNCHANGED <<active, spare>> /\ detached' = NoFile
    BY <1>1, <2>1, <2>12, DetachedGoes
  <2>5. UserTextSurvives'
    <3>1. content[detached].text \in kept =>
            \E i \in Named' : content[i].text = content[detached].text
      BY <1>0, <1>1, <2>4 DEF DoomedIsSpent, Carried, InPlace, Text, Current, Named
    <3> QED BY <1>1, <2>12, <2>4, <3>1, TextKept
  <2>11. Applied' = Applied /\ InHand' = {}
    BY <1>1, <2>2 DEF Applied, InHand, Between
  <2>6. Shape'
    BY <1>1, <2>2, <2>4, <2>12, <1>0, <2>11 DEF Shape, Carried, Forward, Committing, Plan, p0,
       names
  <2>7. Carried'
    BY <1>1, <2>2, <2>4, <2>12, <1>0, <2>11 DEF Carried, Shape, InPlace, InSpare, Text,
       Current, Plan, p0, Unchanged, names
  <2>8. DoomedIsSpent'
    BY <1>1, <2>2, <2>4, <2>12, <1>0, <2>11 DEF DoomedIsSpent, Shape, Text, InSpare, InPlace,
       Carried, Current, Plan, p0, names
  <2>9. Followed'
    <3> SUFFICES ASSUME NEW p \in Paths, p \notin last'.touched, p \notin last'.unrestored
                 PROVE  Follows(p)'
      BY DEF Followed
    <3>1. Follows(p)
      BY <1>1, <2>12, <2>2 DEF Followed
    <3>2. CASE p # tx.path
      <4>1. active'[p] = active[p] /\ spare'[p] = spare[p]
        BY <2>2, <2>4, <2>12, <3>2 DEF names
      <4>2. /\ Current(p)' = Current(p) /\ (AsBefore(p)' <=> AsBefore(p))
            /\ (Exchanged(p)' <=> Exchanged(p))
        BY <2>12, <2>2, <4>1 DEF Current, AsBefore, Exchanged
      <4> QED BY <1>0, <1>1, <2>12, <2>2, <2>11, <3>1, <3>2, <4>2 DEF Follows, Committing
    <3>3. CASE p = tx.path
      BY <1>0, <1>1, <2>2, <2>4, <2>12, <2>11, <3>1, <3>3 DEF Follows, Committing, AsBefore,
         Exchanged, Current, Plan, p0, Unchanged, names, Carried, PlanSound, Shape
    <3> QED BY <3>2, <3>3
  <2>10. Committing' => saved' = tx'.want
    BY <1>1, <2>12, <2>2 DEF Committing, IInv
  <2> QED BY <1>1, <2>1, <2>12, <2>3, <2>4, <2>5, <2>6, <2>7, <2>8, <2>9, <2>10, Step
<1>3. CASE /\ strays' = strays \cup {detached}
           /\ detached' = NoFile
           /\ UNCHANGED <<active, spare>>
           /\ Goto("commit")
  <2>12. /\ content' = content /\ kept' = kept /\ saved' = saved /\ last' = last
    BY <1>1, <1>3 DEF DropBackup, Succeeds, Fails
  <2>1. /\ strays' = strays \cup {detached} /\ detached' = NoFile
        /\ UNCHANGED <<active, spare>> /\ Goto("commit")
    BY <1>1, <1>3 DEF DropBackup, Succeeds, Fails, names, p0, Plan
  <2>2. /\ tx' \in Transactions /\ tx'.pc = "commit"
        /\ tx'.want = tx.want /\ tx'.plan = tx.plan
        /\ tx'.todo = tx.todo /\ tx'.applied = tx.applied /\ tx'.path = tx.path
    BY <1>1, <2>1, Goes DEF Steps
  <2>3. Own
    BY <1>1, <2>2, <2>12 DEF Own
  <2>4. /\ NamesTyped' /\ Apart' /\ Named \subseteq Named' /\ UNCHANGED <<active, spare>>
        /\ detached' = NoFile
    <3>1. detached \notin strays
      BY <1>1 DEF Apart
    <3> QED BY <1>1, <2>1, <2>12, <3>1, DetachedGoes
  <2>5. UserTextSurvives'
    BY <1>1, <2>12, <2>4 DEF UserTextSurvives
  <2>11. Applied' = Applied /\ InHand' = {}
    BY <1>1, <2>2 DEF Applied, InHand, Between
  <2>6. Shape'
    BY <1>1, <2>2, <2>4, <2>12, <1>0, <2>11 DEF Shape, Carried, Forward, Committing, Plan, p0,
       names
  <2>7. Carried'
    BY <1>1, <2>2, <2>4, <2>12, <1>0, <2>11 DEF Carried, Shape, InPlace, InSpare, Text,
       Current, Plan, p0, Unchanged, names
  <2>8. DoomedIsSpent'
    BY <1>1, <2>2, <2>4, <2>12, <1>0, <2>11 DEF DoomedIsSpent, Shape, Text, InSpare, InPlace,
       Carried, Current, Plan, p0, names
  <2>9. Followed'
    <3> SUFFICES ASSUME NEW p \in Paths, p \notin last'.touched, p \notin last'.unrestored
                 PROVE  Follows(p)'
      BY DEF Followed
    <3>1. Follows(p)
      BY <1>1, <2>12, <2>2 DEF Followed
    <3>2. CASE p # tx.path
      <4>1. active'[p] = active[p] /\ spare'[p] = spare[p]
        BY <2>2, <2>4, <2>12, <3>2 DEF names
      <4>2. /\ Current(p)' = Current(p) /\ (AsBefore(p)' <=> AsBefore(p))
            /\ (Exchanged(p)' <=> Exchanged(p))
        BY <2>12, <2>2, <4>1 DEF Current, AsBefore, Exchanged
      <4> QED BY <1>0, <1>1, <2>12, <2>2, <2>11, <3>1, <3>2, <4>2 DEF Follows, Committing
    <3>3. CASE p = tx.path
      BY <1>0, <1>1, <2>2, <2>4, <2>12, <2>11, <3>1, <3>3 DEF Follows, Committing, AsBefore,
         Exchanged, Current, Plan, p0, Unchanged, names, Carried, PlanSound, Shape
    <3> QED BY <3>2, <3>3
  <2>10. Committing' => saved' = tx'.want
    BY <1>1, <2>12, <2>2 DEF Committing, IInv
  <2> QED BY <1>1, <2>1, <2>12, <2>3, <2>4, <2>5, <2>6, <2>7, <2>8, <2>9, <2>10, Step
<1> QED BY <1>1, <1>2, <1>3 DEF DropBackup, Succeeds, Fails, names

-----------------------------------------------------------------------------
(* The surroundings.                                                       *)

LEMMA CrashKeeps == ASSUME IInv, Crash PROVE IInv'
<1>1. /\ Return("crash") /\ UNCHANGED <<active, content, saved, kept, edits>>
      /\ last' = [last EXCEPT !.outcome = "crash"] /\ last \in Outcomes
  BY DEF Crash, Return, IInv, Types
<1>2. last'.outcome = "crash"
  BY <1>1 DEF Outcomes
<1> QED BY <1>1, <1>2, Returned DEF FailedSetupIsUndone, HooksFollowSetting

\* A call plans for what it finds.
LEMMA Planned ==
    ASSUME NEW p \in Paths, NEW w \in BOOLEAN, Current(p) \in Possible, Absent \notin Contents,
           \A x \in Contents : x.text \in Texts /\ x.hook \in BOOLEAN
    PROVE  /\ PlanFor(p, w) \in Plans
           /\ PlanFor(p, w) = NoPlan => Current(p).hook = w
           /\ PlanFor(p, w) # NoPlan =>
                 /\ PlanFor(p, w).original = Current(p)
                 /\ PlanFor(p, w).updated \in Contents /\ PlanFor(p, w).updated.hook = w
                 /\ PlanFor(p, w).updated.text =
                       IF Current(p) = Absent THEN 0 ELSE Current(p).text
<1>3. NoPlan \in Plans /\ NoPlan.original = Absent /\ NoPlan.updated = Absent
  BY DEF NoPlan, Plans, Possible
<1>1. CASE Current(p) = Absent
  <2> DEFINE u == [text |-> 0, hook |-> TRUE]
  <2>1. /\ PlanFor(p, w) = IF w THEN [original |-> Absent, updated |-> u] ELSE NoPlan
        /\ u \in Contents /\ u.text = 0 /\ u.hook = TRUE /\ Current(p).hook = FALSE
    BY <1>1, BoundsAssumption DEF PlanFor, Contents, Texts, Absent
  <2> HIDE DEF u
  <2>2. CASE w = TRUE
    <3>1. /\ PlanFor(p, w) \in Plans
          /\ PlanFor(p, w).original = Absent /\ PlanFor(p, w).updated = u
      BY <2>1, <2>2 DEF Plans, Possible
    <3> QED BY <1>1, <1>3, <2>1, <2>2, <3>1
  <2>3. CASE w = FALSE
    BY <1>1, <2>1, <2>3, <1>3
  <2> QED BY <2>2, <2>3
<1>2. CASE Current(p) # Absent
  <2> DEFINE u == [Current(p) EXCEPT !.hook = w]
  <2>1. Current(p) \in Contents
    BY <1>2 DEF Possible
  <2>2. u \in Contents /\ u.hook = w /\ u.text = Current(p).text
    BY <2>1 DEF Contents
  <2>3. PlanFor(p, w) = IF Current(p).hook = w THEN NoPlan ELSE [original |-> Current(p), updated |-> u]
    BY <1>2 DEF PlanFor
  <2> HIDE DEF u
  <2>4. CASE Current(p).hook = w
    BY <1>3, <2>3, <2>4
  <2>5. CASE Current(p).hook # w
    <3>1. /\ PlanFor(p, w) \in Plans
          /\ PlanFor(p, w).original = Current(p) /\ PlanFor(p, w).updated = u
      BY <2>1, <2>2, <2>3, <2>5 DEF Plans, Possible
    <3> QED BY <1>2, <1>3, <2>2, <3>1
  <2> QED BY <2>4, <2>5
<1> QED BY <1>1, <1>2

LEMMA BeginKeeps == ASSUME IInv, NEW set \in BOOLEAN, Begin(set) PROVE IInv'
<1> DEFINE want == IF set THEN ~saved ELSE saved
           plan == [p \in Paths |-> PlanFor(p, want)]
<1>1. /\ Types /\ Apart /\ Shape /\ Texted /\ UserTextSurvives /\ tx = Idle
      /\ saved \in BOOLEAN /\ NamesTyped /\ want \in BOOLEAN
      /\ UNCHANGED names /\ content' = content /\ saved' = saved /\ kept' = kept
      /\ edits' = edits
      /\ tx' = [Idle EXCEPT !.pc = "check_all", !.set = set, !.want = want, !.plan = plan,
                 !.todo = {p \in Paths : plan[p] # NoPlan}]
      /\ last' = [NoOutcome EXCEPT !.before = [p \in Paths |-> Current(p)]]
  BY DEF IInv, Types, NamesTyped, Begin
<1>2. /\ \A p \in Paths : Current(p) \in Possible
      /\ Absent \notin Contents /\ \A i \in Inodes : content[i] \in Contents
  BY <1>1, Holds
<1>3. \A x \in Contents : x.text \in Texts /\ x.hook \in BOOLEAN
  BY DEF Contents
<1>4. \A p \in Paths :
        /\ plan[p] \in Plans
        /\ plan[p] = NoPlan => Current(p).hook = want
        /\ plan[p] # NoPlan =>
              /\ plan[p].original = Current(p)
              /\ plan[p].updated \in Contents /\ plan[p].updated.hook = want
              /\ plan[p].updated.text = IF Current(p) = Absent THEN 0 ELSE Current(p).text
  BY <1>1, <1>2, <1>3, Planned
<1>5. plan \in [Paths -> Plans]
  BY <1>4
<1> HIDE DEF want, plan
<1>6. /\ tx'.pc = "check_all" /\ tx'.set = set /\ tx'.want = want /\ tx'.plan = plan
      /\ tx'.todo = {p \in Paths : plan[p] # NoPlan} /\ tx'.applied = <<>> /\ tx'.path = 1
      /\ tx' \in Transactions /\ tx' # Idle
  <2>1. <<>> \in Seq(Paths) /\ 1 \in Paths
    BY EmptySeq, BoundsAssumption DEF Paths
  <2> QED BY <1>1, <1>5, <2>1 DEF Idle, Transactions, Steps
<1>7. /\ last'.before = [p \in Paths |-> Current(p)] /\ last'.outcome = "none"
      /\ last'.touched = {} /\ last'.unrestored = {} /\ last' \in Outcomes
  BY <1>1, <1>2 DEF NoOutcome, Outcomes
<1>8. Types'
  BY <1>1, <1>6, <1>7 DEF Types, names, Inodes
<1>9. Apart' /\ UserTextSurvives'
  BY <1>1, NothingMoves
<1>10. Applied' = {} /\ InHand' = {}
  BY <1>6 DEF Applied, InHand, Between
<1>11. Shape'
  <2>1. \A p \in Paths : spare[p] = NoFile
    BY <1>1 DEF Shape, Idle
  <2>2. detached = NoFile
    BY <1>1 DEF Shape, Idle
  <2> QED BY <1>1, <1>6, <1>7, <1>10, <2>1, <2>2 DEF Shape, Forward, Committing, names
<1>12. PlanSound'
  BY <1>4, <1>6, <1>7 DEF PlanSound
<1>13. Texted'
  <2>1. \A i \in Inodes : content[i].text <= edits
    BY <1>1 DEF Texted
  <2>2. ASSUME NEW p \in Paths PROVE plan[p].original.text <= edits
    <3>1. Current(p).text <= edits
      BY <1>1, <1>2, <2>1 DEF Current, Types, NamesTyped, Absent
    <3>2. NoPlan.original.text <= edits
      BY <1>1 DEF NoPlan, Absent, Types
    <3> QED BY <1>4, <3>1, <3>2
  <2> QED BY <1>1, <1>6, <2>1, <2>2 DEF Texted, Inodes
<1>14. Carried' /\ DoomedIsSpent' /\ ~Committing'
  BY <1>6, <1>10 DEF Carried, DoomedIsSpent, Committing
<1>15. Followed'
  <2>1. ASSUME NEW p \in Paths PROVE Follows(p)'
    <3>1. Current(p)' = last'.before[p]
      BY <1>1, <1>7 DEF Current, names
    <3> QED BY <1>6, <1>7, <1>10, <3>1 DEF Follows, AsBefore, Committing
  <2> QED BY <2>1 DEF Followed
<1>16. FailedSetupIsUndone' /\ HooksFollowSetting'
  BY <1>6 DEF FailedSetupIsUndone, HooksFollowSetting
<1> QED BY <1>8, <1>9, <1>11, <1>12, <1>13, <1>14, <1>15, <1>16 DEF IInv

\* Edited: somebody else overwrites or deletes the text t, and the file at a
\* path or behind a name that is not among the touched ones stays as it is.
Edited(t) ==
    /\ tx' = tx /\ saved' = saved /\ spare' = spare /\ detached' = detached /\ strays' = strays
    /\ edits' = edits + 1 /\ edits < MaxEdits
    /\ kept' \subseteq (kept \ {t}) \cup {edits + 1}
    /\ last' \in Outcomes
    /\ last'.outcome = last.outcome /\ last'.before = last.before
    /\ last'.unrestored = last.unrestored /\ last.touched \subseteq last'.touched
    /\ \A p \in Paths \ last'.touched :
          /\ active'[p] = active[p] /\ (active[p] # NoFile => content'[active[p]] = content[active[p]])
          /\ spare[p] # NoFile => content'[spare[p]] = content[spare[p]]
    /\ tx.path \notin last'.touched /\ detached # NoFile => content'[detached] = content[detached]

LEMMA EditStep ==
    ASSUME IInv, NEW t, Edited(t), Types', Apart', UserTextSurvives', Carried', DoomedIsSpent',
           \A i \in Inodes' : content'[i].text <= edits + 1
    PROVE  IInv'
<1>1. Applied' = Applied /\ InHand' = InHand /\ tx' = tx /\ tx.path \in Paths /\ edits \in Nat
  BY DEF Edited, Applied, InHand, Between, IInv, Types, Transactions
<1>2. Shape'
  BY <1>1 DEF Edited, IInv, Shape, Forward, Committing
<1>3. PlanSound'
  BY DEF Edited, IInv, PlanSound
<1>4. Texted'
  <2>1. \A p \in Paths : tx.plan[p].original.text <= edits /\ tx.plan[p].original.text \in Int
    BY Holds DEF IInv, Texted, Types, Transactions, Plans
  <2>2. edits' = edits + 1
    BY DEF Edited
  <2>3. \A p \in Paths : tx'.plan[p].original.text <= edits'
    BY <1>1, <2>1, <2>2
  <2> QED BY <2>2, <2>3 DEF Texted
<1>5. ASSUME NEW p \in Paths, p \notin last'.touched
      PROVE  /\ p \notin last.touched /\ Current(p)' = Current(p)
             /\ (AsBefore(p)' <=> AsBefore(p)) /\ (Exchanged(p)' <=> Exchanged(p))
             /\ spare[p] # NoFile => spare'[p] = spare[p] /\ content'[spare[p]] = content[spare[p]]
  BY <1>5 DEF Edited, Current, AsBefore, Exchanged
<1>6. Followed'
  <2> SUFFICES ASSUME NEW p \in Paths, p \notin last'.touched, p \notin last'.unrestored
               PROVE  Follows(p)'
    BY DEF Followed
  <2>1. Follows(p)
    BY <1>5 DEF Edited, IInv, Followed
  <2>2. /\ p = tx.path /\ tx.pc \in {"reconcile", "check_displaced"} => spare[p] # NoFile
        /\ p = tx.path /\ tx.pc = "check_new" => detached # NoFile
    BY DEF IInv, Shape
  <2>3. p = tx.path /\ detached # NoFile => detached' = detached /\ content'[detached] = content[detached]
    BY DEF Edited
  <2> QED BY <1>1, <1>5, <2>1, <2>2, <2>3 DEF Edited, Follows, Committing
<1>7. FailedSetupIsUndone'
  <2> SUFFICES ASSUME tx' = Idle, last'.outcome = "error",
                      NEW p \in Paths, p \notin last'.touched, p \notin last'.unrestored
               PROVE  Current(p)' = last'.before[p]
    BY DEF FailedSetupIsUndone
  <2> QED BY <1>1, <1>5 DEF Edited, IInv, FailedSetupIsUndone
<1>8. HooksFollowSetting'
  <2> SUFFICES ASSUME tx' = Idle, last'.outcome = "ok", NEW p \in Paths, p \notin last'.touched
               PROVE  /\ Current(p)'.hook = saved'
                      /\ last'.before[p] # Absent => Current(p)'.text = last'.before[p].text
    BY DEF HooksFollowSetting
  <2>1. tx = Idle /\ last.outcome = "ok" /\ saved' = saved /\ last'.before = last.before
    BY DEF Edited
  <2>2. /\ Current(p).hook = saved
        /\ last.before[p] # Absent => Current(p).text = last.before[p].text
    BY <1>5, <2>1 DEF IInv, HooksFollowSetting
  <2> QED BY <1>5, <2>1, <2>2
<1>9. Committing' => saved' = tx'.want
  BY <1>1 DEF Edited, IInv, Committing
<1> QED BY <1>2, <1>3, <1>4, <1>6, <1>7, <1>8, <1>9 DEF IInv

LEMMA EditByRenameKeeps ==
    ASSUME IInv, NEW p \in Paths, NEW hook \in BOOLEAN, EditByRename(p, hook) PROVE IInv'
<1> DEFINE n == Len(content) + 1
           c == [text |-> edits + 1, hook |-> hook]
<1>1. /\ Types /\ Apart /\ Shape /\ Texted /\ UserTextSurvives /\ Carried /\ DoomedIsSpent
      /\ NamesTyped /\ edits \in Nat /\ edits < MaxEdits /\ edits' = edits + 1
      /\ spare' = spare /\ detached' = detached /\ strays' = strays /\ saved' = saved
      /\ tx' = tx
      /\ kept' = (kept \ {Current(p).text}) \cup {edits + 1} /\ kept \subseteq 1..edits
      /\ last \in Outcomes /\ last' = [last EXCEPT !.touched = @ \cup {p}]
      /\ content' = Append(content, c) /\ content \in Seq(Contents)
      /\ active' = [active EXCEPT ![p] = n] /\ tx.path \in Paths
  BY DEF EditByRename, IInv, Types, NamesTyped, Transactions
<1>2. c \in Contents /\ c.text = edits + 1
  BY <1>1, BoundsAssumption DEF Contents, Texts
<1> HIDE DEF c
<1>3. /\ content' \in Seq(Contents) /\ content'[n] = c
      /\ \A i \in Inodes : i \in Inodes' /\ content'[i] = content[i]
      /\ Inodes' = Inodes \cup {n} /\ n \notin Inodes /\ n # NoFile
  BY <1>1, <1>2, Appended DEF NoFile, Inodes
<1>4. \A q \in Paths : active'[q] = IF q = p THEN n ELSE active[q]
  BY <1>1 DEF NamesTyped
<1> HIDE DEF n
<1>5. /\ last'.outcome = last.outcome /\ last'.before = last.before /\ last' \in Outcomes
      /\ last'.unrestored = last.unrestored /\ last'.touched = last.touched \cup {p}
  BY <1>1 DEF Outcomes
<1>6. Types'
  <2>1. /\ active' \in [Paths -> Inodes' \cup {NoFile}]
        /\ spare' \in [Paths -> Inodes' \cup {NoFile}]
        /\ detached' \in Inodes' \cup {NoFile} /\ strays' \subseteq Inodes'
    BY <1>1, <1>3, <1>4 DEF NamesTyped
  <2>2. edits' \in 0..MaxEdits /\ kept' \subseteq 1..edits'
    BY <1>1, BoundsAssumption
  <2> QED BY <1>1, <1>3, <1>5, <2>1, <2>2 DEF Types, Inodes
<1>7. Apart'
  BY <1>1, <1>3, <1>4 DEF Apart, NamesTyped
<1>17. \A i \in Inodes : content[i].text \in Int /\ content[i].text <= edits
  BY <1>1, Holds DEF Texted, Possible
<1>8. \A i \in Inodes : content'[i] = content[i] /\ (content[i].text \in kept' =>
                             content[i].text \in kept /\ content[i].text # Current(p).text)
  <2>1. ASSUME NEW i \in Inodes PROVE content[i].text # edits + 1
    <3>1. content[i].text \in Int /\ content[i].text <= edits
      BY <1>17
    <3> QED BY <1>1, <3>1
  <2> QED BY <1>1, <1>3, <2>1
<1>9. UserTextSurvives'
  <2>1. ASSUME NEW i \in Named, i # active[p] PROVE i \in Named'
    BY <1>1, <1>4, <2>1 DEF Named
  <2>2. ASSUME NEW e \in kept, e # Current(p).text
        PROVE  \E i \in Named' : content'[i].text = e
    <3>1. PICK i \in Named : content[i].text = e
      BY <1>1 DEF UserTextSurvives
    <3>2. i \in Inodes /\ i # NoFile
      BY <1>1 DEF Named, NamesTyped
    <3>3. i # active[p]
      BY <2>2, <3>1, <3>2 DEF Current
    <3> QED BY <1>3, <2>1, <3>1, <3>2, <3>3
  <2>3. n \in Named'
    BY <1>3, <1>4 DEF Named
  <2> QED BY <1>1, <1>2, <1>3, <2>2, <2>3 DEF UserTextSurvives
<1>10. Applied' = Applied /\ Applied \subseteq Paths
  BY <1>1, Places DEF Applied
<1>11. ASSUME NEW q \in Paths
       PROVE  /\ InPlace(q) => InPlace(q)'
              /\ InSpare(q) => InSpare(q)'
  <2>1. Text(q) \in kept' => Text(q) \in kept /\ Text(q) # Current(p).text
    BY <1>1 DEF Text, Texted
  <2>2. spare[q] # NoFile => content'[spare[q]] = content[spare[q]]
    BY <1>3, <1>1 DEF NamesTyped
  <2>3. q # p => Current(q)' = Current(q)
    <3>1. active[q] # NoFile => content'[active[q]] = content[active[q]]
      BY <1>1, <1>3 DEF NamesTyped
    <3> QED BY <1>4, <3>1 DEF Current
  <2>4. Text(q)' = Text(q)
    BY <1>1 DEF Text
  <2> QED BY <1>1, <2>1, <2>2, <2>3, <2>4 DEF InPlace, InSpare
<1>12. ASSUME spare[tx.path] # NoFile PROVE spare[tx.path] \in Inodes
  BY <1>1, <1>12 DEF NamesTyped
<1>13. Carried'
  BY <1>1, <1>3, <1>10, <1>11, <1>12 DEF Carried
<1>14. DoomedIsSpent'
  <2>1. tx.pc = "drop_displaced" => spare[tx.path] # NoFile
    BY <1>1 DEF Shape
  <2>2. tx.pc \in {"drop_new", "drop_backup"} => detached \in Inodes
    BY <1>1 DEF Shape, NamesTyped
  <2>3. \A q \in Paths : Text(q)' = Text(q)
    BY <1>1 DEF Text
  <2>4. ASSUME NEW i \in Inodes, content'[i].text \in kept'
        PROVE  content'[i] = content[i] /\ content[i].text \in kept
    BY <1>8, <2>4
  <2> QED BY <1>1, <1>12, <2>1, <2>2, <2>3, <2>4 DEF DoomedIsSpent
<1>15. Edited(Current(p).text)
  BY <1>1, <1>3, <1>4, <1>5 DEF Edited, NamesTyped
<1>16. \A i \in Inodes' : content'[i].text <= edits + 1
  <2>1. ASSUME NEW i \in Inodes PROVE content'[i].text <= edits + 1
    <3>1. content[i].text \in Int /\ content[i].text <= edits
      BY <1>17
    <3>2. content'[i] = content[i]
      BY <1>3
    <3>3. \A x \in Int, y \in Nat : x <= y => x <= y + 1
      OBVIOUS
    <3> QED BY <1>1, <3>1, <3>2, <3>3
  <2>2. content'[n].text <= edits + 1
    BY <1>1, <1>2, <1>3
  <2> QED BY <1>3, <2>1, <2>2
<1> QED BY <1>6, <1>7, <1>9, <1>13, <1>14, <1>15, <1>16, EditStep DEF IInv

LEMMA DeleteFileKeeps ==
    ASSUME IInv, NEW p \in Paths, DeleteFile(p) PROVE IInv'
<1>1. /\ Types /\ Apart /\ Shape /\ Texted /\ UserTextSurvives /\ Carried /\ DoomedIsSpent
      /\ NamesTyped /\ edits \in Nat /\ edits < MaxEdits /\ edits' = edits + 1
      /\ spare' = spare /\ detached' = detached /\ strays' = strays /\ saved' = saved
      /\ tx' = tx
      /\ kept' = kept \ {Current(p).text} /\ kept \subseteq 1..edits
      /\ last \in Outcomes /\ last' = [last EXCEPT !.touched = @ \cup {p}]
      /\ content' = content /\ active' = [active EXCEPT ![p] = NoFile] /\ tx.path \in Paths
  BY DEF DeleteFile, IInv, Types, NamesTyped, Transactions
<1>2. \A q \in Paths : active'[q] = IF q = p THEN NoFile ELSE active[q]
  BY <1>1 DEF NamesTyped
<1>3. /\ last'.outcome = last.outcome /\ last'.before = last.before /\ last' \in Outcomes
      /\ last'.unrestored = last.unrestored /\ last'.touched = last.touched \cup {p}
  BY <1>1 DEF Outcomes
<1>4. Types'
  <2>1. edits' \in 0..MaxEdits /\ kept' \subseteq 1..edits'
    BY <1>1, BoundsAssumption
  <2>2. active' \in [Paths -> Inodes \cup {NoFile}]
    BY <1>1 DEF NamesTyped
  <2> QED BY <1>1, <1>3, <2>1, <2>2 DEF Types, NamesTyped, Inodes
<1>5. Apart'
  BY <1>1, <1>2 DEF Apart
<1>6. UserTextSurvives'
  <2>1. ASSUME NEW i \in Named, i # active[p] PROVE i \in Named'
    BY <1>1, <1>2, <2>1 DEF Named
  <2>2. ASSUME NEW e \in kept, e # Current(p).text
        PROVE  \E i \in Named' : content[i].text = e
    <3>1. PICK i \in Named : content[i].text = e
      BY <1>1 DEF UserTextSurvives
    <3>2. i # active[p]
      BY <2>2, <3>1 DEF Current, Named
    <3> QED BY <2>1, <3>1, <3>2
  <2> QED BY <1>1, <2>2 DEF UserTextSurvives
<1>7. Applied' = Applied /\ Applied \subseteq Paths
  BY <1>1, Places DEF Applied
<1>8. ASSUME NEW q \in Paths
      PROVE  /\ InPlace(q) => InPlace(q)'
             /\ InSpare(q) => InSpare(q)'
  <2>1. q # p => Current(q)' = Current(q)
    BY <1>1, <1>2 DEF Current
  <2>2. Text(q)' = Text(q)
    BY <1>1 DEF Text
  <2> QED BY <1>1, <2>1, <2>2 DEF InPlace, InSpare
<1>9. Carried'
  BY <1>1, <1>7, <1>8 DEF Carried
<1>10. DoomedIsSpent'
  BY <1>1 DEF DoomedIsSpent, Text
<1>11. Edited(Current(p).text)
  BY <1>1, <1>2, <1>3 DEF Edited
<1>12. \A i \in Inodes' : content'[i].text <= edits + 1
  <2> SUFFICES ASSUME NEW i \in Inodes PROVE content[i].text <= edits + 1
    BY <1>1 DEF Inodes
  <2>1. content[i].text \in Int /\ content[i].text <= edits
    BY <1>1, Holds DEF Texted, Possible
  <2> QED BY <1>1, <2>1
<1> QED BY <1>4, <1>5, <1>6, <1>9, <1>10, <1>11, <1>12, EditStep DEF IInv

LEMMA EditInPlaceKeeps ==
    ASSUME IInv, NEW n \in Named \ {Unseen}, NEW hook \in BOOLEAN, EditInPlace(n, hook) PROVE IInv'
<1> DEFINE c == [text |-> edits + 1, hook |-> hook]
<1>1. /\ Types /\ Apart /\ Shape /\ Texted /\ UserTextSurvives /\ Carried /\ DoomedIsSpent
      /\ NamesTyped /\ edits \in Nat /\ edits < MaxEdits /\ edits' = edits + 1
      /\ active' = active /\ spare' = spare /\ detached' = detached /\ strays' = strays
      /\ saved' = saved /\ tx' = tx /\ tx.path \in Paths /\ n \in Inodes /\ n # NoFile
      /\ kept' = (kept \ {content[n].text}) \cup (IF n = Doomed THEN {} ELSE {edits + 1})
      /\ kept \subseteq 1..edits /\ content' = [content EXCEPT ![n] = c]
      /\ content \in Seq(Contents) /\ last \in Outcomes
      /\ last' = [last EXCEPT !.touched = @ \cup
                    {p \in Paths : n \in {active[p], spare[p]} \/ (n = detached /\ p = p0)}]
  BY DEF EditInPlace, IInv, Types, NamesTyped, Transactions, Named, names
<1>2. c \in Contents /\ c.text = edits + 1
  BY <1>1, BoundsAssumption DEF Contents, Texts
<1> HIDE DEF c
<1>3. /\ content' \in Seq(Contents) /\ Inodes' = Inodes
      /\ \A i \in Inodes : content'[i] = IF i = n THEN c ELSE content[i]
  BY <1>1, <1>2, Rewritten
<1>4. /\ last'.outcome = last.outcome /\ last'.before = last.before /\ last' \in Outcomes
      /\ last'.unrestored = last.unrestored /\ last.touched \subseteq last'.touched
      /\ \A p \in Paths \ last'.touched : active[p] # n /\ spare[p] # n
      /\ tx.path \notin last'.touched => n # detached
  BY <1>1 DEF Outcomes, p0
<1>5. Types'
  <2>1. edits' \in 0..MaxEdits /\ kept' \subseteq 1..edits'
    BY <1>1, BoundsAssumption
  <2> QED BY <1>1, <1>3, <1>4, <2>1 DEF Types, NamesTyped
<1>6. Apart' /\ Named' = Named /\ Applied' = Applied /\ Applied \subseteq Paths
  BY <1>1, Places DEF Apart, Named, Applied
<1>7. \A i \in Inodes : content[i].text \in Int /\ content[i].text <= edits
  BY <1>1, Holds DEF Texted, Possible
<1>8. ASSUME NEW i \in Inodes, i # n, content'[i].text \in kept'
      PROVE  content'[i] = content[i] /\ content[i].text \in kept
  <2>1. content'[i] = content[i] /\ content[i].text # edits + 1
    <3>1. content[i].text \in Int /\ content[i].text <= edits
      BY <1>7
    <3> QED BY <1>1, <1>3, <1>8, <3>1
  <2> QED BY <1>1, <1>8, <2>1
<1>9. UserTextSurvives'
  <2>1. ASSUME NEW e \in kept, e # content[n].text
        PROVE  \E i \in Named : content'[i].text = e
    <3>1. PICK i \in Named : content[i].text = e
      BY <1>1 DEF UserTextSurvives
    <3>2. i \in Inodes /\ i # n
      BY <1>1, <2>1, <3>1 DEF Named, NamesTyped
    <3> QED BY <1>3, <3>1, <3>2
  <2>2. content'[n].text = edits + 1 /\ n \in Named
    BY <1>1, <1>2, <1>3
  <2> QED BY <1>1, <1>6, <2>1, <2>2 DEF UserTextSurvives
<1>10. ASSUME NEW q \in Paths
       PROVE  /\ InPlace(q) => InPlace(q)'
              /\ InSpare(q) => InSpare(q)'
  <2>1. Text(q)' = Text(q)
    BY <1>1 DEF Text
  <2>2. Text(q) \in kept' => Text(q) \in kept /\ Text(q) # content[n].text
    <3>1. Text(q) \in Int /\ Text(q) <= edits
      BY <1>1, Holds DEF Text, Texted, Types, Transactions, Plans
    <3> QED BY <1>1, <3>1
  <2>3. \A e \in kept : e # Absent.text
    BY <1>1 DEF Absent
  <2>4. ASSUME InPlace(q), Text(q) \in kept' PROVE Current(q)'.text = Text(q)
    <3>1. Current(q).text = Text(q) /\ Text(q) \in kept /\ Text(q) # content[n].text
      BY <2>2, <2>4 DEF InPlace
    <3>2. active[q] # NoFile /\ active[q] \in Inodes /\ content[active[q]].text = Text(q)
      BY <1>1, <2>3, <3>1 DEF Current, NamesTyped
    <3>3. content'[active[q]] = content[active[q]]
      BY <1>3, <3>1, <3>2
    <3> QED BY <1>1, <3>2, <3>3 DEF Current
  <2>5. ASSUME InSpare(q), Text(q) \in kept' PROVE spare[q] # NoFile /\ content'[spare[q]].text = Text(q)
    <3>1. /\ spare[q] # NoFile /\ spare[q] \in Inodes
          /\ content[spare[q]].text = Text(q) /\ Text(q) # content[n].text
      BY <1>1, <2>2, <2>5 DEF InSpare, NamesTyped
    <3> QED BY <1>3, <3>1
  <2> QED BY <1>1, <2>1, <2>4, <2>5 DEF InPlace, InSpare
<1>11. Carried'
  <2>1. tx.pc \in {"compare", "exchange", "install"} =>
          spare[tx.path] # n /\ spare[tx.path] \in Inodes /\ content'[spare[tx.path]] = content[spare[tx.path]]
    BY <1>1, <1>3 DEF Carried, Unseen, p0, NamesTyped
  <2> QED BY <1>1, <1>6, <1>10, <2>1 DEF Carried
<1>12. DoomedIsSpent'
  <2>1. CASE n = Doomed
    <3>1. kept' \subseteq kept /\ content'[n].text \notin kept'
      BY <1>1, <1>2, <1>3, <2>1
    <3>2. /\ tx.pc = "drop_displaced" => n = spare[tx.path]
          /\ tx.pc \in {"drop_new", "drop_backup"} => n = detached
      BY <2>1 DEF Doomed, p0
    <3> QED BY <1>1, <3>1, <3>2 DEF DoomedIsSpent
  <2>2. CASE n # Doomed
    <3>1. /\ tx.pc = "drop_displaced" => spare[tx.path] # n /\ spare[tx.path] \in Inodes
          /\ tx.pc \in {"drop_new", "drop_backup"} => detached # n /\ detached \in Inodes
      BY <1>1, <2>2 DEF Doomed, p0, Shape, NamesTyped
    <3> QED BY <1>1, <1>8, <3>1 DEF DoomedIsSpent, Text
  <2> QED BY <2>1, <2>2
<1>13. Edited(content[n].text)
  <2>1. kept' \subseteq (kept \ {content[n].text}) \cup {edits + 1}
    BY <1>1
  <2>2. \A i \in Inodes : i # n => content'[i] = content[i]
    BY <1>3
  <2> QED BY <1>1, <1>4, <2>1, <2>2 DEF Edited, NamesTyped
<1>14. \A i \in Inodes' : content'[i].text <= edits + 1
  <2> SUFFICES ASSUME NEW i \in Inodes PROVE content'[i].text <= edits + 1
    BY <1>3
  <2>1. content[i].text \in Int /\ content[i].text <= edits
    BY <1>7
  <2> QED BY <1>1, <1>2, <1>3, <2>1
<1> QED BY <1>5, <1>6, <1>9, <1>11, <1>12, <1>13, <1>14, EditStep DEF IInv

-----------------------------------------------------------------------------
(* The theorems.                                                           *)

LEMMA Initially == Init => IInv
<1> SUFFICES ASSUME Init PROVE IInv
  OBVIOUS
<1> DEFINE c == [text |-> 0, hook |-> FALSE]
<1>1. c \in Contents /\ c.text = 0
  BY BoundsAssumption DEF Contents, Texts
<1> HIDE DEF c
<1>2. content \in Seq(Contents) /\ Inodes = Paths /\ \A i \in Inodes : content[i] = c
  <2>1. content = [i \in 1..Files |-> c] /\ Files \in Nat
    BY BoundsAssumption DEF Init, Paths, c
  <2>2. content \in Seq(Contents) /\ Len(content) = Files
    BY <1>1, <2>1
  <2> QED BY <2>1, <2>2 DEF Inodes, Paths
<1>3. \A p \in Paths : p # NoFile
  BY BoundsAssumption DEF Paths, NoFile
<1>4. /\ active \in [Paths -> Paths \cup {NoFile}] /\ \A p \in Paths : active[p] \in {p, NoFile}
      /\ spare = [p \in Paths |-> NoFile] /\ detached = NoFile /\ strays = {}
      /\ \A p \in Paths : spare[p] = NoFile
  BY DEF Init
<1>5. /\ tx = Idle /\ tx.pc = "idle" /\ tx.path = 1 /\ tx.applied = <<>> /\ tx.todo = {}
      /\ \A p \in Paths : tx.plan[p] = NoPlan
      /\ kept = {} /\ edits = 0 /\ saved = FALSE /\ last = NoOutcome
  BY DEF Init, Idle
<1>6. Types
  <2>1. Idle \in Transactions
    <3>1. NoPlan \in Plans
      BY DEF NoPlan, Plans, Possible
    <3>2. 1 \in Paths /\ <<>> \in Seq(Paths)
      BY BoundsAssumption, EmptySeq DEF Paths
    <3> QED BY <3>1, <3>2 DEF Idle, Transactions, Steps
  <2>2. NoOutcome \in Outcomes
    BY DEF NoOutcome, Outcomes, Possible
  <2>3. active \in [Paths -> Inodes \cup {NoFile}]
    BY <1>2, <1>4
  <2>4. spare \in [Paths -> Inodes \cup {NoFile}]
    BY <1>4
  <2>5. detached \in Inodes \cup {NoFile} /\ strays \subseteq Inodes /\ saved \in BOOLEAN
    BY <1>4, <1>5
  <2>6. kept \subseteq 1..edits /\ edits \in 0..MaxEdits
    BY <1>5, BoundsAssumption
  <2>7. tx \in Transactions /\ last \in Outcomes
    BY <1>5, <2>1, <2>2
  <2> QED BY <1>2, <2>3, <2>4, <2>5, <2>6, <2>7 DEF Types
<1>7. Apart
  BY <1>3, <1>4 DEF Apart
<1>8. Applied = {} /\ InHand = {}
  BY <1>5 DEF Applied, InHand, Between
<1>9. Shape
  BY <1>4, <1>5, <1>8 DEF Shape, Forward, Committing
<1>10. PlanSound /\ Carried /\ DoomedIsSpent /\ ~Committing /\ UserTextSurvives
  BY <1>5, <1>8 DEF PlanSound, Carried, DoomedIsSpent, Committing, UserTextSurvives
<1>11. Texted
  BY <1>1, <1>2, <1>5 DEF Texted, NoPlan, Absent
<1>12. Followed
  BY <1>5, <1>8 DEF Followed, Follows, Committing
<1>13. FailedSetupIsUndone /\ HooksFollowSetting
  BY <1>5 DEF FailedSetupIsUndone, HooksFollowSetting, NoOutcome
<1> QED BY <1>6, <1>7, <1>9, <1>10, <1>11, <1>12, <1>13 DEF IInv

LEMMA Stutters == ASSUME IInv, UNCHANGED vars PROVE IInv'
<1>1. /\ UNCHANGED <<active, spare, detached, strays, content, saved, tx, kept, last, edits>>
  BY DEF vars
<1>2. Types' /\ Apart' /\ PlanSound' /\ Texted'
  BY <1>1 DEF IInv, Types, Apart, PlanSound, Texted, Inodes
<1>3. /\ Forward' = Forward /\ Committing' = Committing /\ Applied' = Applied
      /\ InHand' = InHand /\ Named' = Named
  BY <1>1 DEF Forward, Committing, Applied, InHand, Between, Named
<1>4. Shape'
  BY <1>1, <1>3 DEF IInv, Shape
<1>5. UserTextSurvives'
  BY <1>1, <1>3 DEF IInv, UserTextSurvives
<1>6. Carried' /\ DoomedIsSpent'
  BY <1>1, <1>3 DEF IInv, Carried, DoomedIsSpent, InPlace, InSpare, Text, Current
<1>7. Followed'
  BY <1>1, <1>3 DEF IInv, Followed, Follows, AsBefore, Exchanged, Current
<1>8. FailedSetupIsUndone' /\ HooksFollowSetting'
  BY <1>1 DEF IInv, FailedSetupIsUndone, HooksFollowSetting, Current
<1>9. Committing' => saved' = tx'.want
  BY <1>1, <1>3 DEF IInv
<1> QED BY <1>2, <1>4, <1>5, <1>6, <1>7, <1>8, <1>9 DEF IInv

LEMMA Inductive == IInv /\ [Next]_vars => IInv'
<1> SUFFICES ASSUME IInv, [Next]_vars PROVE IInv'
  OBVIOUS
<1>1. CASE Next
  BY <1>1, BeginKeeps, CheckAllKeeps, NextPlanKeeps, StageKeeps, CompareKeeps, ExchangeKeeps,
     ReconcileKeeps, InstallKeeps, VerifyExchangeKeeps, RollbackKeeps, SwapBackKeeps,
     CheckDisplacedKeeps, DropDisplacedKeeps, SwapAgainKeeps, DetachNewKeeps, CheckNewKeeps,
     DropNewKeeps, PutBackKeeps, SaveKeeps, CommitKeeps, DetachBackupKeeps, CheckBackupKeeps,
     DropBackupKeeps, DeleteFileKeeps, EditByRenameKeeps, EditInPlaceKeeps, CrashKeeps DEF Next
<1>2. CASE UNCHANGED vars
  BY <1>2, Stutters
<1> QED BY <1>1, <1>2

LEMMA Invariant == Spec => []IInv
  BY Initially, Inductive, PTL DEF Spec

\* Every variable has its type and no inode two names, whatever the exchanges,
\* the roll-back, the other programs and a crash do to the files.
THEOREM TypeCorrect == Spec => []TypeOK
<1>1. IInv => TypeOK
  <2> SUFFICES ASSUME IInv PROVE TypeOK
    OBVIOUS
  <2>1. Types /\ Apart
    BY DEF IInv
  <2>2. \A i \in Inodes : content[i] \in Contents
    BY <2>1, Holds
  <2>3. tx.pc \in Steps
    BY <2>1 DEF Types, Transactions
  <2>4. kept \subseteq Texts
    BY <2>1, BoundsAssumption DEF Types, Texts
  <2> QED BY <2>1, <2>2, <2>3, <2>4 DEF TypeOK, Types, Apart
<1> QED BY <1>1, Invariant, PTL

\* No edit of a user is lost by replace_if_unchanged, restore_applied or
\* finalize_backup, with any number of files, edits, errors and crashes.
THEOREM UserTextSurvivesHolds == Spec => []UserTextSurvives
<1>1. IInv => UserTextSurvives
  BY DEF IInv
<1> QED BY <1>1, Invariant, PTL

\* A setup that apply_plans or abort gives up leaves every file that nobody
\* else touched, and whose own restoration did not fail, as it was.
THEOREM FailedSetupIsUndoneHolds == Spec => []FailedSetupIsUndone
<1>1. IInv => FailedSetupIsUndone
  BY DEF IInv
<1> QED BY <1>1, Invariant, PTL

\* After a call of set_config or repair that succeeds, every file that nobody
\* else touched has the hook exactly when the saved setting says so.
THEOREM HooksFollowSettingHolds == Spec => []HooksFollowSetting
<1>1. IInv => HooksFollowSetting
  BY DEF IInv
<1> QED BY <1>1, Invariant, PTL

=============================================================================
