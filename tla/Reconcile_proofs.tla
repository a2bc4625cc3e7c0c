-------------------------- MODULE Reconcile_proofs --------------------------
(***************************************************************************)
(* Proofs about Reconcile, for any items, attachments, batch sizes and     *)
(* bounds: what the source has is never archived.                          *)
(***************************************************************************)
EXTENDS Reconcile, TLAPS

Doc == [live : BOOLEAN, ver : Versions, new : BOOLEAN]

\* The stages of a pass in which nothing is staged yet, or any more; those of
\* the walk; those after it.
Unstaged == {"off", "head", "begin", "finish"}
Walking == {"walk", "stage", "last"}
After == {"diff", "archive"}

Types ==
  /\ TypeOK
  /\ pass.pc \in Unstaged => ~staged.open
  /\ pass.pc \in {"head", "begin"} => pass.page = {}
  /\ pull = "off" => pass.pc = "off"

\* What is written, or is in hand, is not ahead of the source; what is in hand
\* is what the source has, unless a change of it is still to be read.
Fresh ==
  /\ \A t \in Items : doc[t].ver <= made /\ src[t] <= made
  /\ batch # None => /\ batch.v <= made
                     /\ batch.t \notin news => src[batch.t] \in {0, batch.v}

Listed == staged.rows \cup pass.page

\* A document the walk has passed needs no archiving, or is not as the source
\* has it, so that the pull has it still to write.
Seen(t) == t \in Listed \/ doc[t].new \/ ~doc[t].live \/ doc[t].ver # src[t]

Walk ==
  /\ pass.pc # "off" => sess = scope
  /\ pass.pc \in Walking \cup After /\ staged.open => \A t \in sess \ pass.walk : Seen(t)
  /\ pass.pc \in Walking => pass.walk \subseteq sess /\ Listed \subseteq sess \ pass.walk
  /\ pass.pc = "last" => \/ loop.aborted \/ pass.walk = {}
                         \/ Listed = {} /\ pass.allowed # "full"
  /\ pass.pc = "diff" => \/ pass.walk = {}
                         \/ staged.rows = {} /\ pass.allowed # "full"
  /\ pass.pc = "archive" => pass.walk = {}
  /\ pass.pc \in After /\ staged.open => pass.page \subseteq staged.rows

-----------------------------------------------------------------------------
(* What the store's operations do to the documents.                        *)

\* An upsert makes the item live with the content given, and its attachments
\* live; what it writes is new once the snapshot is taken.
LEMMA UpsertedFacts ==
  ASSUME doc \in [Docs -> Doc], NEW t \in Items, NEW v \in Versions
  PROVE  LET u == Upserted(t, v) IN
         /\ u \in [Docs -> Doc]
         /\ u[t].live /\ u[t].ver = v
         /\ u[t] = doc[t] \/ u[t].new = Snapshot
         /\ \A k \in KidsOf(t) : u[k].live
         /\ \A d \in Docs : d # t /\ d \notin KidsOf(t) => u[d] = doc[d]
         /\ \A d \in Docs : u[d].new => doc[d].new \/ Snapshot
<1> DEFINE u == Upserted(t, v)
<1>1. t \in Docs /\ t \notin KidsOf(t) /\ KidsOf(t) \subseteq Docs
  BY ReconcileAssumption DEF Docs, KidsOf
<1>2. 1 \in Versions /\ Snapshot \in BOOLEAN
  BY ReconcileAssumption DEF Versions, Snapshot
<1>3. ASSUME NEW d \in Docs
      PROVE  /\ u[d] \in Doc
             /\ u[d].new => doc[d].new \/ Snapshot
             /\ d = t => u[d].live /\ u[d].ver = v /\ (u[d] = doc[d] \/ u[d].new = Snapshot)
             /\ d \in KidsOf(t) => u[d].live
             /\ d # t /\ d \notin KidsOf(t) => u[d] = doc[d]
  <2>1. CASE d = t /\ ~(doc[t].live /\ doc[t].ver = v)
    <3>1. u[d] = [live |-> TRUE, ver |-> v, new |-> Snapshot]
      BY <1>1, <2>1 DEF Upserted
    <3>2. /\ u[d] \in Doc /\ u[d].live /\ u[d].ver = v /\ u[d].new = Snapshot
      BY <1>2, <3>1 DEF Doc
    <3> QED BY <1>1, <2>1, <3>2
  <2>2. CASE d \in KidsOf(t) /\ ~doc[d].live
    <3>1. u[d] = [live |-> TRUE, ver |-> 1, new |-> Snapshot]
      BY <1>1, <2>2 DEF Upserted
    <3> QED BY <1>1, <1>2, <2>2, <3>1 DEF Doc
  <2>3. CASE /\ ~(d = t /\ ~(doc[t].live /\ doc[t].ver = v))
             /\ ~(d \in KidsOf(t) /\ ~doc[d].live)
    <3>1. u[d] = doc[d]
      BY <2>3 DEF Upserted
    <3> QED BY <2>3, <3>1 DEF Doc
  <2> QED BY <2>1, <2>2, <2>3
<1>4. u = [d \in Docs |-> u[d]]
  BY DEF Upserted
<1>5. u \in [Docs -> Doc]
  BY <1>3, <1>4
<1> QED BY <1>1, <1>3, <1>5

\* Archiving takes the documents given and the attachments of its items, and
\* leaves the others alone.
LEMMA ArchivedFacts ==
  ASSUME doc \in [Docs -> Doc], NEW ds \in SUBSET Docs
  PROVE  LET a == Archived(ds) IN
         /\ a \in [Docs -> Doc]
         /\ \A t \in Items : IF t \in ds THEN ~a[t].live ELSE a[t] = doc[t]
         /\ \A k \in Kids : IF k \in ds \/ ParentOf[k] \in ds THEN ~a[k].live ELSE a[k] = doc[k]
         /\ \A d \in Docs : a[d].new => doc[d].new
         /\ \A d \in Docs : a[d].ver = doc[d].ver
<1> DEFINE a == Archived(ds)
           all == ds \cup UNION {KidsOf(d) : d \in ds}
<1>1. \A t \in Items : t \in all <=> t \in ds
  BY ReconcileAssumption DEF KidsOf
<1>2. \A k \in Kids : k \in all <=> k \in ds \/ ParentOf[k] \in ds
  BY DEF KidsOf
<1>3. a = [d \in Docs |-> IF d \in all THEN [doc[d] EXCEPT !.live = FALSE, !.new = FALSE] ELSE doc[d]]
  BY DEF Archived
<1> HIDE DEF a, all
<1>4. ASSUME NEW d \in Docs
      PROVE  /\ a[d] \in Doc /\ (a[d].new => doc[d].new) /\ a[d].ver = doc[d].ver
             /\ IF d \in all THEN ~a[d].live ELSE a[d] = doc[d]
  <2>1. CASE d \in all
    BY <1>3, <2>1 DEF Doc
  <2>2. CASE d \notin all
    BY <1>3, <2>2 DEF Doc
  <2> QED BY <2>1, <2>2
<1>5. a \in [Docs -> Doc]
  BY <1>3, <1>4
<1> QED BY <1>1, <1>2, <1>4, <1>5 DEF Docs, a

\* The end of a pass changes nothing but what is new.
LEMMA NoneNewFacts ==
  ASSUME doc \in [Docs -> Doc]
  PROVE  /\ NoneNew \in [Docs -> Doc]
         /\ \A d \in Docs : /\ NoneNew[d].live = doc[d].live /\ NoneNew[d].ver = doc[d].ver
                            /\ ~NoneNew[d].new
BY DEF NoneNew, Doc

-----------------------------------------------------------------------------
(* Types.                                                                  *)

\* The constants, as the provers use them.
LEMMA Bounds ==
  /\ MaxVer \in Nat /\ 1 <= MaxVer /\ MaxActs \in Nat /\ MaxFaults \in Nat
  /\ \A t \in Items : None \notin [t : Items, v : 0..MaxVer]
BY ReconcileAssumption

\* A fresh state is of its type.
LEMMA TypesInit == Init => Types
BY Bounds DEF Init, Types, TypeOK, NoPass, Closed, NoOp, Versions, Snapshot, Unstaged

Loop == [on : BOOLEAN, aborted : BOOLEAN, again : BOOLEAN]
Op == [pc : {"none", "saved", "stop"}, to : SUBSET Items]

\* What rests or runs beside the pass: it may abort the loop, or start one.
Beside ==
  /\ Rest
  /\ allow' \in {"none", "ratio", "full"} /\ loop' \in Loop /\ op' \in Op
  /\ loop.on => loop'.on /\ (loop.aborted => loop'.aborted)
  /\ acts' \in 0..MaxActs /\ faults' \in 0..MaxFaults

\* Starts and settings only do what is beside the pass.
LEMMA OpsAreBeside ==
  ASSUME Types,
         \/ Tick \/ SyncNow \/ Saves \/ SaveRuns \/ \E to \in SUBSET Items : Manages(to)
  PROVE  Beside
<1> DEFINE Runs == loop' \in Loop /\ (loop.on => loop'.on /\ (loop.aborted => loop'.aborted))
<1>0. /\ allow \in {"none", "ratio", "full"} /\ loop \in Loop /\ op \in Op
      /\ acts \in 0..MaxActs /\ faults \in 0..MaxFaults
  BY DEF Types, TypeOK, Loop, Op
<1>a. Act => acts' \in 0..MaxActs
  BY <1>0, Bounds DEF Act
<1>r. run => Runs
  <2>1. CASE run /\ loop.on
    <3>1. loop' = [loop EXCEPT !.aborted = TRUE, !.again = TRUE]
      BY <2>1 DEF run
    <3> QED BY <1>0, <3>1 DEF Loop
  <2>2. CASE run /\ ~loop.on
    <3>1. loop' = [on |-> TRUE, aborted |-> FALSE, again |-> FALSE]
      BY <2>2 DEF run
    <3> QED BY <2>2, <3>1 DEF Loop
  <2> QED BY <2>1, <2>2
<1>u. UNCHANGED loop => Runs
  BY <1>0
<1>1. CASE Tick
  BY <1>0, <1>1, <1>r DEF Tick, Beside
<1>2. CASE SyncNow
  BY <1>0, <1>2, <1>a, <1>r DEF SyncNow, Beside
<1>3. CASE Saves
  <2>1. op' \in Op /\ allow' \in {"none", "ratio", "full"}
    BY <1>0, <1>3 DEF Saves, Op, NoOp, grant
  <2> QED BY <1>0, <1>3, <1>a, <1>u, <2>1 DEF Saves, Beside
<1>4. CASE SaveRuns
  <2>1. op' \in Op
    BY <1>4 DEF SaveRuns, Op, NoOp
  <2> QED BY <1>0, <1>4, <1>r, <1>u, <2>1 DEF SaveRuns, Beside
<1>5. ASSUME NEW to \in SUBSET Items, Manages(to)
      PROVE  Beside
  <2>1. op' \in Op
    BY <1>5 DEF Manages, Op
  <2>2. Runs
    BY <1>0, <1>5 DEF Manages, Loop
  <2> QED BY <1>0, <1>5, <1>a, <2>1, <2>2 DEF Manages, Beside
<1> QED BY <1>1, <1>2, <1>3, <1>4, <1>5

\* What is beside the pass keeps the types.
LEMMA TypesBeside == Types /\ Beside => Types'
<1> SUFFICES ASSUME Types, Beside PROVE Types'
  OBVIOUS
<1>1. UNCHANGED <<src, made, news, doc, scope, err, staged, sess, pull, batch, pass>>
  BY DEF Beside, Rest, world, corpus
<1>2. UNCHANGED Snapshot
  BY <1>1 DEF Snapshot
<1>3. TypeOK'
  BY <1>1, <1>2 DEF Types, TypeOK, Beside, Loop, Op
<1> QED BY <1>1, <1>3 DEF Types

\* The source: only its content, and what is to be read.
LEMMA TypesOfSource ==
  ASSUME Types, NEW t \in Items, Changes(t) \/ Vanishes(t)
  PROVE  Types'
<1>1. UNCHANGED <<doc, scope, err, staged, allow, loop, sess, op, pull, batch, pass, acts, faults>>
  BY DEF Changes, Vanishes, Inert, corpus, engine
<1>2. UNCHANGED Snapshot
  BY <1>1 DEF Snapshot
<1>3. src' \in [Items -> 0..MaxVer] /\ made' \in Versions /\ news' \subseteq Items
  <2>1. /\ src \in [Items -> 0..MaxVer] /\ made \in Versions /\ news \subseteq Items
        /\ doc[t].ver \in Versions
    BY DEF Types, TypeOK, Docs
  <2>2. CASE Changes(t)
    BY Bounds, <2>1, <2>2 DEF Changes, Versions
  <2>3. CASE Vanishes(t)
    BY Bounds, <2>1, <2>3 DEF Vanishes, Versions
  <2> QED BY <2>2, <2>3
<1>4. TypeOK'
  BY <1>1, <1>2, <1>3 DEF Types, TypeOK
<1> QED BY <1>1, <1>4 DEF Types

\* The pull: documents, the batch in hand and what is to be read.
LEMMA TypesOfPull ==
  ASSUME Types,
         (\E t \in Items : PullReads(t)) \/ PullCommits \/ PullEnds
  PROVE  Types'
<1>1. UNCHANGED <<src, made, scope, staged, allow, loop, sess, op, pass, acts>> /\ pull # "off"
  BY DEF PullReads, PullCommits, PullEnds, Pulls, world, engine
<1>2. UNCHANGED Snapshot
  BY <1>1 DEF Snapshot
<1>3. /\ news \subseteq Items /\ src \in [Items -> 0..MaxVer] /\ faults \in 0..MaxFaults
      /\ batch \in [t : Items, v : 0..MaxVer] \cup {None} /\ (batch # None <=> pull = "batch")
      /\ doc \in [Docs -> Doc] /\ err \in {"none", "pull", "pass"}
      /\ ~Snapshot => \A d \in Docs : ~doc[d].new
  BY DEF Types, TypeOK, Doc
<1>4. /\ news' \subseteq Items /\ faults' \in 0..MaxFaults
      /\ batch' \in [t : Items, v : 0..MaxVer] \cup {None} /\ (batch' # None <=> pull' = "batch")
      /\ pull' \in {"idle", "batch", "ended", "failed"}
  <2>1. ASSUME NEW t \in Items, PullReads(t)
        PROVE  /\ news' \subseteq Items /\ faults' \in 0..MaxFaults
               /\ batch' \in [t : Items, v : 0..MaxVer] \cup {None}
               /\ (batch' # None <=> pull' = "batch") /\ pull' = "batch"
    <3>1. batch' = [t |-> t, v |-> src[t]] /\ pull' = "batch" /\ news' \subseteq news
      BY <2>1 DEF PullReads
    <3>2. src[t] \in 0..MaxVer
      BY <1>3
    <3>3. batch' \in [t : Items, v : 0..MaxVer] /\ batch' # None
      BY Bounds, <3>1, <3>2
    <3> QED BY <1>3, <2>1, <3>1, <3>3 DEF PullReads
  <2>2. CASE PullCommits
    BY <1>3, <2>2 DEF PullCommits
  <2>3. CASE PullEnds
    BY <1>3, Bounds, <2>3 DEF PullEnds, Unread, Fault
  <2> QED BY <2>1, <2>2, <2>3
<1>5. /\ doc' \in [Docs -> Doc] /\ err' \in {"none", "pull", "pass"}
      /\ ~Snapshot => \A d \in Docs : ~doc'[d].new
  <2>1. CASE PullCommits
    <3>1. batch.t \in Items /\ batch.v \in 0..MaxVer
      BY <1>3, <2>1 DEF PullCommits
    <3>2. CASE batch.v = 0
      <4>1. doc' = doc \/ doc' = Archived({batch.t})
        BY <2>1, <3>2 DEF PullCommits
      <4> QED BY <1>3, <2>1, <3>1, <4>1, ArchivedFacts DEF PullCommits, PullCleared, Docs
    <3>3. CASE batch.v # 0
      <4>1. doc' = Upserted(batch.t, batch.v) /\ batch.v \in Versions
        BY Bounds, <2>1, <3>1, <3>3 DEF PullCommits, Versions
      <4>2. /\ doc' \in [Docs -> Doc]
            /\ \A d \in Docs : doc'[d].new => doc[d].new \/ Snapshot
        BY <1>3, <3>1, <4>1, UpsertedFacts, Zenon
      <4> QED BY <1>3, <2>1, <4>2 DEF PullCommits, PullCleared
    <3> QED BY <3>2, <3>3
  <2>2. CASE UNCHANGED <<doc, err>>
    BY <1>3, <2>2
  <2> QED BY <2>1, <2>2 DEF PullReads, PullEnds
<1>6. TypeOK'
  BY <1>1, <1>2, <1>4, <1>5 DEF Types, TypeOK, Doc
<1> QED BY <1>1, <1>4, <1>6 DEF Types

\* The part of the types a pass can disturb.
PassType == [pc : {"off", "head", "begin", "walk", "stage", "last", "diff", "archive", "finish"},
             walk : SUBSET Items, page : SUBSET Items,
             allowed : {"none", "ratio", "full"}, ok : BOOLEAN]
PassOK ==
  /\ staged \in [open : BOOLEAN, rows : SUBSET Items] /\ pass \in PassType
  /\ doc \in [Docs -> Doc] /\ err \in {"none", "pull", "pass"} /\ faults \in 0..MaxFaults
  /\ ~staged.open => staged.rows = {}
  /\ pass.pc \in Unstaged => ~staged.open
  /\ pass.pc \in {"off", "head"} => \A d \in Docs : ~doc[d].new
  /\ pass.pc \in {"head", "begin"} => pass.page = {}

\* The types give that part of them,
LEMMA TypesGivePassOK == Types => PassOK
BY DEF Types, TypeOK, PassOK, PassType, Doc, Snapshot

\* and a step of a pass that keeps it keeps them.
LEMMA PassOKGivesTypes ==
  ASSUME Types, Passes, PassOK', pass.pc # "off"
  PROVE  Types'
<1>1. UNCHANGED <<src, made, news, scope, allow, loop, sess, op, pull, batch, acts>>
  BY DEF Passes, world, engine
<1>2. loop.on /\ pull # "off"
  BY DEF Types, TypeOK
<1>3. (~Snapshot => \A d \in Docs : ~doc[d].new)'
  BY DEF PassOK, Snapshot
<1>4. TypeOK'
  BY <1>1, <1>2, <1>3 DEF Types, TypeOK, PassOK, PassType, Doc, Unstaged
<1> QED BY <1>1, <1>2, <1>4 DEF Types, PassOK

\* A pass that is over leaves nothing staged and nothing new.
LEMMA OverFacts ==
  ASSUME PassOK, Over, staged' = Closed, err' \in {"none", "pull", "pass"}, faults' \in 0..MaxFaults
  PROVE  PassOK'
<1>1. doc' \in [Docs -> Doc] /\ \A d \in Docs : ~doc'[d].new
  BY NoneNewFacts DEF PassOK, Over
<1>2. pass' \in PassType /\ pass'.pc = "off"
  BY DEF Over, NoPass, PassType
<1>3. staged' \in [open : BOOLEAN, rows : SUBSET Items] /\ ~staged'.open /\ staged'.rows = {}
  BY DEF Closed
<1> QED BY <1>1, <1>2, <1>3 DEF PassOK

\* So does one that is caught, once it has finished.
LEMMA CaughtFacts ==
  ASSUME PassOK, Caught, faults' \in 0..MaxFaults
  PROVE  PassOK' /\ Passes
<1>1. staged' = Closed /\ err' = err /\ Passes
  BY DEF Caught
<1>2. CASE loop.aborted
  BY <1>1, <1>2, OverFacts DEF Caught, PassOK
<1>3. CASE ~loop.aborted
  <2>1. pass' = [pass EXCEPT !.pc = "finish", !.ok = FALSE] /\ doc' = doc
    BY <1>3 DEF Caught
  <2>2. pass' \in PassType /\ pass'.pc = "finish"
    BY <2>1 DEF PassOK, PassType
  <2>3. staged' \in [open : BOOLEAN, rows : SUBSET Items] /\ ~staged'.open /\ staged'.rows = {}
    BY <1>1 DEF Closed
  <2> QED BY <1>1, <2>1, <2>2, <2>3 DEF PassOK
<1> QED BY <1>2, <1>3

\* Each step of the pass.
LEMMA TypesOfPass ==
  ASSUME Types, Pass \/ PassFails \/ \E t \in Items : Visits(t)
  PROVE  Types'
<1> USE Bounds
<1>0. PassOK
  BY TypesGivePassOK
<1>c. ASSUME Caught, faults' \in 0..MaxFaults, pass.pc # "off"
      PROVE  Types'
  BY <1>0, <1>c, CaughtFacts, PassOKGivesTypes
<1>f. faults \in 0..MaxFaults /\ (Fault => faults' \in 0..MaxFaults)
  BY <1>0 DEF PassOK, Fault
<1>g. ASSUME NEW pc \in {"begin", "finish", "walk", "stage", "last", "diff", "archive"}, Goes(pc)
      PROVE  /\ pass' \in PassType /\ pass'.pc = pc
             /\ pass'.walk = pass.walk /\ pass'.page = pass.page /\ pass'.allowed = pass.allowed
  BY <1>0, <1>g DEF PassOK, PassType, Goes
<1>1. CASE PassHead
  <2>1. pass' \in PassType /\ pass'.pc = "begin" /\ pass'.page = {}
    BY <1>0, <1>1, <1>g DEF PassHead, PassOK
  <2>2. PassOK'
    BY <1>0, <1>1, <2>1 DEF PassHead, Reads, PassOK, Unstaged
  <2> QED BY <1>1, <2>2, PassOKGivesTypes DEF PassHead, Reads
<1>2. CASE PassBegins
  <2>1. pass' \in PassType /\ pass'.pc = "walk"
    <3>1. sess \in SUBSET Items
      BY DEF Types, TypeOK
    <3> QED BY <1>0, <1>2, <3>1 DEF PassBegins, PassOK, PassType
  <2>2. PassOK'
    BY <1>0, <1>2, <2>1 DEF PassBegins, Reads, PassOK, Unstaged
  <2> QED BY <1>2, <2>2, PassOKGivesTypes DEF PassBegins, Reads
<1>3. ASSUME NEW t \in Items, Visits(t)
      PROVE  Types'
  <2> DEFINE page == pass.page \cup (IF src[t] # 0 THEN {t} ELSE {})
             pc == IF Cardinality(page) >= StageBatch THEN "stage" ELSE "walk"
  <2>1. pass' = [pass EXCEPT !.walk = @ \ {t}, !.page = page, !.pc = pc]
    BY <1>3 DEF Visits
  <2>2. page \in SUBSET Items /\ pc \in {"stage", "walk"}
    BY <1>0 DEF PassOK, PassType
  <2> HIDE DEF page, pc
  <2>3. pass' \in PassType /\ pass'.pc \in {"stage", "walk"}
    BY <1>0, <2>1, <2>2 DEF PassOK, PassType
  <2>4. PassOK'
    BY <1>0, <1>3, <2>3 DEF Visits, Reads, PassOK, Unstaged
  <2> QED BY <1>3, <2>4, PassOKGivesTypes DEF Visits, Reads
<1>4. CASE Stages
  <2>1. CASE ~staged.open
    BY <1>4, <1>c, <1>f, <2>1 DEF Stages
  <2>2. CASE staged.open
    <3>1. /\ staged' = [staged EXCEPT !.rows = @ \cup pass.page]
          /\ pass' = [pass EXCEPT !.pc = "walk", !.page = {}]
          /\ UNCHANGED <<doc, err, faults>> /\ Passes
      BY <1>4, <2>2 DEF Stages, Reads
    <3>2. pass' \in PassType /\ pass'.pc = "walk"
      BY <1>0, <3>1 DEF PassOK, PassType
    <3>3. staged' \in [open : BOOLEAN, rows : SUBSET Items] /\ staged'.open
      BY <1>0, <2>2, <3>1 DEF PassOK, PassType
    <3>4. PassOK'
      BY <1>0, <3>1, <3>2, <3>3 DEF PassOK, Unstaged
    <3> QED BY <1>4, <3>1, <3>4, PassOKGivesTypes DEF Stages
  <2> QED BY <2>1, <2>2
<1>5. CASE WalkEnds
  <2>1. pass' \in PassType /\ pass'.pc = "last"
    BY <1>5, <1>g DEF WalkEnds
  <2>2. PassOK'
    BY <1>0, <1>5, <1>f, <2>1 DEF WalkEnds, Reads, PassOK, Unstaged
  <2> QED BY <1>5, <2>2, PassOKGivesTypes DEF WalkEnds, Reads
<1>6. CASE LastStaged
  <2>1. CASE pass.page # {} /\ ~staged.open
    BY <1>6, <1>c, <1>f, <2>1 DEF LastStaged
  <2>2. CASE ~(pass.page # {} /\ ~staged.open) /\ loop.aborted
    <3>1. staged' = Closed /\ Over /\ UNCHANGED <<err, faults>> /\ Passes
      BY <1>6, <2>2 DEF LastStaged
    <3>2. PassOK'
      BY <1>0, <3>1, OverFacts DEF PassOK
    <3> QED BY <1>6, <3>1, <3>2, PassOKGivesTypes DEF LastStaged
  <2>3. CASE ~(pass.page # {} /\ ~staged.open) /\ ~loop.aborted
    <3>1. /\ staged' = [staged EXCEPT !.rows = @ \cup pass.page]
          /\ Goes("diff") /\ UNCHANGED <<doc, err, faults>> /\ Passes
      BY <1>6, <2>3 DEF LastStaged
    <3>2. pass' \in PassType /\ pass'.pc = "diff"
      BY <1>g, <3>1
    <3>3. /\ staged' \in [open : BOOLEAN, rows : SUBSET Items]
          /\ ~staged'.open => staged'.rows = {}
      BY <1>0, <2>3, <3>1 DEF PassOK, PassType
    <3>4. PassOK'
      BY <1>0, <3>1, <3>2, <3>3 DEF PassOK, Unstaged
    <3> QED BY <1>6, <3>1, <3>4, PassOKGivesTypes DEF LastStaged
  <2> QED BY <2>1, <2>2, <2>3
<1>7. CASE Diffs
  <2>1. CASE ~staged.open
    BY <1>7, <1>c, <1>f, <2>1 DEF Diffs
  <2>2. CASE staged.open /\ Goes("archive") /\ UNCHANGED staged
    <3>1. pass' \in PassType /\ pass'.pc = "archive"
      BY <1>g, <2>2
    <3>2. PassOK'
      BY <1>0, <1>7, <2>2, <3>1 DEF Diffs, Reads, PassOK, Unstaged
    <3> QED BY <1>7, <2>2, <3>2, PassOKGivesTypes DEF Diffs, Reads
  <2>3. CASE /\ staged.open /\ staged' = Closed
             /\ pass' = [pass EXCEPT !.pc = "finish", !.ok = (Gone \cap Items = {})]
    <3>1. pass' \in PassType /\ pass'.pc = "finish"
      BY <1>0, <2>3 DEF PassOK, PassType
    <3>2. PassOK'
      BY <1>0, <1>7, <2>3, <3>1 DEF Diffs, Reads, PassOK, Closed
    <3> QED BY <1>7, <2>3, <3>2, PassOKGivesTypes DEF Diffs, Reads
  <2> QED BY <1>7, <2>1, <2>2, <2>3 DEF Diffs
<1>8. CASE Archives
  <2>1. CASE Caught
    BY <1>8, <1>c, <1>f, <2>1 DEF Archives
  <2>2. ASSUME staged.open, NEW some \in SUBSET Gone, doc' = Archived(some), Passes, UNCHANGED err,
               \/ staged' = Closed /\ pass' = [pass EXCEPT !.pc = "finish", !.ok = TRUE]
               \/ UNCHANGED <<staged, pass>>
        PROVE  Types'
    <3>1. /\ doc' \in [Docs -> Doc]
      BY <1>0, <2>2, ArchivedFacts DEF PassOK, Gone
    <3>2. CASE UNCHANGED <<staged, pass>>
      BY <1>0, <1>8, <2>2, <3>1, <3>2, PassOKGivesTypes DEF Archives, PassOK
    <3>3. CASE staged' = Closed /\ pass' = [pass EXCEPT !.pc = "finish", !.ok = TRUE]
      <4>1. pass' \in PassType /\ pass'.pc = "finish"
        BY <1>0, <3>3 DEF PassOK, PassType
      <4>2. PassOK'
        BY <1>0, <1>8, <2>2, <3>1, <3>3, <4>1 DEF Archives, PassOK, Closed
      <4> QED BY <1>8, <2>2, <4>2, PassOKGivesTypes DEF Archives
    <3> QED BY <2>2, <3>2, <3>3
  <2> QED BY <1>8, <2>1, <2>2 DEF Archives
<1>9. CASE Finishes
  <2>1. UNCHANGED staged /\ ~staged.open /\ staged.rows = {}
    BY <1>0, <1>9 DEF Finishes, PassOK, Unstaged
  <2>2. staged' = Closed
    BY <1>0, <2>1 DEF PassOK, Closed
  <2>3. err' \in {"none", "pull", "pass"}
    BY <1>0, <1>9 DEF Finishes, PassOK
  <2>4. PassOK'
    BY <1>0, <1>9, <1>f, <2>2, <2>3, OverFacts DEF Finishes
  <2> QED BY <1>9, <2>4, PassOKGivesTypes DEF Finishes
<1>10. CASE PassFails
  <2>1. CASE pass.pc # "off" /\ Caught
    BY <1>10, <1>c, <1>f, <2>1 DEF PassFails
  <2>2. CASE pass.pc \in {"head", "begin", "finish"} /\ Over /\ UNCHANGED <<staged, err>> /\ Passes
    <3>1. staged' = Closed
      BY <1>0, <2>2 DEF PassOK, Closed, Unstaged
    <3>2. PassOK'
      BY <1>0, <1>10, <1>f, <2>2, <3>1, OverFacts DEF PassFails, PassOK
    <3> QED BY <2>2, <3>2, PassOKGivesTypes
  <2> QED BY <1>10, <2>1, <2>2 DEF PassFails
<1> QED BY <1>1, <1>2, <1>3, <1>4, <1>5, <1>6, <1>7, <1>8, <1>9, <1>10 DEF Pass

\* A cycle begins before its pass, and ends after it.
LEMMA TypesOfCycle ==
  ASSUME Types, CycleStart \/ CycleEnds
  PROVE  Types'
<1>1. CASE CycleStart
  <2>1. /\ UNCHANGED <<src, made, news, doc, scope, err, staged, loop, op, batch, acts, faults>>
        /\ loop.on /\ pull = "off" /\ pull' = "idle" /\ sess' = scope /\ allow' = "none"
    BY <1>1 DEF CycleStart, world, corpus
  <2>2. pass.pc = "off" /\ ~staged.open
    BY <2>1 DEF Types, TypeOK
  <2>3. pass' \in PassType /\ pass'.pc = "head" /\ pass'.page = {}
    <3>1. allow \in {"none", "ratio", "full"}
      BY DEF Types, TypeOK
    <3> QED BY <1>1, <3>1 DEF CycleStart, NoPass, PassType
  <2>4. ~Snapshot /\ ~Snapshot'
    BY <2>2, <2>3 DEF Snapshot
  <2>5. TypeOK'
    BY <2>1, <2>2, <2>3, <2>4 DEF Types, TypeOK, PassType
  <2> QED BY <2>1, <2>2, <2>3, <2>5 DEF Types
<1>2. CASE CycleEnds
  <2>1. /\ UNCHANGED <<src, made, news, doc, scope, staged, allow, sess, batch, pass, op, acts, faults>>
        /\ pass.pc = "off" /\ pull # "batch" /\ pull' = "off"
    BY <1>2 DEF CycleEnds, world
  <2>2. UNCHANGED Snapshot
    BY <2>1 DEF Snapshot
  <2>3. loop' \in Loop
    <3>1. loop \in Loop
      BY DEF Types, TypeOK, Loop
    <3>2. loop' = loop \/ loop' = [on |-> loop.again, aborted |-> FALSE, again |-> FALSE]
      BY <1>2 DEF CycleEnds
    <3>3. [on |-> loop.again, aborted |-> FALSE, again |-> FALSE] \in Loop
      BY <3>1 DEF Loop
    <3> QED BY <3>1, <3>2, <3>3
  <2>4. err' \in {"none", "pull", "pass"}
    BY <1>2 DEF CycleEnds, PullCleared, Types, TypeOK
  <2>5. TypeOK'
    BY <2>1, <2>2, <2>3, <2>4 DEF Types, TypeOK, Loop
  <2> QED BY <2>1, <2>5 DEF Types
<1> QED BY <1>1, <1>2

\* A folder save, while nothing runs.
LEMMA TypesOfScope ==
  ASSUME Types, NEW to \in SUBSET Items, op.to = to, ScopeWritten
  PROVE  Types'
<1>1. /\ UNCHANGED <<src, made, err, staged, sess, pull, batch, pass, acts>>
      /\ op' = NoOp /\ loop' = [loop EXCEPT !.on = TRUE] /\ ~loop.on
  BY DEF ScopeWritten, world
<1>2. /\ pass.pc = "off" /\ ~Snapshot /\ ~Snapshot' /\ doc \in [Docs -> Doc]
      /\ \A d \in Docs : ~doc[d].new
  BY <1>1 DEF Types, TypeOK, Snapshot, Doc
<1>3. loop' \in Loop /\ op' \in Op
  BY <1>1 DEF Types, TypeOK, Loop, NoOp, Op
<1>4. /\ doc' \in [Docs -> Doc] /\ \A d \in Docs : ~doc'[d].new
  <2>1. doc' = doc \/ doc' = Archived({t \in scope \ to : doc[t].live})
    BY DEF ScopeWritten
  <2>2. {t \in scope \ to : doc[t].live} \in SUBSET Docs
    BY DEF Types, TypeOK, Docs
  <2> QED BY <1>2, <2>1, <2>2, ArchivedFacts
<1>5. /\ scope' \subseteq Items /\ news' \subseteq Items /\ faults' \in 0..MaxFaults
      /\ allow' \in {"none", "ratio", "full"}
  BY Bounds DEF ScopeWritten, Types, TypeOK, grant, Fault
<1>6. TypeOK'
  BY <1>1, <1>2, <1>3, <1>4, <1>5 DEF Types, TypeOK, Loop, Op, Doc
<1> QED BY <1>1, <1>2, <1>6 DEF Types

\* Workers, respawns and crashes.
LEMMA TypesOfFaults ==
  ASSUME Types, (\E d \in Docs : Enriched(d)) \/ Respawns \/ Crashes
  PROVE  Types'
<1> USE Bounds
<1>1. ASSUME NEW d \in Docs, Enriched(d)
      PROVE  Types'
  <2>1. /\ UNCHANGED <<src, made, news, scope, err, staged, allow, loop, sess, op, pull, batch, pass, faults>>
        /\ Snapshot /\ Snapshot' /\ acts' \in 0..MaxActs
    BY <1>1 DEF Enriched, Act, Types, TypeOK, world, engine, Snapshot
  <2>2. doc' \in [Docs -> Doc]
    BY ZenonT(60), <1>1 DEF Enriched, Types, TypeOK, Doc
  <2>3. TypeOK'
    BY <2>1, <2>2 DEF Types, TypeOK, Doc
  <2> QED BY <2>1, <2>3 DEF Types
<1>2. CASE Respawns
  <2>1. /\ UNCHANGED <<src, made, news, doc, scope, err, allow, loop, sess, op, pull, batch, pass, acts>>
        /\ faults' \in 0..MaxFaults
    BY <1>2 DEF Respawns, Fault, Types, TypeOK, world, corpus, engine
  <2>2. /\ UNCHANGED Snapshot
        /\ staged' \in [open : BOOLEAN, rows : SUBSET Items] /\ ~staged'.open /\ staged'.rows = {}
    BY <1>2, <2>1 DEF Respawns, Closed, Snapshot
  <2>3. TypeOK'
    BY <2>1, <2>2 DEF Types, TypeOK
  <2> QED BY <2>1, <2>2, <2>3 DEF Types
<1>3. CASE Crashes
  <2>1. /\ UNCHANGED <<src, made, scope, err, sess, acts>> /\ faults' \in 0..MaxFaults
        /\ allow' = "none" /\ pull' = "off" /\ batch' = None
    BY <1>3 DEF Crashes, Fault, Types, TypeOK, world
  <2>2. loop' \in Loop /\ op' \in Op
    BY <1>3 DEF Crashes, Loop, NoOp, Op
  <2>3. /\ staged' \in [open : BOOLEAN, rows : SUBSET Items] /\ ~staged'.open /\ staged'.rows = {}
        /\ pass' \in PassType /\ pass'.pc = "off"
    BY <1>3 DEF Crashes, Closed, Over, NoPass, PassType
  <2>4. news' \subseteq Items
    BY <1>3 DEF Crashes, Unread, Types, TypeOK
  <2>5. doc' \in [Docs -> Doc] /\ \A d \in Docs : ~doc'[d].new
    BY <1>3, NoneNewFacts DEF Crashes, Over, Types, TypeOK, Doc
  <2>6. TypeOK'
    BY <2>1, <2>2, <2>3, <2>4, <2>5 DEF Types, TypeOK, Loop, Op, PassType, Doc
  <2> QED BY <2>1, <2>3, <2>6 DEF Types
<1> QED BY <1>1, <1>2, <1>3

\* Every step keeps the types.
LEMMA TypesStep == Types /\ [Next]_vars => Types'
<1> SUFFICES ASSUME Types, [Next]_vars PROVE Types'
  OBVIOUS
<1>1. CASE UNCHANGED vars
  <2>1. UNCHANGED <<src, made, news, doc, scope, err, staged, allow, loop, sess, op, pull, batch, pass, acts, faults>>
    BY <1>1 DEF vars, world, corpus, engine
  <2>2. UNCHANGED Snapshot
    BY <2>1 DEF Snapshot
  <2>3. TypeOK'
    BY <2>1, <2>2 DEF Types, TypeOK
  <2> QED BY <2>1, <2>3 DEF Types
<1>2. CASE Tick \/ SyncNow \/ Saves \/ SaveRuns \/ \E to \in SUBSET Items : Manages(to)
  BY <1>2, OpsAreBeside, TypesBeside
<1>3. CASE ScopeWritten
  <2>1. op.to \in SUBSET Items
    BY DEF Types, TypeOK
  <2> QED BY <1>3, <2>1, TypesOfScope
<1>4. CASE Next
  BY <1>2, <1>3, <1>4, TypesOfSource, TypesOfPull, TypesOfPass, TypesOfCycle, TypesOfFaults
  DEF Next, Progress, Cycle, Ops
<1> QED BY <1>1, <1>4

\* Every state is of its type, whatever the items, the batch sizes and the
\* order of the pull, the pass, saves and faults.
THEOREM TypeCorrect == Spec => []TypeOK
<1>1. Types => TypeOK
  BY DEF Types
<1> QED BY <1>1, TypesInit, TypesStep, PTL DEF Spec

-----------------------------------------------------------------------------
(* What the source has is in the corpus.  The pass archives a document only *)
(* because its walk has passed the item without listing it, and nothing has *)
(* been written since: then the pull has a change of it still to write.     *)

\* The inductive invariant, beside the types.
Sound == Fresh /\ Walk /\ CorpusFaithful

\* At first the corpus is the source.
LEMMA SoundInit == Init => Sound
<1> SUFFICES ASSUME Init PROVE Sound
  OBVIOUS
<1>1. Fresh
  BY DEF Init, Fresh, Docs
<1>2. Walk
  BY DEF Init, Walk, NoPass, Walking, After
<1>3. CorpusFaithful
  BY ReconcileAssumption DEF Init, CorpusFaithful, Docs, KidsOf, Pending
<1> QED BY <1>1, <1>2, <1>3 DEF Sound

\* What is beside the pass can only abort it.
LEMMA SoundBeside == Types /\ Sound /\ Beside => Sound'
<1> SUFFICES ASSUME Types, Sound, Beside PROVE Sound'
  OBVIOUS
<1>1. UNCHANGED <<src, made, news, doc, scope, err, staged, sess, pull, batch, pass>>
  BY DEF Beside, Rest, world, corpus
<1>2. Fresh' /\ CorpusFaithful'
  BY <1>1 DEF Sound, Fresh, CorpusFaithful, Pending
<1>3. pass.pc # "off" /\ loop.aborted => loop'.aborted
  BY DEF Beside, Types, TypeOK
<1>4. Walk'
  BY <1>1, <1>3 DEF Sound, Walk, Listed, Seen, Walking, After
<1> QED BY <1>2, <1>4 DEF Sound

\* Facts of the type that the steps below use.
LEMMA Shape ==
  ASSUME Types
  PROVE  /\ src \in [Items -> 0..MaxVer] /\ made \in Nat /\ doc \in [Docs -> Doc]
         /\ news \subseteq Items /\ scope \subseteq Items /\ sess \subseteq Items
         /\ staged.rows \subseteq Items /\ pass.page \subseteq Items /\ pass.walk \subseteq Items
         /\ batch # None => (batch.t \in Items /\ batch.v \in 0..MaxVer)
         /\ (batch # None) = (pull = "batch")
         /\ ~staged.open => staged.rows = {}
         /\ \A t \in Items : t \in Docs /\ doc[t].ver \in Nat /\ doc[t].ver # 0 /\ src[t] \in Nat
         /\ \A k \in Kids : k \in Docs /\ ParentOf[k] \in Items /\ ParentOf[k] \in Docs
BY Bounds, ReconcileAssumption DEF Types, TypeOK, Doc, Docs, Versions

\* What the source has changes only to a content it never had, or to nothing.
LEMMA SoundOfSource ==
  ASSUME Types, Sound, ~Returns, NEW t \in Items, Changes(t) \/ Vanishes(t)
  PROVE  Sound'
<1>1. UNCHANGED <<doc, scope, staged, loop, sess, pull, batch, pass>>
  BY DEF Changes, Vanishes, Inert, corpus, engine
<1>2. /\ \A u \in Items : u # t => src'[u] = src[u] /\ (u \in news' <=> u \in news)
      /\ \/ src'[t] = 0 /\ made' = made
         \/ src'[t] = made + 1 /\ made' = made + 1 /\ t \in news'
      /\ news' \subseteq Items
  BY Shape DEF Changes, Vanishes
<1>3. doc[t].ver # src'[t]
  BY <1>2, Shape DEF Sound, Fresh
<1>4. Fresh'
  BY <1>1, <1>2, Shape DEF Sound, Fresh
<1>5. Walk'
  <2>1. UNCHANGED Listed /\ \A u \in Items : Seen(u) => Seen(u)'
    BY <1>1, <1>2, <1>3 DEF Seen, Listed
  <2> QED BY <1>1, <2>1, Shape DEF Sound, Walk
<1>6. CorpusFaithful'
  <2>1. ASSUME NEW u \in scope, src'[u] # 0, ~Pending(u)'
        PROVE  u # t /\ src[u] # 0 /\ ~Pending(u) /\ src'[u] = src[u]
    BY <1>1, <1>2, <2>1, Shape DEF Pending
  <2> QED BY <1>1, <2>1 DEF Sound, CorpusFaithful
<1> QED BY <1>4, <1>5, <1>6 DEF Sound

\* Where the documents stay live as they are, and what is to be read stays.
LEMMA FaithKept ==
  ASSUME Types, Fresh, CorpusFaithful, UNCHANGED <<src, made, scope, news, batch>>,
         \A d \in Docs : doc'[d].live = doc[d].live /\ doc'[d].ver = doc[d].ver
  PROVE  Fresh' /\ CorpusFaithful'
<1>1. Fresh'
  BY Shape DEF Fresh
<1>2. CorpusFaithful'
  <2>1. \A u \in Items : Pending(u)' <=> Pending(u)
    BY DEF Pending
  <2> QED BY <2>1, Shape DEF CorpusFaithful, KidsOf
<1> QED BY <1>1, <1>2

\* The pull writes what it read; a change that came since is still to be read.
LEMMA SoundOfPull ==
  ASSUME Types, Sound, (\E t \in Items : PullReads(t)) \/ PullCommits \/ PullEnds
  PROVE  Sound'
<1>1. UNCHANGED <<src, made, scope, staged, loop, sess, pass>>
  BY DEF PullReads, PullCommits, PullEnds, Pulls, world, engine
<1>2. Walk /\ Fresh /\ CorpusFaithful
  BY DEF Sound
<1>w. UNCHANGED doc => Walk'
  BY <1>1, <1>2 DEF Walk, Seen, Listed
<1>3. ASSUME NEW t \in Items, PullReads(t)
      PROVE  Sound'
  <2>1. batch' = [t |-> t, v |-> src[t]] /\ news' = news \ {t} /\ UNCHANGED doc /\ batch = None
    BY <1>3, Shape DEF PullReads
  <2>2. batch'.t = t /\ batch'.v = src[t]
    BY <2>1
  <2>3. Fresh'
    BY <1>1, <1>2, <1>3, <2>1, <2>2 DEF Fresh
  <2>4. CorpusFaithful'
    <3>1. \A u \in Items : Pending(u) => Pending(u)'
      BY <2>1, <2>2, Bounds, Shape DEF Pending
    <3> QED BY <1>1, <1>2, <2>1, <3>1, Shape DEF CorpusFaithful
  <2> QED BY <1>w, <2>1, <2>3, <2>4 DEF Sound
<1>4. CASE PullEnds
  <2>1. batch' = None /\ news' = Unread /\ UNCHANGED doc
    BY <1>4 DEF PullEnds
  <2>2. Fresh'
    BY <1>1, <1>2, <2>1 DEF Fresh
  <2>3. CorpusFaithful'
    <3>1. \A u \in Items : src[u] # 0 /\ Pending(u) => Pending(u)'
      BY <2>1, Shape DEF Pending, Unread
    <3> QED BY <1>1, <1>2, <2>1, <3>1, Shape DEF CorpusFaithful
  <2> QED BY <1>w, <2>1, <2>2, <2>3 DEF Sound
<1>5. CASE PullCommits
  <2> DEFINE t == batch.t
             v == batch.v
  <2>1. /\ t \in Items /\ v \in 0..MaxVer /\ v <= made /\ batch # None /\ batch' = None /\ news' = news
        /\ t \in Docs
        /\ t \notin news => src[t] \in {0, v}
    BY <1>2, <1>5, Shape DEF PullCommits, Fresh
  \* Archived, left as it is, or written.
  <2>2. \/ /\ v = 0 /\ ~doc'[t].live
           /\ \A k \in KidsOf(t) : ~doc'[k].live
        \/ /\ v # 0 /\ doc'[t].live /\ doc'[t].ver = v
           /\ doc'[t] = doc[t] \/ doc'[t].new = Snapshot
           /\ \A k \in KidsOf(t) : doc'[k].live
    <3>1. CASE v = 0 /\ doc[t].live
      BY <1>5, <2>1, <3>1, ArchivedFacts, Shape DEF PullCommits, KidsOf
    <3>2. CASE v = 0 /\ ~doc[t].live
      BY <1>2, <1>5, <2>1, <3>2 DEF PullCommits, KidsOf, CorpusFaithful
    <3>3. CASE v # 0
      <4>1. v \in Versions /\ doc' = Upserted(t, v)
        BY Bounds, <1>5, <2>1, <3>3 DEF PullCommits, Versions
      <4> QED BY <2>1, <3>3, <4>1, UpsertedFacts, Shape
    <3> QED BY <3>1, <3>2, <3>3
  <2>3. \A d \in Docs : d # t /\ d \notin KidsOf(t) => doc'[d] = doc[d]
    <3>1. CASE doc' = doc
      BY <3>1
    <3>2. CASE doc' = Archived({t})
      BY <2>1, <3>2, ArchivedFacts, Shape DEF Docs, KidsOf
    <3>3. CASE v \in Versions /\ doc' = Upserted(t, v)
      BY <2>1, <3>3, UpsertedFacts, Shape
    <3> QED BY Bounds, <1>5, <2>1, <3>1, <3>2, <3>3 DEF PullCommits, Versions
  <2>4. \A u \in Items : u # t => doc'[u] = doc[u]
    BY <2>1, <2>3, Shape, ReconcileAssumption DEF KidsOf
  <2> HIDE DEF t, v
  <2>5. Fresh'
    <3>1. doc'[t].ver <= made
      <4>1. doc'[t].ver = doc[t].ver \/ doc'[t].ver = v
        <5>1. doc' = doc \/ doc' = Archived({t}) \/ v # 0
          BY <1>5 DEF PullCommits, t, v
        <5> QED BY <2>1, <2>2, <5>1, ArchivedFacts, Shape
      <4> QED BY <1>2, <2>1, <4>1 DEF Fresh
    <3> QED BY <1>1, <1>2, <2>1, <2>4, <3>1 DEF Fresh
  <2>6. Walk'
    <3>1. pass.pc \in Walking \cup After => Snapshot
      BY DEF Walking, After, Snapshot
    <3>2. UNCHANGED Listed
      BY <1>1 DEF Listed
    <3>3. Snapshot => \A u \in Items : Seen(u) => Seen(u)'
      BY <1>1, <2>1, <2>2, <2>4, <3>2 DEF Seen
    <3> QED BY <1>1, <1>2, <3>1, <3>2, <3>3, Shape DEF Walk
  <2>7. CorpusFaithful'
    <3>1. ASSUME NEW u \in scope, src[u] # 0, ~Pending(u)'
          PROVE  doc'[u].live /\ doc'[u].ver = src[u] /\ \A k \in KidsOf(u) : doc'[k].live
      <4>1. u \in Items /\ u \notin news
        BY <2>1, <3>1, Shape DEF Pending
      <4>2. CASE u = t
        <5>1. src[t] = v /\ v # 0
          BY <2>1, <3>1, <4>1, <4>2
        <5>2. doc'[t].live /\ doc'[t].ver = v /\ \A k \in KidsOf(t) : doc'[k].live
          BY <2>2, <5>1
        <5> QED BY <4>2, <5>1, <5>2
      <4>3. CASE u # t
        <5>1. ~Pending(u)
          BY <4>1, <4>3 DEF Pending, t
        <5>2. \A k \in KidsOf(u) : k \notin KidsOf(t) /\ k # t /\ k \in Docs
          BY <2>1, <4>3, ReconcileAssumption DEF KidsOf, Docs
        <5> QED BY <1>2, <2>3, <2>4, <3>1, <4>1, <4>3, <5>1, <5>2 DEF CorpusFaithful
      <4> QED BY <4>2, <4>3
    <3>2. ASSUME NEW k \in Kids, doc'[k].live
          PROVE  doc'[ParentOf[k]].live
      <4>1. CASE k \in KidsOf(t)
        BY <2>2, <3>2, <4>1 DEF KidsOf
      <4>2. CASE k \notin KidsOf(t)
        <5>1. k # t /\ ParentOf[k] # t /\ k \in Docs /\ ParentOf[k] \in Items
          BY <2>1, <4>2, Shape, ReconcileAssumption DEF KidsOf
        <5> QED BY <1>2, <2>3, <2>4, <3>2, <4>2, <5>1 DEF CorpusFaithful
      <4> QED BY <4>1, <4>2
    <3> QED BY <1>1, <3>1, <3>2 DEF CorpusFaithful
  <2> QED BY <2>5, <2>6, <2>7 DEF Sound
<1> QED BY <1>3, <1>4, <1>5

\* Before the walk and after the end of a pass nothing depends on it.
LEMMA SoundAside ==
  ASSUME Types, Sound, Passes, pass.pc # "off", pass'.pc \in Unstaged,
         \A d \in Docs : doc'[d].live = doc[d].live /\ doc'[d].ver = doc[d].ver
  PROVE  Sound'
<1>1. UNCHANGED <<src, made, news, scope, sess, batch>>
  BY DEF Passes, world, engine
<1>2. Fresh' /\ CorpusFaithful'
  BY <1>1, FaithKept DEF Sound
<1>3. Walk'
  BY <1>1 DEF Sound, Walk, Unstaged, Walking, After
<1> QED BY <1>2, <1>3 DEF Sound

\* A pass that is caught archives nothing more.
LEMMA SoundCaught ==
  ASSUME Types, Sound, Caught, pass.pc # "off"
  PROVE  Sound'
<1>1. doc' = doc \/ doc' = NoneNew
  BY DEF Caught, Over
<1>2. pass'.pc \in Unstaged
  <2>1. pass \in PassType
    BY TypesGivePassOK DEF PassOK
  <2>2. CASE pass' = NoPass
    BY <2>2 DEF NoPass, Unstaged
  <2>3. CASE pass' = [pass EXCEPT !.pc = "finish", !.ok = FALSE]
    BY <2>1, <2>3 DEF PassType, Unstaged
  <2> QED BY <2>2, <2>3 DEF Caught, Over
<1> QED BY <1>1, <1>2, NoneNewFacts, Shape, SoundAside DEF Caught

\* A chunk that is archived: the walk has passed every item.
LEMMA SoundArchives ==
  ASSUME Types, Sound, pass.pc = "archive", staged.open, NEW some \in SUBSET Gone,
         doc' = Archived(some), Passes,
         UNCHANGED <<staged, pass>> \/ pass'.pc = "finish"
  PROVE  Sound'
<1>1. UNCHANGED <<src, made, news, scope, sess, batch>>
  BY DEF Passes, world, engine
<1>2. Fresh /\ Walk /\ CorpusFaithful
  BY DEF Sound
<1>3. some \in SUBSET Docs
  BY DEF Gone
<1>4. /\ \A t \in Items : IF t \in some THEN ~doc'[t].live ELSE doc'[t] = doc[t]
      /\ \A k \in Kids : IF k \in some \/ ParentOf[k] \in some THEN ~doc'[k].live ELSE doc'[k] = doc[k]
      /\ \A d \in Docs : doc'[d].ver = doc[d].ver
  BY <1>3, ArchivedFacts, Shape
<1>5. Fresh'
  BY <1>1, <1>2, <1>4, Shape DEF Fresh
\* What the source has, and the pull has written, is listed or newer.
<1>6. ASSUME NEW t \in scope, src[t] # 0, ~Pending(t)
      PROVE  t \notin Gone /\ \A k \in KidsOf(t) : k \notin Gone
  <2>1. t \in Items /\ t \in sess \ pass.walk
    BY <1>2, Shape DEF Walk
  <2>2. Seen(t)
    BY <1>2, <2>1 DEF Walk, After
  <2>3. doc[t].live /\ doc[t].ver = src[t]
    BY <1>2, <1>6 DEF CorpusFaithful
  <2>4. t \in staged.rows \/ doc[t].new
    BY <1>2, <2>2, <2>3 DEF Seen, Listed, Walk, After
  <2>5. t \notin Gone
    BY <2>4 DEF Gone, Eligible, Unlisted
  <2>6. ASSUME NEW k \in KidsOf(t)
        PROVE  k \notin Gone
    BY <2>3, <2>4, <2>6 DEF Gone, Unlisted, KidsOf
  <2> QED BY <2>5, <2>6
<1>7. CorpusFaithful'
  <2>1. ASSUME NEW t \in scope, src[t] # 0, ~Pending(t)
        PROVE  doc'[t].live /\ doc'[t].ver = src[t] /\ \A k \in KidsOf(t) : doc'[k].live
    <3>1. t \in Items /\ t \notin some /\ \A k \in KidsOf(t) : k \notin some
      BY <1>6, <2>1, Shape
    <3>2. doc[t].live /\ doc[t].ver = src[t] /\ \A k \in KidsOf(t) : doc[k].live
      BY <1>2, <2>1 DEF CorpusFaithful
    <3> QED BY <1>4, <3>1, <3>2 DEF KidsOf
  <2>2. ASSUME NEW k \in Kids, doc'[k].live
        PROVE  doc'[ParentOf[k]].live
    BY <1>2, <1>4, <2>2, Shape DEF CorpusFaithful
  <2>3. \A t \in Items : Pending(t)' <=> Pending(t)
    BY <1>1 DEF Pending
  <2> QED BY <1>1, <2>1, <2>2, <2>3, Shape DEF CorpusFaithful
<1>8. Walk'
  <2>1. CASE pass'.pc = "finish"
    BY <1>1, <1>2, <2>1 DEF Walk, Walking, After
  <2>2. CASE UNCHANGED <<staged, pass>>
    <3>1. UNCHANGED Listed
      BY <2>2 DEF Listed
    <3>2. \A t \in Items : Seen(t) => Seen(t)'
      BY <1>1, <1>4, <3>1 DEF Seen
    <3> QED BY <1>1, <1>2, <2>2, <3>1, <3>2, Shape DEF Walk, Walking
  <2> QED BY <2>1, <2>2
<1> QED BY <1>5, <1>7, <1>8 DEF Sound

\* Each step of the pass: the walk passes an item with its listing, or where
\* the source does not have it.
LEMMA SoundOfPass ==
  ASSUME Types, Sound, Pass \/ PassFails \/ \E t \in Items : Visits(t)
  PROVE  Sound'
<1>0. Walk /\ pass \in PassType /\ staged \in [open : BOOLEAN, rows : SUBSET Items]
  BY TypesGivePassOK DEF Sound, PassOK
<1>k. ASSUME UNCHANGED doc, Passes, Walk'
      PROVE  Sound'
  BY <1>k, FaithKept DEF Sound, Passes, world
<1>f. Passes => UNCHANGED <<src, sess, scope, loop>>
  BY DEF Passes, world, engine
<1>g. ASSUME NEW pc \in {"begin", "finish", "walk", "stage", "last", "diff", "archive"}, Goes(pc)
      PROVE  /\ pass'.pc = pc /\ pass'.walk = pass.walk /\ pass'.page = pass.page
             /\ pass'.allowed = pass.allowed
  BY <1>0, <1>g DEF PassType, Goes
<1>1. CASE PassHead
  BY <1>1, <1>g, SoundAside DEF PassHead, Reads, Unstaged
<1>2. CASE PassBegins
  <2>1. /\ pass'.pc = "walk" /\ pass'.walk = sess /\ pass'.page = pass.page /\ pass.page = {}
        /\ staged'.rows = {}
    BY <1>0, <1>2 DEF PassBegins, PassType, Types
  <2>2. Walk'
    BY <1>0, <1>2, <1>f, <2>1 DEF PassBegins, Reads, Walk, Walking, After, Listed
  <2> QED BY <1>2, <1>k, <2>2 DEF PassBegins, Reads
<1>3. ASSUME NEW t \in Items, Visits(t)
      PROVE  Sound'
  <2> DEFINE page == pass.page \cup (IF src[t] # 0 THEN {t} ELSE {})
             pc == IF Cardinality(page) >= StageBatch THEN "stage" ELSE "walk"
  <2>1. /\ pass' = [pass EXCEPT !.walk = @ \ {t}, !.page = page, !.pc = pc]
        /\ pass.pc = "walk" /\ t \in pass.walk /\ UNCHANGED <<staged, doc>> /\ Passes
    BY <1>3 DEF Visits, Reads
  <2>2. pc \in {"stage", "walk"} /\ page = pass.page \cup (IF src[t] # 0 THEN {t} ELSE {})
    OBVIOUS
  <2> HIDE DEF page, pc
  <2>3. /\ pass'.pc \in {"stage", "walk"} /\ pass'.walk = pass.walk \ {t} /\ pass'.page = page
        /\ Listed' = Listed \cup (IF src[t] # 0 THEN {t} ELSE {})
    BY <1>0, <2>1, <2>2 DEF PassType, Listed
  <2>4. Seen(t)' /\ \A u \in Items : Seen(u) => Seen(u)'
    BY <1>f, <2>1, <2>3, Shape DEF Seen
  <2>5. Walk'
    <3>1. staged.open => \A u \in sess \ pass'.walk : Seen(u)'
      BY <1>0, <2>1, <2>3, <2>4, Shape DEF Walk, Walking
    <3>2. pass'.walk \subseteq sess /\ Listed' \subseteq sess \ pass'.walk
      <4>1. pass.walk \subseteq sess /\ Listed \subseteq sess \ pass.walk
        BY <1>0, <2>1 DEF Walk, Walking
      <4> QED BY <2>1, <2>3, <4>1
    <3> QED BY <1>0, <1>f, <2>1, <2>3, <3>1, <3>2 DEF Walk, Walking, After
  <2> QED BY <1>k, <2>1, <2>5
<1>4. CASE Stages
  <2>1. CASE ~staged.open
    BY <1>4, <2>1, SoundCaught DEF Stages
  <2>2. CASE staged.open
    <3>1. /\ staged' = [staged EXCEPT !.rows = @ \cup pass.page]
          /\ pass' = [pass EXCEPT !.pc = "walk", !.page = {}]
          /\ UNCHANGED doc /\ Passes /\ pass.pc = "stage"
      BY <1>4, <2>2 DEF Stages, Reads
    <3>2. /\ pass'.pc = "walk" /\ pass'.walk = pass.walk /\ UNCHANGED Listed
          /\ staged'.open = staged.open
      BY <1>0, <3>1 DEF PassType, Listed
    <3>3. \A u \in Items : Seen(u)' <=> Seen(u)
      BY <1>f, <3>1, <3>2 DEF Seen
    <3>4. Walk'
      BY <1>0, <1>f, <2>2, <3>1, <3>2, <3>3, Shape DEF Walk, Walking, After
    <3> QED BY <1>k, <3>1, <3>4
  <2> QED BY <2>1, <2>2
<1>5. CASE WalkEnds
  <2>1. UNCHANGED <<doc, staged>> /\ Passes /\ pass.pc = "walk"
    BY <1>5 DEF WalkEnds, Reads
  <2>2. /\ pass'.pc = "last" /\ pass'.walk = pass.walk /\ pass'.allowed = pass.allowed
        /\ UNCHANGED Listed
    BY <1>5, <1>g, <2>1 DEF WalkEnds, Listed
  <2>3. \A u \in Items : Seen(u)' <=> Seen(u)
    BY <1>f, <2>1, <2>2 DEF Seen
  <2>4. loop.aborted \/ pass.walk = {} \/ (Listed = {} /\ pass.allowed # "full")
    BY <1>0, <1>5 DEF WalkEnds, Walk, Walking
  <2>5. Walk'
    BY <1>0, <1>f, <2>1, <2>2, <2>3, <2>4, Shape DEF Walk, Walking, After
  <2> QED BY <1>k, <2>1, <2>5
<1>6. CASE LastStaged
  <2>1. CASE pass.page # {} /\ ~staged.open
    BY <1>6, <2>1, SoundCaught DEF LastStaged
  <2>2. CASE ~(pass.page # {} /\ ~staged.open) /\ loop.aborted
    <3>1. Over /\ Passes /\ pass.pc # "off"
      BY <1>6, <2>2 DEF LastStaged
    <3>2. pass'.pc = "off"
      BY <3>1 DEF Over, NoPass
    <3> QED BY <3>1, <3>2, NoneNewFacts, Shape, SoundAside DEF Over, Unstaged
  <2>3. CASE ~(pass.page # {} /\ ~staged.open) /\ ~loop.aborted
    <3>1. /\ staged' = [staged EXCEPT !.rows = @ \cup pass.page]
          /\ Goes("diff") /\ UNCHANGED doc /\ Passes /\ pass.pc = "last"
      BY <1>6, <2>3 DEF LastStaged
    <3>2. /\ pass'.pc = "diff" /\ pass'.walk = pass.walk /\ pass'.page = pass.page
          /\ pass'.allowed = pass.allowed
      BY <1>g, <3>1
    <3>3. /\ staged'.rows = Listed /\ staged'.open = staged.open /\ pass'.page \subseteq staged'.rows
          /\ UNCHANGED Listed
      BY <1>0, <3>1, <3>2 DEF Listed
    <3>4. \A u \in Items : Seen(u)' <=> Seen(u)
      BY <1>f, <3>1, <3>3 DEF Seen
    <3>5. Walk'
      BY <1>0, <1>f, <2>3, <3>1, <3>2, <3>3, <3>4, Shape DEF Walk, Walking, After
    <3> QED BY <1>k, <3>1, <3>5
  <2> QED BY <2>1, <2>2, <2>3
<1>7. CASE Diffs
  <2>1. CASE ~staged.open
    BY <1>7, <2>1, SoundCaught DEF Diffs
  <2>2. CASE staged.open /\ Goes("archive") /\ UNCHANGED staged /\ ~Refused
    <3>1. UNCHANGED doc /\ Passes /\ pass.pc = "diff"
      BY <1>7, <2>2 DEF Diffs, Reads
    <3>2. pass'.pc = "archive" /\ pass'.walk = pass.walk /\ pass'.page = pass.page /\ UNCHANGED Listed
      BY <1>g, <2>2 DEF Listed
    <3>3. pass.walk = {}
      BY <1>0, <2>2, <3>1 DEF Walk, Refused
    <3>4. \A u \in Items : Seen(u)' <=> Seen(u)
      BY <1>f, <3>1, <3>2 DEF Seen
    <3>5. Walk'
      BY <1>0, <1>f, <2>2, <3>1, <3>2, <3>3, <3>4, Shape DEF Walk, Walking, After
    <3> QED BY <1>k, <3>1, <3>5
  <2>3. CASE staged.open /\ pass' = [pass EXCEPT !.pc = "finish", !.ok = (Gone \cap Items = {})]
    <3>1. pass'.pc = "finish"
      BY <1>0, <2>3 DEF PassType
    <3>2. UNCHANGED doc /\ Passes /\ pass.pc = "diff"
      BY <1>7, <2>3 DEF Diffs, Reads
    <3> QED BY <3>1, <3>2, SoundAside DEF Unstaged
  <2> QED BY <1>7, <2>1, <2>2, <2>3 DEF Diffs
<1>8. CASE Archives
  <2>1. CASE Caught
    BY <1>8, <2>1, SoundCaught DEF Archives
  <2>2. ASSUME staged.open, NEW some \in SUBSET Gone, doc' = Archived(some), Passes,
               pass' = [pass EXCEPT !.pc = "finish", !.ok = TRUE] \/ UNCHANGED <<staged, pass>>
        PROVE  Sound'
    <3>1. pass' = [pass EXCEPT !.pc = "finish", !.ok = TRUE] => pass'.pc = "finish"
      BY <1>0 DEF PassType
    <3> QED BY <1>8, <2>2, <3>1, SoundArchives DEF Archives
  <2> QED BY <1>8, <2>1, <2>2 DEF Archives
<1>9. CASE Finishes
  <2>1. pass'.pc = "off" /\ doc' = NoneNew /\ Passes /\ pass.pc # "off"
    BY <1>9 DEF Finishes, Over, NoPass
  <2> QED BY <2>1, NoneNewFacts, Shape, SoundAside DEF Unstaged
<1>10. CASE PassFails
  <2>1. CASE pass.pc # "off" /\ Caught
    BY <2>1, SoundCaught
  <2>2. CASE pass.pc \in {"head", "begin", "finish"} /\ Over /\ Passes
    <3>1. pass'.pc = "off" /\ doc' = NoneNew
      BY <2>2 DEF Over, NoPass
    <3> QED BY <2>2, <3>1, NoneNewFacts, Shape, SoundAside DEF Unstaged
  <2> QED BY <1>10, <2>1, <2>2 DEF PassFails
<1> QED BY <1>1, <1>2, <1>3, <1>4, <1>5, <1>6, <1>7, <1>8, <1>9, <1>10 DEF Pass

\* A cycle lists the folders of the account, which only a save changes: never
\* beside it.
LEMMA SoundOfCycle ==
  ASSUME Types, Sound, CycleStart \/ CycleEnds
  PROVE  Sound'
<1>1. UNCHANGED <<src, made, news, doc, scope, batch>>
  BY DEF CycleStart, CycleEnds, world, corpus
<1>2. Fresh' /\ CorpusFaithful'
  BY <1>1, FaithKept DEF Sound
<1>3. Walk'
  <2>1. CASE CycleStart
    <3>1. pass'.pc = "head" /\ sess' = scope
      BY <2>1 DEF CycleStart, NoPass
    <3> QED BY <1>1, <3>1 DEF Walk, Walking, After
  <2>2. CASE CycleEnds
    BY <2>2 DEF CycleEnds, Walk, Walking, After
  <2> QED BY <2>1, <2>2
<1> QED BY <1>2, <1>3 DEF Sound

\* A save archives what leaves the folders, and has what enters them read.
LEMMA SoundOfScope ==
  ASSUME Types, Sound, ScopeWritten, op.to \in SUBSET Items
  PROVE  Sound'
<1> DEFINE ds == {t \in scope \ op.to : doc[t].live}
<1>1. UNCHANGED <<src, made, batch, pass>> /\ pass.pc = "off"
  BY DEF ScopeWritten, world, Types, TypeOK
<1>2. Walk'
  BY <1>1 DEF Walk, Walking, After
<1>3. CASE UNCHANGED <<doc, scope, news>>
  BY <1>1, <1>2, <1>3, FaithKept DEF Sound
<1>4. CASE /\ doc' = Archived(ds) /\ scope' = op.to
           /\ news' = news \cup {t \in op.to \ scope : src[t] # 0}
  <2>1. ds \in SUBSET Docs /\ \A t \in op.to : t \notin ds /\ \A k \in KidsOf(t) : k \notin ds /\ k \in Kids
    BY Shape, ReconcileAssumption DEF KidsOf
  <2>2. /\ \A t \in Items : IF t \in ds THEN ~doc'[t].live ELSE doc'[t] = doc[t]
        /\ \A k \in Kids : IF k \in ds \/ ParentOf[k] \in ds THEN ~doc'[k].live ELSE doc'[k] = doc[k]
        /\ \A d \in Docs : doc'[d].ver = doc[d].ver
    BY <1>4, <2>1, ArchivedFacts, Shape
  <2> HIDE DEF ds
  <2>3. Fresh'
    BY <1>1, <1>4, <2>2, Shape DEF Sound, Fresh
  <2>4. CorpusFaithful'
    <3>1. ASSUME NEW t \in scope', src[t] # 0, ~Pending(t)'
          PROVE  doc'[t].live /\ doc'[t].ver = src[t] /\ \A k \in KidsOf(t) : doc'[k].live
      <4>1. t \in Items /\ t \in op.to /\ t \in scope /\ ~Pending(t)
        BY <1>1, <1>4, <3>1 DEF Pending
      <4>2. doc[t].live /\ doc[t].ver = src[t] /\ \A k \in KidsOf(t) : doc[k].live
        BY <3>1, <4>1 DEF Sound, CorpusFaithful
      <4> QED BY <2>1, <2>2, <4>1, <4>2 DEF KidsOf
    <3>2. ASSUME NEW k \in Kids, doc'[k].live
          PROVE  doc'[ParentOf[k]].live
      BY <2>2, <3>2, Shape DEF Sound, CorpusFaithful
    <3> QED BY <1>1, <3>1, <3>2 DEF CorpusFaithful
  <2> QED BY <1>2, <2>3, <2>4 DEF Sound
<1> QED BY <1>3, <1>4 DEF ScopeWritten

\* A worker's output, a respawn of the database worker, a crash.
LEMMA SoundOfFaults ==
  ASSUME Types, Sound, (\E d \in Docs : Enriched(d)) \/ Respawns \/ Crashes
  PROVE  Sound'
<1>1. ASSUME NEW d \in Docs, Enriched(d)
      PROVE  Sound'
  <2>1. /\ UNCHANGED <<src, made, news, scope, staged, loop, sess, batch, pass>>
        /\ doc' = [doc EXCEPT ![d].new = TRUE]
    BY <1>1 DEF Enriched, world, engine
  <2>2. \A e \in Docs : /\ doc'[e].live = doc[e].live /\ doc'[e].ver = doc[e].ver
                        /\ doc[e].new => doc'[e].new
    BY <2>1, Shape DEF Doc
  <2>3. UNCHANGED Listed /\ \A t \in Items : Seen(t) => Seen(t)'
    BY <2>1, <2>2, Shape DEF Seen, Listed
  <2>4. Walk'
    BY <2>1, <2>3, Shape DEF Sound, Walk
  <2> QED BY <2>1, <2>2, <2>4, FaithKept DEF Sound
<1>2. CASE Respawns
  <2>1. /\ UNCHANGED <<src, made, news, doc, scope, loop, sess, batch, pass>>
        /\ ~staged'.open /\ staged'.rows = {}
    BY <1>2 DEF Respawns, Closed, world, corpus, engine
  <2>2. Walk'
    BY <2>1, Shape DEF Sound, Walk, Listed
  <2> QED BY <2>1, <2>2, FaithKept DEF Sound
<1>3. CASE Crashes
  <2>1. /\ UNCHANGED <<src, made, scope>> /\ batch' = None /\ news' = Unread
        /\ pass'.pc = "off" /\ doc' = NoneNew
    BY <1>3 DEF Crashes, Over, NoPass, world
  <2>2. \A d \in Docs : doc'[d].live = doc[d].live /\ doc'[d].ver = doc[d].ver
    BY <2>1, NoneNewFacts, Shape
  <2>3. Fresh'
    BY <2>1, <2>2, Shape DEF Sound, Fresh
  <2>4. CorpusFaithful'
    <3>1. \A t \in Items : src[t] # 0 /\ Pending(t) => Pending(t)'
      BY <2>1, Shape DEF Pending, Unread
    <3> QED BY <2>1, <2>2, <3>1, Shape DEF Sound, CorpusFaithful, KidsOf
  <2>5. Walk'
    BY <2>1 DEF Walk, Walking, After
  <2> QED BY <2>3, <2>4, <2>5 DEF Sound
<1> QED BY <1>1, <1>2, <1>3

\* Every step keeps the corpus faithful.
LEMMA SoundStep == ~Returns /\ Types /\ Sound /\ [Next]_vars => Sound'
<1> SUFFICES ASSUME ~Returns, Types, Sound, [Next]_vars PROVE Sound'
  OBVIOUS
<1>1. CASE UNCHANGED vars
  <2>1. UNCHANGED <<src, made, news, doc, scope, staged, loop, sess, batch, pass>>
    BY <1>1 DEF vars, world, corpus, engine
  <2> QED BY <2>1 DEF Sound, Fresh, Walk, CorpusFaithful, Seen, Listed, Pending
<1>2. CASE Tick \/ SyncNow \/ Saves \/ SaveRuns \/ \E to \in SUBSET Items : Manages(to)
  BY <1>2, OpsAreBeside, SoundBeside
<1>3. CASE ScopeWritten
  BY <1>3, SoundOfScope DEF Types, TypeOK
<1>4. CASE Next
  BY <1>2, <1>3, <1>4, SoundOfSource, SoundOfPull, SoundOfPass, SoundOfCycle, SoundOfFaults
  DEF Next, Progress, Cycle, Ops
<1> QED BY <1>1, <1>4

\* If an item never comes back with the content it had, then what the source
\* has, and the pull has written, is never archived: not by a pass on a
\* listing that is partial, empty or stale, beside a pull that commits, a save
\* of the folders, a respawn of the database worker or a crash.  And no
\* attachment outlives its item.
THEOREM CorpusIsFaithful == ~Returns => (Spec => []CorpusFaithful)
<1> SUFFICES ASSUME ~Returns PROVE Spec => []CorpusFaithful
  OBVIOUS
<1>1. Init => Types /\ Sound
  BY TypesInit, SoundInit
<1>2. Types /\ Sound /\ [Next]_vars => (Types /\ Sound)'
  BY TypesStep, SoundStep
<1>3. Types /\ Sound => CorpusFaithful
  BY DEF Sound
<1> QED BY <1>1, <1>2, <1>3, PTL DEF Spec
=============================================================================
