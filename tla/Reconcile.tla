----------------------------- MODULE Reconcile -----------------------------
(***************************************************************************)
(* The reconcile pass of one account (src/main/core/engine/engine.ts,      *)
(* reconcilePass) and its staging in the store (store/write-tx.ts), beside *)
(* the pull of the same cycle, folder-scope saves, and a source that       *)
(* changes while it is listed.                                             *)
(*                                                                         *)
(* An item of the source becomes one document and the attachments below    *)
(* it.  A document's seq matters only against the snapshot of the pass, so *)
(* what is kept of it is whether it was written since (`new').             *)
(***************************************************************************)
EXTENDS Naturals, FiniteSets

CONSTANTS
  Items,        \* items the source may have, each in a folder of its own
  Kids,         \* attachments
  ParentOf,     \* the item an attachment belongs to
  MaxVer,       \* contents the items go through
  MaxActs,      \* what users and workers do: saves, sync-now, enrichments
  MaxFaults,    \* failures, respawns, broken listings and crashes
  StageBatch,   \* RECONCILE_STAGE_BATCH
  ArchiveBatch, \* RECONCILE_ARCHIVE_BATCH
  MinDocs,      \* MASS_ARCHIVE_MIN_DOCS
  Returns,      \* an item may come back with the content it had
  None          \* no batch is in hand

Docs == Items \cup Kids
Versions == 1..MaxVer
KidsOf(t) == {k \in Kids : ParentOf[k] = t}

ASSUME ReconcileAssumption ==
  /\ Items \cap Kids = {} /\ ParentOf \in [Kids -> Items]
  /\ IsFiniteSet(Items) /\ None \notin [t : Items, v : 0..MaxVer]
  /\ {MaxVer, StageBatch, ArchiveBatch} \subseteq Nat \ {0}
  /\ {MaxActs, MaxFaults, MinDocs} \subseteq Nat
  /\ Returns \in BOOLEAN

VARIABLES
  src,     \* the source: the content of each item, 0 if it is not there
  made,    \* contents there have been
  news,    \* items with a change the cursor has not passed
  doc,     \* the documents of the account
  scope,   \* the folders of the account's config
  err,     \* accounts.last_error: "none", "pull", "pass"
  staged,  \* the connection's TEMP tables: the pass is marked, what is listed
  allow,   \* reconcileAllowances
  loop,    \* the pull loop: whether it runs, was aborted, has a successor
  sess,    \* the folders its session was made with
  pull,    \* "off", "idle", "batch", "ended", "failed"
  batch,   \* the item in hand and the content it was read with
  pass,    \* the pass of this cycle
  op,      \* applyScope or updateConfig under way
  acts, faults

world == <<src, made>>
corpus == <<doc, scope, err>>
engine == <<allow, loop, sess, op>>
vars == <<world, news, corpus, staged, engine, pull, batch, pass, acts, faults>>

NoPass == [pc |-> "off", walk |-> {}, page |-> {}, allowed |-> "none", ok |-> FALSE]
Closed == [open |-> FALSE, rows |-> {}]
NoOp == [pc |-> "none", to |-> {}]
Act == acts < MaxActs /\ acts' = acts + 1
Fault == faults < MaxFaults /\ faults' = faults + 1

-----------------------------------------------------------------------------
(* The store.                                                              *)

\* headSeq() has been read: what is written from now on is new to the pass.
Snapshot == pass.pc \notin {"off", "head"}
NoneNew == [d \in Docs |-> [doc[d] EXCEPT !.new = FALSE]]

\* upsertDocument for an item and its attachments: nothing is written where
\* the content is unchanged and the row is live.
Upserted(t, v) ==
  [d \in Docs |->
     CASE d = t /\ ~(doc[t].live /\ doc[t].ver = v) -> [live |-> TRUE, ver |-> v, new |-> Snapshot]
       [] d \in KidsOf(t) /\ ~doc[d].live -> [live |-> TRUE, ver |-> 1, new |-> Snapshot]
       [] OTHER -> doc[d]]

\* archiveByRef and archiveChildren: attachments go with their item.
Archived(ds) ==
  LET all == ds \cup UNION {KidsOf(d) : d \in ds} IN
  [d \in Docs |-> IF d \in all THEN [doc[d] EXCEPT !.live = FALSE, !.new = FALSE] ELSE doc[d]]

\* Not in the listing; an attachment is kept by a live item that is listed or
\* newer than the snapshot.
Unlisted(d) ==
  /\ d \notin staged.rows
  /\ d \in Kids => LET p == ParentOf[d] IN
                   ~(doc[p].live /\ (doc[p].new \/ p \in staged.rows))

\* Mutant: the snapshot is not looked at.
Eligible_Any(d) == doc[d].live

Eligible(d) == doc[d].live /\ ~doc[d].new

Gone == {d \in Docs : Eligible(d) /\ Unlisted(d)}

\* Mutant: a good batch clears whatever error is there.
PullCleared_Any == err' = "none"

\* lastErrorAssignment(null, 'pull'): the pass's error stays.
PullCleared == err' = IF err = "pull" THEN "none" ELSE err

-----------------------------------------------------------------------------
(* The source.  What appears or changes is found by its next scan; what     *)
(* vanishes is told only while it is watched, if at all.                    *)

Watched == loop.on /\ pull \in {"idle", "batch"}
Inert == UNCHANGED <<corpus, staged, engine, pull, batch, pass, acts, faults>>

Changes(t) ==
  /\ \/ made < MaxVer /\ made' = made + 1 /\ src' = [src EXCEPT ![t] = made']
     \/ Returns /\ src[t] = 0 /\ src' = [src EXCEPT ![t] = doc[t].ver] /\ UNCHANGED made
  /\ news' = news \cup {t}
  /\ Inert

Vanishes(t) ==
  /\ src[t] # 0 /\ src' = [src EXCEPT ![t] = 0]
  /\ \/ Watched /\ news' = news \cup {t}
     \/ news' = news \ {t}
  /\ UNCHANGED made /\ Inert

-----------------------------------------------------------------------------
(* The pull loop: its own course is in AccountLoop.                         *)

\* A pull that ends early takes its batch and the events it has not read with
\* it; the next scan finds what is there.
Unread == {t \in news \cup (IF batch = None THEN {} ELSE {batch.t}) : src[t] # 0}

grant(kind) == allow' = IF allow = "full" THEN "full" ELSE kind

\* run(): replaces the loop that runs; refused during a transition.
run ==
  /\ op.pc # "stop"
  /\ IF loop.on
     THEN loop' = [loop EXCEPT !.aborted = TRUE, !.again = TRUE]
     ELSE loop' = [on |-> TRUE, aborted |-> FALSE, again |-> FALSE]
Rest == UNCHANGED <<world, news, corpus, staged, sess, pull, batch, pass>>

\* A tick starts what rests; sync-now also what runs.
Tick == ~loop.on /\ run /\ UNCHANGED <<allow, op, acts, faults>> /\ Rest
SyncNow == Act /\ loop.on /\ ~loop.again /\ run /\ UNCHANGED <<allow, op, faults>> /\ Rest

\* The account is read, the allowance taken, and the pass set off.
CycleStart ==
  /\ loop.on /\ ~loop.aborted /\ pull = "off"
  /\ pull' = "idle" /\ sess' = scope
  /\ pass' = [NoPass EXCEPT !.pc = "head", !.allowed = allow]
  /\ allow' = "none"
  /\ UNCHANGED <<world, news, corpus, staged, loop, op, batch, acts, faults>>

Pulls == UNCHANGED <<world, scope, staged, engine, pass, acts>>

PullReads(t) ==
  /\ pull = "idle" /\ ~loop.aborted /\ t \in news \cap sess
  /\ pull' = "batch" /\ batch' = [t |-> t, v |-> src[t]] /\ news' = news \ {t}
  /\ UNCHANGED <<doc, err, faults>> /\ Pulls

\* A commit that was sent completes, aborted or not.
PullCommits ==
  /\ pull = "batch"
  /\ doc' = IF batch.v = 0 THEN (IF doc[batch.t].live THEN Archived({batch.t}) ELSE doc)
            ELSE Upserted(batch.t, batch.v)
  /\ PullCleared
  /\ pull' = "idle" /\ batch' = None
  /\ UNCHANGED <<news, faults>> /\ Pulls

\* The stream ends (cadence-driven sources), is aborted, or throws.
PullEnds ==
  /\ \/ /\ pull = "idle" /\ (loop.aborted \/ news \cap sess = {})
        /\ pull' = "ended" /\ UNCHANGED faults
     \/ /\ pull = "batch" /\ loop.aborted
        /\ pull' = "ended" /\ UNCHANGED faults
     \/ /\ pull \in {"idle", "batch"} /\ ~loop.aborted
        /\ Fault /\ pull' = "failed"
  /\ news' = Unread /\ batch' = None
  /\ UNCHANGED <<doc, err>> /\ Pulls

\* Every way out waits for the pass.  A failure is retried in a new cycle or
\* recorded.
CycleEnds ==
  /\ loop.on /\ pass.pc = "off" /\ pull \in {"ended", "failed"} \cup (IF loop.aborted THEN {"off"} ELSE {})
  /\ pull' = "off"
  /\ LET over == [on |-> loop.again, aborted |-> FALSE, again |-> FALSE] IN
     \/ loop.aborted /\ loop' = over /\ UNCHANGED err
     \/ ~loop.aborted /\ pull = "ended" /\ loop' = over /\ PullCleared
     \/ ~loop.aborted /\ pull = "failed"
        /\ \/ UNCHANGED <<loop, err>>
           \/ loop' = over /\ err' = "pull"
  /\ UNCHANGED <<world, news, doc, scope, staged, allow, sess, batch, pass, op, acts, faults>>

-----------------------------------------------------------------------------
(* The pass.                                                                *)

Goes(pc) == pass' = [pass EXCEPT !.pc = pc]
Passes == UNCHANGED <<world, news, scope, engine, pull, batch, acts>>
Reads == UNCHANGED <<doc, err>> /\ Passes

\* The end of the pass: its snapshot no longer matters.
Over == pass' = NoPass /\ doc' = NoneNew

\* Mutant: the staging is left behind.
Caught_Left ==
  /\ IF loop.aborted THEN Over
     ELSE pass' = [pass EXCEPT !.pc = "finish", !.ok = FALSE] /\ UNCHANGED doc
  /\ UNCHANGED <<staged, err>> /\ Passes

\* catch: the staging is cleared; unless it was cancelled, the failure is
\* recorded.
Caught ==
  /\ staged' = Closed
  /\ IF loop.aborted THEN Over
     ELSE pass' = [pass EXCEPT !.pc = "finish", !.ok = FALSE] /\ UNCHANGED doc
  /\ UNCHANGED err /\ Passes

PassHead == pass.pc = "head" /\ Goes("begin") /\ UNCHANGED <<staged, faults>> /\ Reads

PassBegins ==
  /\ pass.pc = "begin"
  /\ staged' = [open |-> TRUE, rows |-> {}]
  /\ pass' = [pass EXCEPT !.pc = "walk", !.walk = sess]
  /\ UNCHANGED faults /\ Reads

\* The listing walks the folders of the session.
Visits(t) ==
  /\ pass.pc = "walk" /\ ~loop.aborted /\ t \in pass.walk
  /\ LET page == pass.page \cup (IF src[t] # 0 THEN {t} ELSE {}) IN
     pass' = [pass EXCEPT !.walk = @ \ {t}, !.page = page,
                          !.pc = IF Cardinality(page) >= StageBatch THEN "stage" ELSE "walk"]
  /\ UNCHANGED <<staged, faults>> /\ Reads

\* A page is staged, if the connection is the one the pass began on.
Stages ==
  /\ pass.pc = "stage" /\ UNCHANGED faults
  /\ IF ~staged.open THEN Caught
     ELSE /\ staged' = [staged EXCEPT !.rows = @ \cup pass.page]
          /\ pass' = [pass EXCEPT !.pc = "walk", !.page = {}]
          /\ Reads

\* It ends: complete, cut short by the signal, or silently empty.  (A listing
\* that breaks in the pass the user has just asked for is not guarded against.)
WalkEnds ==
  /\ pass.pc = "walk"
  /\ \/ (loop.aborted \/ pass.walk = {}) /\ UNCHANGED faults
     \/ Fault /\ pass.walk = sess /\ pass.allowed # "full"
  /\ Goes("last")
  /\ UNCHANGED staged /\ Reads

\* What is left is staged; a listing that may be partial ends here.
LastStaged ==
  /\ pass.pc = "last" /\ UNCHANGED faults
  /\ IF pass.page # {} /\ ~staged.open THEN Caught
     ELSE /\ IF loop.aborted THEN staged' = Closed /\ Over
             ELSE /\ staged' = [staged EXCEPT !.rows = @ \cup pass.page]
                  /\ Goes("diff") /\ UNCHANGED doc
          /\ UNCHANGED err /\ Passes

\* The mass-archive breaker, on the counts of top-level documents.
Refused ==
  LET gone == Cardinality(Gone \cap Items)
      live == Cardinality({t \in Items : Eligible(t)})
  IN /\ pass.allowed # "full"
     /\ \/ staged.rows = {}
        \/ pass.allowed # "ratio" /\ gone > MinDocs /\ 2 * gone > live

Diffs ==
  /\ pass.pc = "diff" /\ UNCHANGED faults
  /\ IF ~staged.open THEN Caught
     ELSE LET none == Gone \cap Items = {} IN
          /\ IF none \/ Refused
             THEN staged' = Closed /\ pass' = [pass EXCEPT !.pc = "finish", !.ok = none]
             ELSE Goes("archive") /\ UNCHANGED staged
          /\ Reads

\* One admitted chunk, in no order the query names; the last ends the pass.  A
\* chunk that was sent is archived, aborted or not.
Archives ==
  /\ pass.pc = "archive" /\ UNCHANGED faults
  /\ \/ (loop.aborted \/ ~staged.open) /\ Caught
     \/ staged.open /\ \E some \in SUBSET Gone :
            /\ Cardinality(some) = IF Cardinality(Gone) < ArchiveBatch
                                   THEN Cardinality(Gone) ELSE ArchiveBatch
            /\ doc' = Archived(some)
            /\ IF Cardinality(some) < ArchiveBatch
               THEN staged' = Closed /\ pass' = [pass EXCEPT !.pc = "finish", !.ok = TRUE]
               ELSE UNCHANGED <<staged, pass>>
            /\ UNCHANGED err /\ Passes

\* finish(): the pass's outcome in last_error; a good one clears its own error.
Finishes ==
  /\ pass.pc = "finish"
  /\ err' = CASE ~pass.ok -> "pass" [] pass.ok /\ err = "pass" -> "none" [] OTHER -> err
  /\ Over
  /\ UNCHANGED <<staged, faults>> /\ Passes

\* The listing throws, or a call fails.  Nothing is recorded before the pass
\* has begun, nor when recording is what fails.
PassFails ==
  /\ Fault
  /\ IF pass.pc \in {"head", "begin"} \/ (pass.pc = "finish" /\ ~pass.ok)
     THEN Over /\ UNCHANGED <<staged, err>> /\ Passes
     ELSE pass.pc # "off" /\ Caught

-----------------------------------------------------------------------------
(* Settings, workers and faults.                                            *)

\* updateConfig: the config is written and the allowance granted; then the
\* loop, if there is one, is run again.
Saves ==
  /\ Act /\ op.pc = "none"
  /\ op' = [NoOp EXCEPT !.pc = "saved"] /\ grant("full")
  /\ UNCHANGED <<loop, faults>> /\ Rest
SaveRuns ==
  /\ op.pc = "saved" /\ op' = NoOp
  /\ IF loop.on THEN run ELSE UNCHANGED loop
  /\ UNCHANGED <<allow, acts, faults>> /\ Rest

\* applyScope: the loop is stopped; then folders, cursor and documents change
\* in one transaction, or the save is stale; then the loop runs again.
Manages(to) ==
  /\ Act /\ op.pc = "none"
  /\ op' = [pc |-> "stop", to |-> to]
  /\ loop' = [loop EXCEPT !.aborted = loop.on, !.again = FALSE]
  /\ UNCHANGED <<allow, faults>> /\ Rest

ScopeWritten ==
  /\ op.pc = "stop" /\ ~loop.on
  /\ op' = NoOp /\ loop' = [loop EXCEPT !.on = TRUE]
  /\ \/ /\ doc' = Archived({t \in scope \ op.to : doc[t].live})
        /\ scope' = op.to
        /\ news' = news \cup {t \in op.to \ scope : src[t] # 0}
        /\ CASE doc' # doc -> grant("full")
             [] doc' = doc /\ op.to = scope -> grant("ratio")
             [] OTHER -> UNCHANGED allow
        /\ UNCHANGED faults
     \/ Fault /\ UNCHANGED <<doc, scope, news, allow>>
  /\ UNCHANGED <<world, err, staged, sess, pull, batch, pass, acts>>

\* A worker's output on a live document gives it a new seq.
Enriched(d) ==
  /\ Act /\ Snapshot /\ Eligible(d) /\ doc' = [doc EXCEPT ![d].new = TRUE]
  /\ UNCHANGED <<world, news, scope, err, staged, engine, pull, batch, pass, faults>>

\* The database worker ends, and its TEMP tables with it.
Respawns ==
  /\ Fault /\ staged.open /\ staged' = Closed
  /\ UNCHANGED <<world, news, corpus, engine, pull, batch, pass, acts>>

Crashes ==
  /\ Fault
  /\ staged' = Closed /\ allow' = "none" /\ op' = NoOp
  /\ loop' = [on |-> FALSE, aborted |-> FALSE, again |-> FALSE]
  /\ pull' = "off" /\ batch' = None /\ news' = Unread /\ Over
  /\ UNCHANGED <<world, scope, err, sess, acts>>

-----------------------------------------------------------------------------
Init ==
  /\ src = [t \in Items |-> 1] /\ made = 1 /\ news = {}
  /\ doc = [d \in Docs |-> [live |-> TRUE, ver |-> 1, new |-> FALSE]]
  /\ scope = Items /\ err = "none" /\ staged = Closed /\ allow = "none"
  /\ loop = [on |-> FALSE, aborted |-> FALSE, again |-> FALSE] /\ sess = Items
  /\ pull = "off" /\ batch = None /\ pass = NoPass /\ op = NoOp
  /\ acts = 0 /\ faults = 0

Pass == PassHead \/ PassBegins \/ Stages \/ WalkEnds \/ LastStaged \/ Diffs \/ Archives \/ Finishes
Cycle == CycleStart \/ PullCommits \/ PullEnds \/ CycleEnds
Ops == SaveRuns \/ ScopeWritten

\* What goes on by itself, as long as nothing fails.
Progress == (Tick \/ Cycle \/ Pass \/ Ops \/ \E t \in Items : PullReads(t) \/ Visits(t))

Next ==
  \/ Progress \/ PassFails \/ Respawns \/ Crashes
  \/ \E t \in Items : Changes(t) \/ Vanishes(t)
  \/ SyncNow \/ Saves \/ \E to \in SUBSET Items \ {{}} : Manages(to)
  \/ \E d \in Docs : Enriched(d)

Spec == Init /\ [][Next]_vars /\ WF_vars(Progress)

-----------------------------------------------------------------------------
(* Properties.                                                             *)

\* The type of the state, with what relates its parts: a batch is in hand only
\* while it is written, staged rows have their marker, and newness is told
\* only while a pass has its snapshot.
TypeOK ==
  /\ src \in [Items -> 0..MaxVer] /\ made \in Versions
  /\ news \subseteq Items /\ scope \subseteq Items /\ sess \subseteq Items
  /\ doc \in [Docs -> [live : BOOLEAN, ver : Versions, new : BOOLEAN]]
  /\ err \in {"none", "pull", "pass"}
  /\ staged \in [open : BOOLEAN, rows : SUBSET Items]
  /\ allow \in {"none", "ratio", "full"}
  /\ loop \in [on : BOOLEAN, aborted : BOOLEAN, again : BOOLEAN]
  /\ pull \in {"off", "idle", "batch", "ended", "failed"}
  /\ batch \in [t : Items, v : 0..MaxVer] \cup {None}
  /\ pass \in [pc : {"off", "head", "begin", "walk", "stage", "last", "diff",
                     "archive", "finish"},
               walk : SUBSET Items, page : SUBSET Items,
               allowed : {"none", "ratio", "full"}, ok : BOOLEAN]
  /\ op \in [pc : {"none", "saved", "stop"}, to : SUBSET Items]
  /\ acts \in 0..MaxActs /\ faults \in 0..MaxFaults
  /\ (batch # None) = (pull = "batch")
  /\ ~staged.open => staged.rows = {}
  /\ staged.open => pass.pc # "off"
  /\ ~loop.on => pull = "off" /\ pass.pc = "off"
  /\ ~Snapshot => \A d \in Docs : ~doc[d].new

\* A change of t the pull has still to write.
Pending(t) == t \in news \/ (batch # None /\ batch.t = t)

\* What the source has, in the folders of the account, is in the corpus as it
\* is there, with its attachments, unless the pull has still to write it:
\* whatever a pass archives, the source did not have.  And no attachment
\* outlives its item.
CorpusFaithful ==
  /\ \A t \in scope : src[t] # 0 /\ ~Pending(t) =>
       doc[t].live /\ doc[t].ver = src[t] /\ \A k \in KidsOf(t) : doc[k].live
  /\ \A k \in Kids : doc[k].live => doc[ParentOf[k]].live

Wanted(t) == src[t] # 0 /\ t \in scope

\* A document whose item has vanished, or left the folders, is archived in the
\* end; or else the account says that its pass does not end well, and no good
\* batch of the pull erases that.
CleanedUp ==
  \A t \in Items : <>[](doc[t].live /\ ~Wanted(t)) => <>[](err = "pass")
=============================================================================
