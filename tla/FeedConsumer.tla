---------------------------- MODULE FeedConsumer ----------------------------
(***************************************************************************)
(* A worker that consumes the change feed: the live tail of engine.attach  *)
(* with the seeding that precedes it, the re-drive of what was deferred,   *)
(* and the job that prunes the change log under them.                      *)
(*                                                                         *)
(* Main-process code between two awaits is one step, and a store call is   *)
(* served together with its caller's continuation.  A read of a row that   *)
(* only its reader writes is part of the step before it.                   *)
(*                                                                         *)
(* A document's content is named by the seq of the source write that made  *)
(* it.  The worker matches a live document without output, and answers     *)
(* "done" with output (enrich), "deferred", or a verdict without output    *)
(* ("failed" stands for every such verdict).  The counters of session.bump *)
(* only feed the worker's own answer, which is nondeterministic here.      *)
(***************************************************************************)
EXTENDS Naturals, Sequences, FiniteSets, FiniteSetsExt, SequencesExt

CONSTANTS
  Docs,        \* documents of the corpus
  Noise,       \* an account change or a purge: fed, and matched by no worker
  Gone,        \* a deleted row of `changes'
  None,        \* no row in the table
  MaxSeq,      \* bound on change numbers
  MaxEnv,      \* bound on the change number up to which the sources write
  FeedBatch,   \* FEED_BATCH
  SeedPage,    \* SEED_PAGE
  RedrivePage, \* REDRIVE_PAGE
  FlushAt,     \* outputs that reach SUB_COMMIT_BYTES
  MaxRetries,  \* FEED_RETRY_MAX
  MaxFaults,   \* bound on failed store calls and process crashes
  Staggered,   \* the stops of a hold return one after the other
  Kinds        \* what the environment does in this instance

Outcomes == {"done", "deferred", "failed", "skip"}

AllKinds == {"update", "archive", "noise", "stop", "crash", "dbcrash",
             "dbdead", "readonly", "retire", "prune", "redrive"}

ASSUME NamesAssumption ==
  /\ Cardinality({Noise, Gone}) = 2 /\ Docs \cap {Noise, Gone} = {}
  /\ None \notin Nat \cup Outcomes
ASSUME BoundsAssumption ==
  /\ MaxSeq \in Nat /\ MaxEnv \in 0..MaxSeq
  /\ MaxRetries \in Nat /\ MaxFaults \in Nat
  /\ {FeedBatch, SeedPage, RedrivePage, FlushAt} \subseteq Nat \ {0}
  /\ Staggered \in BOOLEAN /\ Kinds \subseteq AllKinds

VARIABLES
  doc,       \* the documents table
  log,       \* the changes table: what each appended row refers to
  cutoff,    \* firstChangeSeqAt(now - 48 h)
  row,       \* consumers[<consumer>], or None
  seedRow,   \* consumers["seed:<consumer>"], or None
  floor,     \* meta.changesFloor
  ledger,    \* work_ledger of the consumer, by seq
  tail,      \* the attach() loop
  aborted,   \* its abort signal
  attached,  \* attachedWorkers.has(consumer)
  others,    \* other workers attached: "none", "with" this one, or "alone" in
             \* a launch that does not have this one
  prune,     \* a run of pruneChangesOnce
  redrive,   \* a run of rerunDeferred
  faults     \* failed store calls and crashes so far

durable == <<doc, log, cutoff, row, seedRow, floor, ledger>>
vars == <<doc, log, cutoff, row, seedRow, floor, ledger,
          tail, aborted, attached, others, prune, redrive, faults>>

Seqs == 1..MaxSeq

\* ORDER BY seq, with a LIMIT: the numbers of S from the lowest up, and the
\* first n of them.
InOrder(S) ==
  [k \in 1..Cardinality(S) |-> CHOOSE s \in S : Cardinality({t \in S : t <= s}) = k]
FirstOf(S, n) == SubSeq(InOrder(S), 1, Min({n, Cardinality(S)}))

(***************************************************************************)
(* Documents and the change log                                            *)
(***************************************************************************)

\* `src' names the content, `out' the content the output was made from (0: no
\* output yet).
Document == [seq : 0..MaxSeq, src : 0..MaxSeq, out : 0..MaxSeq,
             st : {"none", "live", "archived"}]

headSeq == Len(log)

Append1(r) == log' = Append(log, r)

\* Mutant: the listener is armed after the read that found nothing.
Woken_ArmedLate(t) == [t EXCEPT !.woke = t.pc = "feedWait"]

\* emitCommit wakes the feed: its listener is armed before it reads, and is
\* dropped when the read finds something.
Woken(t) == [t EXCEPT !.woke = t.pc \in {"feedRows", "feedEmpty", "feedWait"}]

\* isConvertCandidate, classify: archived documents and own output do not match.
Matches(d) == d.st = "live" /\ d.out = 0

\* A change handed to the worker: what materializeRow read, at the time it did.
Change == [seq : Seqs, doc : Docs \cup {Noise}, src : 0..MaxSeq,
           match : BOOLEAN]
DocChange(s, d) == [seq |-> s, doc |-> d, src |-> doc[d].src,
                    match |-> Matches(doc[d])]
NoiseChange(s) == [seq |-> s, doc |-> Noise, src |-> 0, match |-> FALSE]

\* The enrich part of a consumer commit: each output is appended as a change
\* of its document; one of a purged document is dropped.
Enriched(es) ==
  LET kept == InOrder({i \in DOMAIN es : doc[es[i].doc].st # "none"})
  IN [k \in DOMAIN kept |-> es[kept[k]]]
Enrich(es) ==
  LET ok == Enriched(es)
      at(d) == {i \in DOMAIN ok : ok[i].doc = d}
  IN /\ headSeq + Len(ok) <= MaxSeq
     /\ log' = log \o [i \in DOMAIN ok |-> ok[i].doc]
     /\ doc' = [d \in Docs |->
                  IF at(d) = {} THEN doc[d]
                  ELSE [doc[d] EXCEPT !.seq = headSeq + Max(at(d)),
                                      !.out = ok[Max(at(d))].src]]

LedgerWith(es) ==
  [s \in Seqs |-> IF \E e \in es : e.seq = s
                  THEN (CHOOSE e \in es : e.seq = s).outcome ELSE ledger[s]]

(***************************************************************************)
(* The tail.  `cur' is the feed iterator's cursor, `win' the change rows   *)
(* still to materialize, `todo' the changes still to work, `pos' the       *)
(* cursor the final commit will carry, `after' the seed progress.          *)
(***************************************************************************)
TailOff == [pc |-> "off", cur |-> 0, win |-> <<>>, todo |-> <<>>,
            staged |-> <<>>, led |-> {}, pos |-> 0, after |-> 0, h0 |-> 0,
            woke |-> FALSE, retries |-> 0]

Tails == [pc : {"off", "dead", "backoff", "seedCheck", "seedHead", "seedBegin",
                "seedPage", "seedWork", "seedBusy", "seedFlush", "seedCommit",
                "seedEnd", "feedRows", "feedEmpty", "feedWait", "feedDocs",
                "work", "busy", "flush", "commit"},
          cur : 0..MaxSeq, win : Seq([seq : Seqs, ref : Docs \cup {Noise}]),
          todo : Seq(Change),
          staged : Seq(Change),
          led : SUBSET [seq : Seqs, outcome : Outcomes],
          pos : 0..MaxSeq, after : 0..MaxSeq, h0 : 0..MaxSeq,
          woke : BOOLEAN, retries : 0..MaxRetries]

Goto(pc) == tail' = [tail EXCEPT !.pc = pc]
At(pc) == tail.pc = pc

\* stop() returns when the loop has ended: the worker leaves attachedWorkers.
\* A hold stops the other workers with it.
Settle == /\ tail' = TailOff
          /\ aborted' = FALSE
          /\ attached' = FALSE
          /\ others' = IF Staggered THEN others ELSE "none"
KeepRun == UNCHANGED <<aborted, attached, others>>

\* attachBundledWorkers and attachHeld attach every worker in one step, once
\* the stops of the previous hold have all returned.
Attach ==
  /\ At("off") /\ ~attached /\ others = "none"
  /\ tail' = [TailOff EXCEPT !.pc = "seedCheck"]
  /\ attached' = TRUE /\ others' = "with"
  /\ UNCHANGED <<durable, aborted, prune, redrive, faults>>

Stop ==
  /\ "stop" \in Kinds /\ attached /\ ~aborted
  /\ \/ At("dead") /\ Settle
     \/ ~At("dead") /\ aborted' = TRUE /\ UNCHANGED <<tail, attached, others>>
  /\ UNCHANGED <<durable, prune, redrive, faults>>

OthersSettle ==
  /\ others = "with" /\ ~attached
  /\ others' = "none"
  /\ UNCHANGED <<durable, tail, aborted, attached, prune, redrive, faults>>

\* The loop sees its abort: a parked feed read, a backoff, the check before a
\* page or a change, an admission wait, or a worker that throws.  A call that
\* is under way is not interrupted.  (dropBatch, dropPage: what was worked is
\* no crash; they change only the counters of session.bump, and write the
\* batch's cursor as it was.)
TailAborts ==
  /\ aborted
  /\ tail.pc \in {"backoff", "seedPage", "seedWork", "seedBusy", "seedFlush",
                  "feedRows", "feedEmpty", "feedWait", "feedDocs", "work",
                  "busy", "flush"}
  /\ Settle
  /\ UNCHANGED <<durable, prune, redrive, faults>>

\* Mutant: retries are not limited.
Caught_Unbounded ==
  /\ ~aborted
  /\ tail' = [TailOff EXCEPT !.pc = "backoff", !.retries = tail.retries + 1]
  /\ KeepRun
\* catch: a transient DB-worker error is retried from the committed cursor;
\* any other, or one too many, ends the loop, which stays attached.
Caught ==
  \/ aborted /\ Settle
  \/ /\ ~aborted /\ tail.retries < MaxRetries
     /\ tail' = [TailOff EXCEPT !.pc = "backoff", !.retries = tail.retries + 1]
     /\ KeepRun
  \/ /\ ~aborted /\ (tail.retries = MaxRetries \/ "dbdead" \in Kinds)
     /\ tail' = [TailOff EXCEPT !.pc = "dead"]
     /\ KeepRun

\* The DB worker crashes before it served the loop's call.
TailCallFails ==
  /\ "dbcrash" \in Kinds /\ faults < MaxFaults
  /\ tail.pc \in {"seedCheck", "seedHead", "seedBegin", "seedPage",
                  "seedCommit", "seedEnd", "feedRows", "feedDocs", "busy",
                  "commit"}
  /\ faults' = faults + 1
  /\ Caught
  /\ UNCHANGED <<durable, prune, redrive>>

\* A write that raced the sync fence: the loop ends silently.
TailReadOnly ==
  /\ "readonly" \in Kinds /\ faults < MaxFaults
  /\ tail.pc \in {"seedBegin", "seedCommit", "seedEnd", "busy", "commit"}
  /\ faults' = faults + 1
  /\ \/ aborted /\ Settle
     \/ ~aborted /\ tail' = [TailOff EXCEPT !.pc = "dead"] /\ KeepRun
  /\ UNCHANGED <<durable, prune, redrive>>

\* A write is served and the loop continues with `t', or the worker dies after
\* the commit and the reply is lost.
Served(t) ==
  \/ tail' = t /\ KeepRun /\ UNCHANGED faults
  \/ /\ "dbcrash" \in Kinds /\ faults < MaxFaults
     /\ faults' = faults + 1
     /\ Caught

Backoff ==
  /\ At("backoff") /\ ~aborted
  /\ Goto("seedCheck")
  /\ KeepRun /\ UNCHANGED <<durable, prune, redrive, faults>>

\* admission.acquire before a flush: an abort meanwhile drops the batch, which
\* commits no output and leaves the cursor where it was.
Admit ==
  /\ ~aborted
  /\ \/ At("seedFlush") /\ Goto("seedCommit")
     \/ At("flush") /\ Goto("commit")
  /\ KeepRun /\ UNCHANGED <<durable, prune, redrive, faults>>

(***************************************************************************)
(* seedConsumer                                                            *)
(***************************************************************************)
Feedable == row # None /\ row >= floor

SeedCheck ==
  /\ At("seedCheck")
  /\ tail' = CASE Feedable /\ seedRow = None ->
                    [tail EXCEPT !.pc = "feedRows", !.cur = row]
               [] Feedable /\ seedRow # None ->
                    [tail EXCEPT !.pc = "seedPage", !.after = seedRow,
                                 !.h0 = row]
               [] OTHER -> [tail EXCEPT !.pc = "seedHead"]
  /\ KeepRun /\ UNCHANGED <<durable, prune, redrive, faults>>

SeedHead ==
  /\ At("seedHead")
  /\ tail' = [tail EXCEPT !.pc = "seedBegin", !.h0 = headSeq]
  /\ KeepRun /\ UNCHANGED <<durable, prune, redrive, faults>>

\* beginSeed: both rows in one batch.
SeedBegin ==
  /\ At("seedBegin")
  /\ row' = tail.h0 /\ seedRow' = 0
  /\ Served([tail EXCEPT !.pc = "seedPage", !.after = 0])
  /\ UNCHANGED <<doc, log, cutoff, floor, ledger, prune, redrive>>

\* seedPage: live documents with after < seq <= h0, in seq order.
SeedDocs ==
  {d \in Docs : doc[d].st = "live" /\ tail.after < doc[d].seq
                /\ doc[d].seq <= tail.h0}
SeedPageOf ==
  LET page == FirstOf({doc[d].seq : d \in SeedDocs}, SeedPage)
      of(s) == CHOOSE d \in SeedDocs : doc[d].seq = s
  IN [i \in DOMAIN page |-> DocChange(page[i], of(page[i]))]

ReadSeedPage ==
  /\ At("seedPage") /\ ~aborted
  /\ tail' = IF SeedDocs = {} THEN [tail EXCEPT !.pc = "seedEnd"]
             ELSE [tail EXCEPT !.pc = "seedWork", !.todo = SeedPageOf,
                               !.pos = Last(SeedPageOf).seq]
  /\ KeepRun /\ UNCHANGED <<durable, prune, redrive, faults>>

\* What is staged has reached a bounded flush.  It carries no cursor, also
\* after the last change of the page or batch: another flush follows then.
Bounded(t) == Len(t.staged) >= FlushAt

\* Where the loop goes after a change: the bounded flush, the page's or the
\* batch's last flush, or the next change.
Next1(t, work, flush) ==
  [t EXCEPT !.pc = IF Bounded(t) \/ t.todo = <<>>
                   THEN flush ELSE work]

Worked(t, r) ==
  [t EXCEPT !.todo = Tail(t.todo),
            !.staged = IF r = "done" THEN Append(t.staged, Head(t.todo))
                       ELSE t.staged]

\* One document of the page: passed over, or handed to the worker.
SeedWork ==
  /\ At("seedWork") /\ ~aborted
  /\ \/ /\ ~Head(tail.todo).match
        /\ tail' = Next1([tail EXCEPT !.todo = Tail(tail.todo)],
                         "seedWork", "seedFlush")
     \/ Head(tail.todo).match /\ Goto("seedBusy")
  /\ KeepRun /\ UNCHANGED <<durable, prune, redrive, faults>>

\* workOne returns outcome `r'.
SeedWorked ==
  /\ At("seedBusy")
  /\ \E r \in {"done", "deferred", "failed"} :
       tail' = Next1([Worked(tail, r) EXCEPT !.led = tail.led \cup
                        {[seq |-> Head(tail.todo).seq, outcome |-> r]}],
                     "seedWork", "seedFlush")
  /\ KeepRun /\ UNCHANGED <<durable, prune, redrive, faults>>

\* flush: outputs and ledger outcomes in one transaction; the page's last one
\* also carries the seed cursor (UPDATE only).
SeedCommit ==
  /\ At("seedCommit")
  /\ Enrich(tail.staged)
  /\ ledger' = LedgerWith(tail.led)
  /\ seedRow' = IF ~Bounded(tail) /\ seedRow # None THEN tail.pos ELSE seedRow
  /\ LET t == [tail EXCEPT !.staged = <<>>, !.led = {}]
     IN Served(IF Bounded(tail) THEN Next1(t, "seedWork", "seedFlush")
               ELSE [t EXCEPT !.pc = "seedPage", !.after = tail.pos, !.pos = 0])
  /\ UNCHANGED <<cutoff, row, floor, prune, redrive>>

SeedEnd ==
  /\ At("seedEnd")
  /\ seedRow' = None
  /\ Served([tail EXCEPT !.pc = "feedRows", !.cur = row, !.after = 0,
                         !.h0 = 0])
  /\ UNCHANGED <<doc, log, cutoff, row, floor, ledger, prune, redrive>>

(***************************************************************************)
(* feed: arm the wake-up, read the window, materialize row by row          *)
(***************************************************************************)
Window ==
  FirstOf({s \in DOMAIN log : s > tail.cur /\ log[s] # Gone}, FeedBatch)

FeedRows ==
  /\ At("feedRows") /\ ~aborted
  /\ tail' = IF Window = <<>>
             THEN [tail EXCEPT !.pc = "feedEmpty"]
             ELSE [tail EXCEPT !.pc = "feedDocs", !.woke = FALSE,
                               !.cur = Last(Window),
                               !.win = [i \in DOMAIN Window |->
                                  [seq |-> Window[i], ref |-> log[Window[i]]]]]
  /\ KeepRun /\ UNCHANGED <<durable, prune, redrive, faults>>

\* materializeRow: a document is fed only under its current seq.
Materialized(r) ==
  IF r.ref = Noise THEN <<NoiseChange(r.seq)>>
  ELSE IF doc[r.ref].st # "none" /\ doc[r.ref].seq = r.seq
       THEN <<DocChange(r.seq, r.ref)>> ELSE <<>>

FeedDocs ==
  /\ At("feedDocs") /\ ~aborted
  /\ LET todo == tail.todo \o Materialized(Head(tail.win))
         win == Tail(tail.win)
     IN tail' = [tail EXCEPT !.win = win, !.todo = todo,
                             !.pos = IF win = <<>> /\ todo # <<>>
                                     THEN row ELSE tail.pos,
                             !.pc = CASE win # <<>> -> "feedDocs"
                                      [] win = <<>> /\ todo # <<>> -> "work"
                                      [] OTHER -> "feedRows"]
  /\ KeepRun /\ UNCHANGED <<durable, prune, redrive, faults>>

\* The answer is in: the feed waits for its listener, which may have fired.
FeedEmpty ==
  /\ At("feedEmpty") /\ ~aborted
  /\ Goto("feedWait")
  /\ KeepRun /\ UNCHANGED <<durable, prune, redrive, faults>>

FeedWake ==
  /\ At("feedWait") /\ tail.woke /\ ~aborted
  /\ tail' = [tail EXCEPT !.pc = "feedRows", !.woke = FALSE]
  /\ KeepRun /\ UNCHANGED <<durable, prune, redrive, faults>>

(***************************************************************************)
(* attach: one batch.  The outcome of a change is recorded at once, its    *)
(* output waits for a flush, and only the last flush moves the cursor.     *)
(***************************************************************************)
WorkChange ==
  /\ At("work") /\ ~aborted
  /\ LET c == Head(tail.todo) IN
     \/ /\ ~c.match
        /\ tail' = Next1([tail EXCEPT !.todo = Tail(tail.todo), !.pos = c.seq],
                         "work", "flush")
     \/ c.match /\ Goto("busy")
  /\ KeepRun /\ UNCHANGED <<durable, prune, redrive, faults>>

ChangeWorked ==
  /\ At("busy")
  /\ LET c == Head(tail.todo) IN
     \E r \in {"done", "deferred", "failed"} :
       /\ ledger' = [ledger EXCEPT ![c.seq] = r]
       /\ Served(Next1([Worked(tail, r) EXCEPT !.pos = c.seq],
                       "work", "flush"))
  /\ UNCHANGED <<doc, log, cutoff, row, seedRow, floor, prune, redrive>>

Commit ==
  /\ At("commit")
  /\ Enrich(tail.staged)
  /\ row' = IF Bounded(tail) THEN row ELSE tail.pos
  /\ LET t == [tail EXCEPT !.staged = <<>>]
     IN Served(IF Bounded(tail) THEN Next1(t, "work", "flush")
               ELSE [t EXCEPT !.pc = "feedRows", !.pos = 0, !.retries = 0])
  /\ UNCHANGED <<cutoff, seedRow, floor, ledger, prune, redrive>>

(***************************************************************************)
(* rerunDeferred                                                           *)
(***************************************************************************)
RedriveIdle == [pc |-> "idle", after |-> 0, page |-> <<>>, todo |-> <<>>,
                staged |-> <<>>, led |-> {}]
Redrives == [pc : {"idle", "list", "resolve", "work", "flush", "record"},
             after : 0..MaxSeq, page : Seq(Seqs), todo : Seq(Change),
             staged : Seq(Change),
             led : SUBSET [seq : Seqs, outcome : Outcomes]]
EndRedrive == redrive' = RedriveIdle
RAt(pc) == redrive.pc = pc

\* A write is served and the run goes on, or its reply is lost.
RServed(r) ==
  \/ redrive' = r /\ UNCHANGED faults
  \/ /\ "dbcrash" \in Kinds /\ faults < MaxFaults
     /\ faults' = faults + 1
     /\ EndRedrive

\* The cadence job; gateEngine lets it through while the engine is not held.
RedriveStart ==
  /\ "redrive" \in Kinds /\ RAt("idle") /\ attached /\ ~aborted
  /\ redrive' = [RedriveIdle EXCEPT !.pc = "list"]
  /\ KeepRun /\ UNCHANGED <<durable, tail, prune, faults>>

\* stopAll aborts it (closeWriter does not), and a store error ends it: what
\* the page worked is not recorded.
RedriveEnds ==
  /\ ~RAt("idle")
  /\ \/ aborted /\ UNCHANGED faults
     \/ /\ "dbcrash" \in Kinds /\ faults < MaxFaults
        /\ faults' = faults + 1
  /\ EndRedrive
  /\ KeepRun /\ UNCHANGED <<durable, tail, prune>>

\* ledgerDeferred: a keyset page above `after'.
RedriveList ==
  /\ RAt("list")
  /\ LET due == {s \in Seqs : s > redrive.after /\ ledger[s] = "deferred"}
         page == FirstOf(due, RedrivePage)
     IN IF due = {} THEN EndRedrive
        ELSE redrive' = [redrive EXCEPT !.pc = "resolve", !.page = page,
                                        !.after = Last(page)]
  /\ KeepRun /\ UNCHANGED <<durable, tail, prune, faults>>

\* changesAt: a ledger seq resolves to the document that carries it now; one
\* that resolves to nothing is skipped for good.
CarriedBy(s) == {d \in Docs : doc[d].st # "none" /\ doc[d].seq = s}
RNext(r) == [r EXCEPT !.pc = IF Bounded(r) \/ r.todo = <<>>
                             THEN "flush" ELSE "work"]
Skip(s) == [seq |-> s, outcome |-> "skip"]

RedriveResolve ==
  /\ RAt("resolve")
  /\ LET live == InOrder({s \in Range(redrive.page) : CarriedBy(s) # {}})
     IN redrive' = RNext([redrive EXCEPT
          !.page = <<>>,
          !.todo = [i \in DOMAIN live |->
                      DocChange(live[i], CHOOSE d \in CarriedBy(live[i]) : TRUE)],
          !.led = {Skip(s) : s \in {t \in Range(redrive.page) :
                                      CarriedBy(t) = {}}}])
  /\ KeepRun /\ UNCHANGED <<durable, tail, prune, faults>>

\* Mutant: the ledger entry is written before the output is flushed.
RedriveWork_RecordAtOnce ==
  /\ RAt("work")
  /\ LET c == Head(redrive.todo) IN
     \E r \in {"done", "deferred", "failed"} :
       /\ c.match
       /\ ledger' = [ledger EXCEPT ![c.seq] = r]
       /\ redrive' = RNext(Worked(redrive, r))
  /\ KeepRun
  /\ UNCHANGED <<doc, log, cutoff, row, seedRow, floor, tail, prune, faults>>

RedriveWork ==
  /\ RAt("work")
  /\ LET c == Head(redrive.todo) IN
     \/ /\ ~c.match
        /\ redrive' = RNext([redrive EXCEPT !.todo = Tail(redrive.todo),
                                            !.led = redrive.led \cup {Skip(c.seq)}])
     \/ \E r \in {"done", "deferred", "failed"} :
          /\ c.match
          /\ redrive' = RNext([Worked(redrive, r) EXCEPT !.led =
                          redrive.led \cup {[seq |-> c.seq, outcome |-> r]}])
  /\ KeepRun /\ UNCHANGED <<durable, tail, prune, faults>>

\* Mutant: the re-drive commits its position as the cursor.
RedriveFlush_WithCursor ==
  /\ RAt("flush")
  /\ Enrich(redrive.staged)
  /\ row' = redrive.after
  /\ tail' = IF Enriched(redrive.staged) = <<>> THEN tail ELSE Woken(tail)
  /\ RServed([redrive EXCEPT !.staged = <<>>,
                !.pc = IF redrive.todo = <<>> THEN "record" ELSE "work"])
  /\ KeepRun /\ UNCHANGED <<cutoff, seedRow, floor, ledger, prune>>

\* Outputs first, never a cursor.
RedriveFlush ==
  /\ RAt("flush")
  /\ Enrich(redrive.staged)
  /\ tail' = IF Enriched(redrive.staged) = <<>> THEN tail ELSE Woken(tail)
  /\ RServed([redrive EXCEPT !.staged = <<>>,
                !.pc = IF redrive.todo = <<>> THEN "record" ELSE "work"])
  /\ KeepRun /\ UNCHANGED <<cutoff, row, seedRow, floor, ledger, prune>>

\* Only then the page's ledger entries, in one statement.
RedriveRecord ==
  /\ RAt("record")
  /\ ledger' = LedgerWith(redrive.led)
  /\ RServed([redrive EXCEPT !.led = {}, !.pc = "list"])
  /\ KeepRun /\ UNCHANGED <<doc, log, cutoff, row, seedRow, floor, tail, prune>>

(***************************************************************************)
(* pruneChangesOnce                                                        *)
(***************************************************************************)
PruneIdle == [pc |-> "idle", limit |-> 0]
Prunes == [pc : {"idle", "limits", "publish", "delete"}, limit : 0..MaxSeq]
PAt(pc) == prune.pc = pc

\* consumerFloor(activeConsumers()): the lowest cursor of the attached workers
\* that have a row; the other workers' cursors are arbitrary.
ActiveFloors ==
  LET mine == IF attached /\ row # None THEN {row} ELSE {}
  IN {Min(mine \cup o) : o \in
        {{x} : x \in IF others = "none" THEN {} ELSE 0..headSeq}
          \cup (IF mine # {} THEN {{}} ELSE {})}

PruneFloor ==
  /\ "prune" \in Kinds /\ PAt("idle")
  /\ \E f \in ActiveFloors : prune' = [pc |-> "limits", limit |-> f]
  /\ KeepRun /\ UNCHANGED <<durable, tail, redrive, faults>>

\* limit = min(floor, cutoffSeq, head)
PruneLimits ==
  /\ PAt("limits")
  /\ prune' = [pc |-> "publish", limit |-> Min({prune.limit, cutoff, headSeq})]
  /\ KeepRun /\ UNCHANGED <<durable, tail, redrive, faults>>

\* Mutant: the floor is not published.
PrunePublish_Unpublished ==
  /\ PAt("publish")
  /\ prune' = [prune EXCEPT !.pc = "delete"]
  /\ KeepRun
  /\ UNCHANGED <<durable, tail, redrive, faults>>

\* publishChangesFloor: never lowered.
PrunePublish ==
  /\ PAt("publish")
  /\ floor' = Max({floor, prune.limit})
  /\ prune' = [prune EXCEPT !.pc = "delete"]
  /\ KeepRun
  /\ UNCHANGED <<doc, log, cutoff, row, seedRow, ledger, tail, redrive, faults>>

\* deleteChangesBelow: the lowest row, until none is left below the limit.
PruneDelete ==
  /\ PAt("delete")
  /\ LET below == {s \in DOMAIN log : s < prune.limit /\ log[s] # Gone}
     IN \/ /\ below # {}
           /\ log' = [log EXCEPT ![Min(below)] = Gone]
           /\ UNCHANGED prune
        \/ below = {} /\ prune' = PruneIdle /\ UNCHANGED log
  /\ KeepRun
  /\ UNCHANGED <<doc, cutoff, row, seedRow, floor, ledger, tail, redrive, faults>>

(***************************************************************************)
(* The environment                                                         *)
(***************************************************************************)
Room == headSeq < MaxEnv
Env == /\ tail' = Woken(tail)
       /\ UNCHANGED <<cutoff, row, seedRow, floor, ledger, aborted, attached,
                      others, prune, redrive, faults>>

\* upsertDocument: new content replaces the text, the output with it, and
\* revives an archived row.
Upsert(d) ==
  /\ "update" \in Kinds /\ Room
  /\ Append1(d)
  /\ doc' = [doc EXCEPT ![d] = [seq |-> headSeq + 1, src |-> headSeq + 1,
                                out |-> 0, st |-> "live"]]
  /\ Env

\* archiveByRef
Archive(d) ==
  /\ "archive" \in Kinds /\ Room /\ doc[d].st = "live"
  /\ Append1(d)
  /\ doc' = [doc EXCEPT ![d].st = "archived", ![d].seq = headSeq + 1]
  /\ Env

\* purgeArchived
Purge(d) ==
  /\ "archive" \in Kinds /\ Room /\ doc[d].st = "archived"
  /\ Append1(Noise)
  /\ doc' = [doc EXCEPT ![d] = [seq |-> 0, src |-> 0, out |-> 0, st |-> "none"]]
  /\ Env

\* An account change.
AccountChange ==
  /\ "noise" \in Kinds /\ Room
  /\ Append1(Noise)
  /\ UNCHANGED doc
  /\ Env

\* Two days pass.  Not while calls that follow each other are under way: the
\* seed start, and a prune.
Age ==
  /\ "prune" \in Kinds /\ PAt("idle")
  /\ ~At("seedCheck") /\ ~At("seedHead") /\ ~At("seedBegin")
  /\ cutoff < headSeq + 1
  /\ \E c \in cutoff + 1 .. headSeq + 1 : cutoff' = c
  /\ KeepRun
  /\ UNCHANGED <<doc, log, row, seedRow, floor, ledger, tail, prune, redrive,
                 faults>>

\* The process dies; the next launch attaches again.
Crash ==
  /\ "crash" \in Kinds /\ faults < MaxFaults
  /\ faults' = faults + 1
  /\ tail' = TailOff /\ aborted' = FALSE /\ attached' = FALSE
  /\ others' = "none" /\ prune' = PruneIdle /\ redrive' = RedriveIdle
  /\ UNCHANGED durable

\* A launch of a version without this worker.
LaunchWithout ==
  /\ "retire" \in Kinds /\ At("off") /\ ~attached /\ others = "none"
  /\ others' = "alone" /\ prune' = PruneIdle /\ redrive' = RedriveIdle
  /\ UNCHANGED <<durable, tail, aborted, attached, faults>>

\* Its sweepRetiredConsumers drops the ledger and the row, and keeps seed rows.
SweepRetired ==
  /\ others = "alone" /\ row # None
  /\ row' = None
  /\ ledger' = [s \in Seqs |-> None]
  /\ KeepRun
  /\ UNCHANGED <<doc, log, cutoff, seedRow, floor, tail, prune, redrive, faults>>

QuitWithout ==
  /\ others = "alone"
  /\ others' = "none" /\ prune' = PruneIdle
  /\ UNCHANGED <<durable, tail, aborted, attached, redrive, faults>>

(***************************************************************************)
(* The specification                                                       *)
(***************************************************************************)
Init ==
  /\ doc = [d \in Docs |-> [seq |-> 0, src |-> 0, out |-> 0, st |-> "none"]]
  /\ log = <<>> /\ cutoff = 1
  /\ row = None /\ seedRow = None /\ floor = 0
  /\ ledger = [s \in Seqs |-> None]
  /\ tail = TailOff /\ aborted = FALSE /\ attached = FALSE /\ others = "none"
  /\ prune = PruneIdle /\ redrive = RedriveIdle /\ faults = 0

TailStep ==
  \/ TailAborts \/ Backoff \/ SeedCheck \/ SeedHead \/ SeedBegin
  \/ ReadSeedPage \/ SeedWork \/ SeedWorked \/ SeedCommit \/ SeedEnd
  \/ FeedRows \/ FeedEmpty \/ FeedWake \/ FeedDocs \/ WorkChange \/ ChangeWorked
  \/ Commit \/ Admit
RedriveStep ==
  \/ RedriveList \/ RedriveResolve \/ RedriveWork \/ RedriveFlush
  \/ RedriveRecord
PruneStep == PruneFloor \/ PruneLimits \/ PrunePublish \/ PruneDelete
Faults == TailCallFails \/ TailReadOnly \/ RedriveEnds \/ Crash
World ==
  \/ \E d \in Docs : Upsert(d) \/ Archive(d) \/ Purge(d)
  \/ AccountChange \/ Age \/ LaunchWithout \/ SweepRetired \/ QuitWithout
  \/ Attach \/ Stop \/ OthersSettle
  \/ RedriveStart

Next == TailStep \/ RedriveStep \/ PruneStep \/ Faults \/ World

Spec == Init /\ [][Next]_vars

(***************************************************************************)
(* Properties                                                              *)
(***************************************************************************)
TypeOK ==
  /\ doc \in [Docs -> Document]
  /\ log \in Seq(Docs \cup {Noise, Gone}) /\ headSeq <= MaxSeq
  /\ cutoff \in 1..MaxSeq + 1
  /\ {row, seedRow} \subseteq 0..MaxSeq \cup {None}
  /\ floor \in 0..MaxSeq
  /\ ledger \in [Seqs -> Outcomes \cup {None}]
  /\ tail \in Tails /\ aborted \in BOOLEAN /\ attached \in BOOLEAN
  /\ others \in {"none", "with", "alone"}
  /\ prune \in Prunes /\ redrive \in Redrives /\ faults \in 0..MaxFaults

Seeding(s) == seedRow # None /\ s > seedRow
Settled(s) == ledger[s] \in {"deferred", "failed"}

\* No document is lost on the way to the worker.  A live document without
\* output, of a consumer whose row is above the published floor, is still in
\* the log above the cursor, or still ahead of the seed cursor, or has a ledger
\* entry that keeps it (deferred) or gives the worker's verdict.  In particular
\* an outcome "done" never stands without its output (engine.ts 896-1053,
\* 2083-2240, 2307-2450; changes-maintenance.ts 150-200).
NothingMissed ==
  \A d \in Docs :
    Matches(doc[d]) /\ Feedable =>
      LET s == doc[d].seq IN
      IF s > row THEN log[s] = d ELSE Seeding(s) \/ Settled(s)

\* The consumer's cursor never moves back: a bounded flush or a re-drive writes
\* none, and a new seed starts at the head (the contract of #147 section 4).
CursorNeverRewinds ==
  [][row # None /\ row' # None => row' >= row]_row

\* An output is of the content it is written on: what a source wrote while the
\* worker was busy is not overwritten by the result for the older content.
FreshContentKept == \A d \in Docs : doc[d].out \in {0, doc[d].src}

\* The loop runs on (the store answers, the worker returns) and a launch
\* attaches the worker.
FairSpec == Spec /\ WF_vars(TailStep) /\ WF_vars(Attach)

\* Every document the worker matches is worked: a commit that lands while the
\* feed reads, a retry, a crash and a seed never leave it waiting for a later
\* change (store.ts feed: the wake-up is armed before the read), unless the app
\* runs without the worker.
EventuallyWorked ==
  \A d \in Docs :
    Matches(doc[d]) ~>
      (~Matches(doc[d]) \/ Settled(doc[d].seq) \/ others = "alone")
=============================================================================
