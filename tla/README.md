# KIAgent core: a TLA+ verification project

This directory holds TLA+ models of the concurrent core of KIAgent (the Electron main process under
`src/main`), the TLC configurations that check them on small instances, and TLAPS proofs of what
matters most for every instance. Paths in this file are relative to the repository root.

## 1. The system

KIAgent pulls a user's accounts (mail, files, chats) into one local SQLite corpus, runs workers over
the change feed (conversion, vision, audio, projections), serves the corpus to MCP clients, and sends
what the user approves back out. The main process is single threaded: everything between two `await`s
is atomic, and every hazard sits at an `await`. SQLite lives in a worker thread that serves requests
in order; extensions live in child processes that may crash and respawn.

| Part | State it keeps | Operations | What is hard |
|---|---|---|---|
| Account loops (`core/engine/engine.ts`, `core/boot.ts`, `auth/connect-broker.ts`) | `running` map, pause and transition intents, flow slots, allowances; the durable account row | run, stop, pause, resume, connect, reconnect, applyScope, updateConfig, setOption, remove; cadence tick, sync-now | overlapping starts and stops, writes between a read and its write-back, failures after the loop was stopped, crashes |
| Reconcile pass (`engine.ts` `reconcilePass`, `store/write-tx.ts` staging) | staged listing, allowances | begin, stage, close, archive | listing is partial, aborted or empty; archives what a concurrent pull just re-added |
| Store writes (`core/store/write-tx.ts`, `store.ts`) | documents, changes, cursors, ledger | commit, applyFolderScope, archive, prune | cursor and rows must move together; sub-commits and crashes |
| Feed consumers (`engine.ts` `attach`, `seedConsumer`, `rerunDeferred`, `project`) | durable cursor, ledger, attempts | feed page, work one, commit output, seed, re-drive | at-least-once delivery, retry of what was done, seeding while the feed moves, pruning below a reader |
| Changes maintenance (`core/changes-maintenance.ts`) | floors, retired consumers | prune, ledger re-key | removing rows someone still needs |
| Scheduler (`core/scheduler.ts`) | jobs, busy flags | register, tick, fire, unregister | overlap and coalescing of firings |
| Admission (`core/admission.ts`) | waiters, holders, grace timer | acquire, release, foreground | starvation, lost wake-ups |
| Inference plane (`core/inference.ts`) | lanes, providers, queues | request, cancel, policy | fairness, cancellation |
| Boot and boot queue (`core/boot.ts`, `core/boot-background.ts`) | pending accounts | queue, registration, promote | starts before the source registers |
| DB worker layer (`db/worker-client.ts`, `worker-entry.ts`, `coordinator.ts`, `bridge.ts`) | in-flight calls, respawn state | call, crash, respawn, close | replies lost after a commit, calls across a respawn |
| Extension platform (`platform/*`) | host processes, contributions | spawn, crash, respawn, register, dispose | calls to a dead host, crash loops |
| Outbound pipeline (`outbound/*`, `core/store/outbox.ts`) | outbox rows, leases | draft, approve, claim, send, recover | a send whose answer was lost, restarts while sending |
| Multi-device sync (`core/sync/*`) | role, epoch, copied database | promote, demote, swap, delta | two leaders, writes during a swap |
| MCP, attention, calendar, converters, sources, providers, renderer | see PROJECT.json | | mostly sequential or I/O |

PROJECT.json lists every component with its status, and under `hazards` the lines where this code is
hard to test, each with the properties that cover it.

## 2. Plan

Done:

1. `AccountLoop`: the engine's account state machine. Everything else rests on "one loop per account".
2. `FeedConsumer`: the change feed, the seed, the re-drive and the prune, which share cursor and ledger.
3. `Admission` and `Scheduler`: the two timing authorities every background job goes through.
4. `Outbox`, with `Delivery` as the abstract specification it implements: one draft, its copy at the
   provider, and every way it is sent.
5. `Replication`: how the devices of one account copy each other's rows across changes of the leader.
6. `SyncFence`: when one device may write, across lease reports, promotions, joins and restarts.
7. `DbWorker`: the client of the database worker, its respawns and its close, and the coordinator behind it.
8. `Reconcile`: the reconcile pass, its staging, the mass-archive breaker and the allowances.
9. Proofs about `AccountLoop`, `FeedConsumer`, `Admission`, `Outbox` (with the refinement of `Delivery`),
   `Scheduler`, `Reconcile`, `DbWorker` and `SyncFence`: section 5.

Next, in this order:

10. `ExtensionHost`: spawn, crash, respawn and registration; it is what `respawn` in `AccountLoop` abstracts.
11. The forward queue of a follower (`drainOutbound`) and the file exchange of a swap (`applyPendingSwap`)
    beside `Replication`; the inference plane; the import journal of the plugin databases.
12. Abstract specifications: "a feed consumer is an at-least-once queue" for `FeedConsumer`, "a mutex with
    hand-over" for `AccountLoop`, "served in order; a request that is lost may have been carried out" for
    `DbWorker`, which is what the modules above assume of the database.
13. Further proofs: `TypeOK` and `NothingSkipped` of `Replication`.

## 3. Modules

All modules use the same step size. Main-process code between two `await`s is one action. Store calls
reach the database worker in order, and a call is applied in the same step as the caller's continuation
up to its next `await`; this is exact because replies come back in the order of the calls.

### AccountLoop (one account of the engine)

| Model | Code |
|---|---|
| `row` | the `accounts` row: status, cursor, folder scope, other config |
| `loop`, `runs`, `running` | the handles `run()` has made, and the one in the `running` map |
| `pauseIntent`, `transIntent` | `pauseIntents`, `transitionIntents` |
| `flow` | the broker's `activeByAccount` slot |
| `op`, `dbq` | IPC handlers, broker flows and ticks under way, and the calls queued at the database |
| `LoopNext` | `runPullLoop`: wait for the predecessor, read, pull, commit, settle, error, backoff |
| `OpStart`, `OpNext` | pause, resume, updateConfig, setOption, accounts:update-outbound, applyScope (manage, ensureRoot), reconnect, connect, remove, cadence tick, sync-now, setAccountCadence |
| `Watchdog`, `Respawn`, `Crash` | `cancelGraceMs`, an extension host that unregisters its source, the end of the process |

A cursor is a pair: `gen` counts folder-scope saves and re-creations of the row, `pos` the batches since.
`manage` and `ensureRoot` write a cursor computed from the account read when they opened; the source pulls
again from there and batches are idempotent, so such a write is a new generation. An `ensureRoot` that finds no
account creates it and starts its loop (`RootCreated`). Any read may fail. Most failures leave things as they were;
three reads are the last chance to start a loop that a transition has stopped: the one of `restoreLoopAfterFailure`,
which swallows a failure and starts nothing (engine.ts:697-702), the broker's after a reconnect
(connect-broker.ts:526) and, for `applyScope`, the one after its commit (engine.ts:1855), whose failure goes to the catch and
hence to the first. `"failedReads"` in `Kinds` lets the first two fail (`ReadFails`); the third may always fail. No run has
`"failedReads"`: section 4 says what happens then. The account menu is
serial (the renderer disables it while a call is pending), so a pause and a resume of one account do
not overlap. `reconcileAllowances` is in `Reconcile`; `abortEvidenceReads` is not modelled.

Three corners that the properties leave alone: five consecutive failures of the entry read on a paused
row commit 'error' over 'paused'; a connect that fails at the vault leaves a running account stopped
until its next tick; the watchdog may free a flow slot while the flow's body still runs.

### FeedConsumer (one worker on the change feed)

| Model | Code |
|---|---|
| `doc`, `log`, `cutoff` | `documents`, `changes`, and the 48-hour cutoff |
| `row`, `seedRow`, `floor`, `ledger` | `consumers`, the seed row, `meta.changesFloor`, `work_ledger` |
| `tail`, `aborted`, `attached` | the `attach` loop with its retries, its signal, `attachedWorkers` |
| `redrive`, `prune` | a run of `rerunDeferred`, a run of `pruneChangesOnce` |
| `others` | the other workers that a hold stops too, or a launch without this worker |

Content is named by the seq of the source write that made it, so an output can be compared with what
it was computed from. The worker's answer is any of done with output, deferred, or a verdict without output
(`failed` stands for skip, failed and unsupported); `session.bump` and the attempt counters only feed that
answer. Emitted child documents are left out. The feed arms its listener before it reads the window and waits one
step after an empty answer (`feedEmpty`), so a commit may land before, at or after that read. A flush that is due by size
carries no cursor; the last one of a page or batch follows it and does (`Bounded`, `Next1`). Assumed: two days do not pass between store calls that
follow each other directly; bundled workers attach in one synchronous step; the sweep of retired
consumers is one step; the one-off ledger re-key is done. `project()` and the `seen` set of `rerunDeferred`
(its keyset pages cannot return a seq twice) are not modelled.

### Admission (background units, the foreground and the wake timer)

`waiters`, `running`, `escapedRunning`, `fgInFlight`, `idlers` and `wake` are the variables of
`createAdmission`; clock values are kept as ages that stop at the largest delay they are compared with, so
time is unbounded. `pump()` takes one step per admitted unit, during which nothing else moves. `LateTimers`
says whether another callback may run between the moment a timer is due and its own callback, as the
Node event loop allows. The length of the slow-mode hold is arbitrary. `enrichmentLane` keeps no state.

### Scheduler (one job id)

`obj` holds the objects `register` has put under the id (a pass keeps the object it began with), `cur` is
the one in the map, `row` the durable schedule row, `calls` the store calls under way. A failed call either
did not take place (`rejected`) or took place and lost its reply (`lost`). `owed` is a history variable:
triggered, and since then neither a run began nor a save failed. Cron expressions are left out. Two ids share nothing but the tick's read.

### Outbox and Delivery (one draft)

| Model | Code |
|---|---|
| `row` | the draft's row in `outbox`: status, revision, content, `send_at`, `expires_at`, frozen mode, `mirror` |
| `op` | the operation that holds the draft's lock (`createDraftLock`), and the answer it waits for |
| `call` | a `send_draft` that passed its checks and waits for the lock |
| `prov`, `touched` | the draft in the mail provider; whether the mail app changed it since it was last read |
| `copies`, `shown`, `armed` | ghosts: messages that left, the text of each revision, the revision a schedule was made for |
| `strays` | copies of a `drafts.create` that was carried out though its answer was lost, came after the deadline, or met a crash or a failing `setMirror` (mirror.ts:263-284): no row refers to them. How many there are, and how many the user has sent |
| `draftMessage` ... `redraft` | the entries of `service.ts`; `sendScheduled` is `scheduler.ts` |
| `SyncRead` ... `Settle` | the rest of an operation, one action per answer (read, write, readback, create, send, bookkeeping) |
| `Sweep`, `MailApp`, `SenderChanges`, `SetMode`, `Crash` | what no lock covers |
| `StrayGoes`, `StraySent` | the late removal of such a copy (mirror.ts:270), or the user's; the user sends it |
| `SweepAgain` | the recovery sweep of a living process, at a promotion or a fence lift (crash-recovery.ts:53): a row in `sending` is closed while its request goes on |

Drafts share nothing but the sending rate, so one is modelled, and its content is one of two texts with a
mark for the mail app's formatting: together, what `bodyHash` tells apart. A caller that waits for the lock keeps
only its arguments, and a revision it saw is any the row has had, so callers need no queue; `send_draft` is the
exception, since it checks the modes before it waits. A restart may find that a request under way was
carried out. `Delivery` says what the pipeline promises: an open draft, one that is being sent, a closed one,
and at most one message; a closed draft is never open again, and only a refusal for certain opens one that
was being sent. A draft counts as being sent until the call that sends it is over, whatever a sweep has written into
its row (`Phase`). A message from a stray copy is not one of the draft's, for `Delivery` as for `AtMostOnce`: the code keeps no
trace of such a copy and cannot prevent it (section 4). Sending rates (they only refuse), suggested times and files are left out.

### Replication (three devices)

`state`, `counter`, `cell`, `grants`, `tracked` and `imported` are the tables `sync_state`, `sqlite_sequence`, the
copied tables, `sync_epochs`, `sync_rows` and `sync_imported` of each device; `stage` is the delta a follower has
pulled. One action is one SQLite transaction of the code: a leader's write with its tracking trigger,
`buildDelta`, `applyDeltaTx`, `promote`, `demote`, a join by snapshot. A row's content is a ghost version, the epoch of
its writer and then the order of writes. The lease service is not in this repository: it is modelled by what
the code asks of it (a device leads only if its epoch is the head's; the promotion is acknowledged before the
lease moves again; a device that was led past may not know, and goes on writing). A follower asks only a leader
of an epoch not older than its own. One delta is in flight at a time; two of them are of two devices, and commute.
Natural keys that collide, cascades and owner capture are left out. `Apart` and `ToldAgain` bound what else
may happen; the first is how the disagreements of section 4 are reached.

### SyncFence (one device)

| Model | Code |
|---|---|
| `db`, `wfenced` | `sync_state` and the fence in the database worker |
| `row`, `fenced`, `lease` | main's copies: `row`, `fenced`, `leaseNow` in `service.ts` |
| `wire`, `back` | messages to the worker and answers from it, both in order (`bridge.ts`) |
| `call` | each call under way: a lease report, `lead`, `open`, `demote`, `beginJoin`, `leaveJoin`, `finishJoin`, and where it waits; `late` is `leaseSeq`, `fenceGen` and `joinSeq` |
| `gate`, `work` | `gateEngine`'s hold and close; the account runs and attached workers |

Only the reports and `beginJoin` overlap the other calls, which the sync extension makes one after the
other; it opens only while the lease names this device. All handles of a close end together. A demotion, the write that sets
joining, the hooks of an opening and the resumption after a leave do not fail, and the database worker does not respawn (what
happens in the code then is listed in section 4). Device-owned accounts,
the forward queue and `resetState` are left out.

### DbWorker (the database worker and one extension's transactions)

| Model | Code |
|---|---|
| `life`, `cur` | the worker processes ever spawned; the one `client` talks to |
| `dead`, `sup`, `att`, `restarts`, `perm`, `closing` | `_markDead`, `respawn()`, its last attempt, the window of restarts, `permanentlyDead`, `close()` |
| `call`, `park`, `wire`, `replies` | each caller's request and answer; requests parked during a respawn; the two directions of the port |
| `reg`, `plug`, `flow` | `sourceRegistrations`; the extension's activation; the statements each of its transactions has asked for |
| `host` | in the worker: the coordinator's queue and active transaction, SQLite's open transaction, its statements not yet kept, the extension's connections |
| `db` | a ghost: the core writes and statements in the file, and the statements carried out |
| `Dies`, `handleDeath`, `SpawnAgain` ... `Registered` | a death and the attempts of `respawn()` |
| `Close`, `Shutdown`, `Exits`, `Terminate`, `Closed` | `close()` and the worker's side of it |
| `Serve`, `LeaseExpires` | one message, with the `pump()` after it; the timer of the active transaction |
| `CoreCall`, `Activate` ... `transaction` | the app's calls; an extension that opens, uses and releases its handle |

The worker serves one message at a time and SQLite's calls are synchronous, so a message is one step. Registering
a source and opening the extension's handle are one request. Answers are grouped by what they say of the file:
done, refused, or lost with the worker. A crash may lose answers on their way. A commit that is so late that its
lease expires between SQLite's commit and `finish()` is one of its outcomes. `Window` says what may happen while
a respawned worker registers the sources, `Persists` whether an extension goes on after a failed
statement; both are off in the run, and what happens otherwise is in section 4. Left out: cancellation by a signal,
`query`, `batch` and `migrate` (single requests), a `BEGIN` that fails, the in-process import, the read connections, and
the sync messages, which are in `SyncFence`.

### Reconcile (the reconcile pass of one account)

| Model | Code |
|---|---|
| `src`, `news` | the source: the content of each item, and the changes the cursor has not passed |
| `doc` | `documents` of the account: live, content, and whether `seq` is above the pass's `startSeq` |
| `scope`, `err` | the folders of the config; `last_error`, as far as it tells the pass's from the pull's |
| `staged` | the TEMP tables `reconcile_pass` and `reconcile_listing` of the worker's connection |
| `loop`, `sess`, `pull`, `batch` | the pull loop of `run()`, the folders its session was made with, its stream and the batch in hand |
| `pass`, `allow` | where `reconcilePass` stands, what it has listed; `reconcileAllowances` |
| `op` | `updateConfig` between its write and its restart, `applyScope` between its stop and its write |
| `PassHead` ... `Finishes`, `PassFails` | `reconcilePass`, one action per store call or page, and its failure path |
| `Changes`, `Vanishes`, `Enriched`, `Respawns`, `Crashes` | the source, a worker's output, the database worker, the app |

An item has a folder of its own, so folders are sets of items. The course of the loop itself is in `AccountLoop`; here it
starts, is aborted by a re-run or a save, and ends. What a source finds after a restart is that what it has now; what
vanished meanwhile it may tell only while it watches, which is why there is a pass. A listing may come back
silently empty, but not in the pass the user has just asked for (`full`), which the code does not guard. Contents
are never used twice unless `Returns` says so. Left out: accounts that declare no folders (no pass runs
for them), the admission wait before each chunk (it only aborts), and two saves at once.

The modules are connected by assumption, not by composition: `Scheduler` drives the ticks of
`AccountLoop`, the re-drive and prune of `FeedConsumer` and `sendScheduled` of `Outbox`, which occur there at any
time; an admission wait is a point in `FeedConsumer` that may be aborted, and `UnitAdmitted` is why it ends;
`Reconcile` takes from
`AccountLoop` that a loop awaits its pass and its predecessor; the other modules take from `DbWorker` that calls are served in order and that one may be carried out though its
answer is lost; `readonly` in `FeedConsumer` is the fence that `SyncFence` raises, and `Leads` in `Replication` is a device that
`SyncFence` lets write.

## 4. Runs

| Run | Properties | What it shows |
|---|---|---|
| `account_pause` | TypeOK, OneLoop, PausedIsIdle, CursorMonotone | ticks, sync-now, saves, pause, resume, reconnect, the connector's arrival and crashes in any order |
| `account_transition` | StopCompletes, TransitionQuiesced, ScopeNotLost, NoStranding | manage-folders against config saves, pauses and a new cadence, while the source comes and goes: each ends, also behind a loop that waits for the one before it, and failed ones put the loop back |
| `account_churn` | LoopChain | connects, late cancels, removals, overlapping scope saves, outbound settings, the watchdog |
| `feed_work` | TypeOK, NothingMissed, CursorNeverRewinds | tail, seed and re-drive under writes, archives, holds, crashes, lost replies, the sync fence |
| `feed_prune` | NothingMissed, EventuallyWorked | pruning under attached, seeding, retired and returning consumers; no document waits for a later change to be noticed |
| `admission` | TypeOK, SlotsAccounted, WakesUp, UnitAdmitted | with prompt timers nobody waits without a timer, and a restless foreground or better-ranked units starve no unit |
| `scheduler` | TypeOK, CadenceApplies, RunsFollow | a due window is claimed and a trigger honoured after any history of calls, failures and restarts |
| `outbox` | TypeOK, AtMostOnce, Delivers, SentAsShown, DraftsSettle | one draft under page, panel, chat, schedule, mail app, clock, lost answers and creates, failed bookkeeping, restarts and the sweep of a living process; `Outbox` implements `Delivery` |
| `replication` | TypeOK, NothingSkipped | writes, pulls, lost deltas, demotions told late or twice, and leaders that skip each other, up to the fourth epoch |
| `sync_fence` | TypeOK, StaysClosed, SidesAgree, Settles | any five calls in any overlap, with a failing promotion or acknowledgement and a restart |
| `db_worker` | TypeOK, ClosedMeansGone, AnswersTrue, TransactionWhole, NothingHangs | deaths, failed starts, respawns up to the give-up, a close at any time, and two transactions of an extension whose lease may end, whose statements may fail and whose host may stop, beside a call of the app |
| `reconcile` | TypeOK, CorpusFaithful, CleanedUp | items that change and vanish at any step of a pass, beside the pull, saves, a re-run, an enrichment and a failure: nothing the source has is archived, and what it no longer has is, or the account says why not |

No run expects a violation; the disagreements below are reached by changing a constant.

**Bounds.** `AccountLoop`: two concurrent callers and three runs (two in `account_transition`). A race needs one
actor between a read and its write and another that runs through; three runs give a loop, its
successor, and the successor of that. A pause makes no run and may come after the last (`Budget`), so two runs are enough for a
stop that waits for a loop that waits for its predecessor; `account_transition` was also checked with three runs and
`Kinds = {"tick", "syncNow", "manage", "pause"}`. One or two scope saves tell a stale scope from a fresh one, and
`MaxRetries = 2` reaches both the retry and the give-up. `Kinds` splits the operations over the runs.
`FeedConsumer`: two documents, pages and flushes of one or two (in `feed_work` flushes are due after two outputs and seed pages
hold one document, in `feed_prune` the other way round), so that pages end inside a batch and flushes inside a page; two or three source writes and three to four changes in all; one retry, and two
faults in `feed_work` (a retry that fails again ends the tail, which waits for an attach), one in `feed_prune`.
`Admission`: three units for one slot, two kinds, and Grace = Aging < MaxWait (the code's Grace is shorter
than its Aging; that order was checked too, for the invariants). `Scheduler`: two registrations per
process, one manual and one interval cadence, a clock of three values, one pending tick, one fault.
`Outbox`: two texts, three times with deadlines of zero and one, two requests (each may take many steps) and two
events: the smallest history in which a send is doubted, the app restarts or sweeps, and somebody tries again.
`Replication`: three devices (one is led past, one skips a leader), one document, one row, one write and four
epochs; `MaxEpoch = 3` with two writes was checked too. `EPOCH_GAP = 10` leaves room for every number an epoch
gives out. `DbWorker`: two transactions, of two statements and of one, so that one may be cut in the middle while
another waits for it; one call of the app, which may be queued behind either; three workers and one restart in a window,
so that a respawn may succeed twice or give up; two faults and one activation. `SyncFence`: two overlapping reports and five calls in all, one failure, one restart.
`Reconcile`: two items, so that a listing can be cut between them and a chunk can leave one behind; the first has the
attachment. One new content, one act of a user or worker and one fault, pages and chunks of one, and a breaker that
refuses two of two. Pages and chunks of two were checked too.
`MaxEnv`, `MaxSeq`, `MaxRuns`, `MaxOps`, `MaxWrites`, `MaxCalls`, `MaxFaults` and the calls of `DbWorker` are finite histories, so the runs of those modules
end and their cfgs switch the deadlock check off; `Admission`, `Scheduler` and `Reconcile` never stop and are checked for
deadlock. Symmetry is used only in runs without liveness properties.

**Fairness.** `AccountLoop`: weak fairness of each caller's and each loop's next step; the store answers, a
pull returns or throws, a timer fires. A flow that waits for its user is not assumed to go on.
`FeedConsumer`: weak fairness of the tail and of the attach at launch; nothing is assumed of the re-drive and
the prune. `Admission`: weak fairness of `pump` and of the wake timer; strong fairness of the clock and of the
release of an admitted unit (callers release in `finally`), because `pumping` interrupts both.
`Scheduler`: weak fairness of the store, of the interval timer (battery and heat do not forbid the tick
forever) and of the end of a run. `Outbox`: weak fairness of the operation under way (provider calls have
deadlines), of a `send_draft` that waits for the lock (first come, first served), of the scheduler's tick and of
time. `Reconcile`: weak fairness of all that goes on by itself together (the cadence tick, the cycle, the pass, the saves
under way): none of them may starve another, since each cycle ends only after its pass. `SyncFence`: weak fairness of whatever is under way: the event loop, the worker, handles that stop. `DbWorker`
states none: its histories are finite, so "nobody waits for ever" is the invariant `NothingHangs`: while a request is
unanswered, something that goes on by itself is due (`CanProgress`, a predicate on states. TLC found it equal to
`ENABLED Progress` in every state of `db_worker`, and in every state with `Window = {"close", "refused"}` and `Persists`).

### Further disagreements

Found with the same modules under other constants; each is reproduced by the change named.

| Change | Property that fails | What happens |
|---|---|---|
| `account_pause` with `Kinds = {"syncNow", "tick", "respawn"}` | OneLoop | `run()` while the source is unregistered (engine.ts:1231) puts a settled handle over the live loop; the next run starts a second one, though engine.ts:1227 says "never runs beside it" |
| `account_pause` with `Kinds = {"syncNow", "pause", "resume", "respawn"}` | PausedIsIdle | the same orphan: `pause` stops the handle in the map and commits `paused` while the loop beside it pulls |
| `account_transition` with `Kinds = {"manage", "syncNow", "respawn"}`, `MaxRuns = 3` | TransitionQuiesced | the same orphan keeps pulling through a folder-scope save; the run's own bound, two loops, does not reach it |
| `account_transition` with `Kinds = {"manage", "reconnect", "syncNow", "watchdog"}`, `MaxRuns = 3` | TransitionQuiesced | the watchdog frees the slot of a cancelled flow that still runs (connect-broker.ts:222); the next flow overlaps it, and the first to end drops the intent of both |
| `account_transition` with `Kinds = {"ensure", "manage", "syncNow"}`, `MaxRuns = 3`, `MaxGen = 2`, or `{"manage", "reconnect", "syncNow", "watchdog"}`, `MaxRuns = 3` | NoStranding | of two transitions at once the second finds the loop stopped already; the first fails and its restore (`restoreLoopAfterFailure`) is refused because of the intent of the second, which will not restore anything when it fails too |
| `account_transition` with `Kinds = {"ensure", "updateConfig"}` or `{"manage", "watchdog", "updateConfig"}` | ScopeNotLost | `updateConfig` looks for a flow or a transition only as it starts (engine.ts:2004-2007), and an `ensureRoot`, or a flow whose slot was freed, saves the scope between its read and its write, which puts the older one back, though engine.ts:1980 says "Folder scope NEVER moves through this door" |
| `account_transition` with `Kinds = {"outbound", "manage"}` | ScopeNotLost | `accounts:update-outbound` (main.ts:684-697) reads the account and writes its whole config back, folder scope included, past the guards of `updateConfig`; a scope save in between is undone, and the sources keep pulling what the user took out |
| `account_transition` with `Kinds = {"setCadence", "manage", "failedReads"}` or `{"setCadence", "reconnect", "failedReads"}` | NoStranding | the read from which the stopped loop is started again fails: `restoreLoopAfterFailure` logs it (engine.ts:697-702), the broker lets it through after a reconnect (connect-broker.ts:526); an account without a cadence then stays without a loop until the app restarts, which engine.ts:1708-1710 gives as the reason for restoring it |
| `account_pause` with `Kinds` `{"manage", "pause"}`, `{"manage", "resume"}`, `{"manage", "installed"}` or `{"ensure", "pause"}` | CursorMonotone | `pause` (engine.ts:1940), `resume` and `startWhenInstalled` write back the cursor they read before a scope save |
| `account_pause` with `Kinds = {"tick", "syncNow", "setCadence", "updateConfig", "respawn"}`, or a `"manage"` with the `"watchdog"` or `"ensure"` beside `"tick"`, `"syncNow"` and `"reconnect"` | CursorMonotone | the orphan of `run()`, or two overlapping transitions: a loop commits with a cursor from before another loop's batch or the save |
| `account_pause` with `Kinds = {"tick", "connect", "remove"}` or `{"tick", "syncNow", "connect", "cancel"}` | CursorMonotone | a tick that read the account before its removal (engine.ts:1259) starts a loop that commits into the re-created account |
| `account_transition` with `Kinds = {"manage", "ensure"}`, `MaxGen = 2` | TransitionQuiesced | `transitionIntents` (engine.ts:1869) has no owners: the first transition to end drops the other's intent |
| `account_transition` with `Kinds = {"connect", "manage"}`, `MaxGen = 2` | ScopeNotLost | a connect without a picker (engine.ts:1135) writes back an older folder scope, though engine.ts:626 says the race is "DETECTED" |
| `feed_prune` with `Kinds = {"update", "stop", "prune"}`, `Staggered = TRUE`, `MaxRetries = 1` | NothingMissed | a hold stops workers one by one; a prune (changes-maintenance.ts:173) passes one that has stopped, and it attaches again before the floor is published |
| `admission` with `LateTimers = TRUE`, checking WakeArmed | WakesUp | an abort (admission.ts:272) between the moment the wake timer is due and its callback takes the timer from those who wait |
| `admission` with `LateTimers = TRUE`, checking IdleWoken | WakesUp | so does any method that re-arms (admission.ts:220); idle waiters then wait for their cap |
| `admission` with `LateTimers = TRUE`, checking UnitAdmitted | UnitAdmitted | the same lost timer: a unit that nobody else's call lets in waits for ever |
| `scheduler` with `Cadences = {1, 3}` | CadenceApplies | `register` keeps the row's `nextRun` (scheduler.ts:122): a shorter interval first waits out the longer one, though boot.ts:642 says "re-apply it" |
| `account_churn` with `Kinds = {"connect", "cancel"}`, `MaxPos = 1`, checking RemovalIsAsked | RemovalIsAsked | a connect cancelled late removes an account that existed before it (connect-broker.ts:359), though :149 restricts that to accounts the flow made |
| `feed_work` with `Kinds = {"update", "redrive"}`, `MaxSeq = 4`, `MaxEnv = 2`, `MaxFaults = 1`, `Staggered = FALSE`, checking FreshContentKept | FreshContentKept | output computed for old content (write-tx.ts:1012) overwrites what the source wrote meanwhile (engine.ts:907, 2399) |
| `outbox`, checking ChatOffKills | ChatOffKills | `send_draft` reads the account's mode (service.ts:1957) before it waits for the locks; turned off meanwhile, it sends all the same |
| `outbox`, checking `copies.app + copies.mail + strays.sent =< 1` | that sum | `drafts.create` is carried out and its answer lost (mirror.ts:265-284): the row is sent by the app, and the copy nobody refers to by the user, so that two messages leave; `strays` counts such copies, and AtMostOnce leaves them out |
| `outbox`, checking `op.pc = "settle" => row.status = "sending"` | that invariant | the sweep of a promotion moves a row to `delivery_unknown` while its request is in flight (crash-recovery.ts:53), and the answer is then not recorded, though service.ts:720 and :800 say nothing else moves a 'sending' row in this process |
| `replication` with `Apart = {"join"}` | NothingSkipped | a device that joined by snapshot and then leads does not announce the snapshot's rows to a third that had not pulled them, though promote.ts:84 and write-tx.ts:1739 say what was applied reaches it |
| `replication` with `Apart = {"touch"}`, `MaxWrites = 2`, `MaxEpoch = 3`, `ToldAgain = {}` | NothingSkipped | a delta brings a document's new number together with an update in place that left the number alone: `imported` is noted only where the number did not move (write-tx.ts:1792), so a later leader does not announce it, though write-tx.ts:1739 says what was applied is handed on |
| `db_worker` with `Window = {"dies"}` | NothingHangs | a worker that exits between "ready" and `attachDeathHandlers` (worker-client.ts:246-262) is watched by nobody: the respawn never settles, and parked requests and `close()` wait for ever |
| `db_worker` with `Window = {"close"}` | ClosedMeansGone | `respawn` does not look at `intentionalClose` after the registration, so its worker takes over from a closed client, though worker-client.ts:372-376 says close waits it out |
| `db_worker` with `Window = {"refused"}` | ClosedMeansGone | a registration that is refused is retried with another worker (worker-client.ts:267) and the first is not ended, though :171-173 says a respawn never leaves two |
| `db_worker` with `Persists = TRUE` | AnswersTrue | after a statement whose failure made SQLite roll back, the next one is kept at once, outside any transaction; the commit is then refused but that row stays |
| `sync_fence` with `Also = {"overlap"}` | SidesAgree | a `beginJoin` while a leave or an open resumes the work: `attachHeld` ends its hold before joining flips, and the work restarts, though service.ts:805 says it stops before |
| `reconcile` with `Returns = TRUE` | CorpusFaithful | an item that is away while the pass lists it and back, unchanged, before the diff is archived though the source has it: the pull finds nothing to write (write-tx.ts:513), so `seq` stays below `startSeq`, though engine.ts:295 says the snapshot "closes that window"; it stays archived until its content changes |
| `sync_fence` with `Also = {"leader"}` | StaysClosed | a leader with its head pending begins a join, restarts (a joining device wakes unfenced, role.ts:71) and leaves the join: it leads unfenced, though promote.ts:24 says "stays fenced, across a restart, until open('head-acked')" |

Two more concern the scheduler and are visible in its actions. A pass whose `scheduleUpsert` is rejected
(scheduler.ts:69, `CallFails`) ends with its `again` flag set and never looked at, so the follow-up run promised
at scheduler.ts:48 is lost; `RunsFollow` excepts this case. And `register` writes back one call later the row it
read (`RegReadServed`), undoing what a pass saved in between, so the job is due again at the next tick.

Read in the code while modelling, and outside what the runs reach:

- Outbox: an edit made in the app while no sender is registered goes to the row alone, and the next refresh puts
  the provider's copy over it; a confirm that begins in that state can send a copy nobody has read
  (`SentAsShown` excepts both, `away`). A mail-app edit between the last read and `drafts.send` is sent
  (`touched`). A change of format alone between a write and its readback is vouched for as the app's own.
  Redraft is documented for expired drafts, but the code takes only discarded and failed ones. The rate rule is not
  looked at again when a scheduled send comes due.
- Replication: the first leader keeps `sync_state.epoch` 0 with a grant of (0,0) (promote.ts:115-126, delta.ts:60-70).
  When it returns as a follower and leads again, the pull that precedes it starts from zero and overwrites document
  edits that only it had (restamp.test.ts:181 against apply.test.ts:270). With three devices `relayImported`
  may put an older value over an ex-leader's unseen edit of the same key; the design accepts it.
- SyncFence: a demotion that fails (service.ts:1088) leaves the fence up and the work running. A failure of
  what an opening starts (`onOpen`) is only logged (service.ts:1059-1061): the device is open, and the workers a hold has stopped stay unattached. When the
  write that sets joining fails (service.ts:811), the hold stays in place on a device that is not joining; when leaving a
  join fails to learn what the pause has moved (service.ts:863), the work is not resumed. A database worker that
  respawns on a leader wakes fenced (worker-entry.ts:149) while main's fence is off, and `open` returns
  early because of that (service.ts:1046): writes are refused until the lease moves. An `open` that joins an earlier
  one still in its `onOpen` (service.ts:1040) may return with the device fenced. Of two overlapping `lead`
  calls, the first to fail lifts the fence the second needs.
- Reconcile: an allowance belongs to the cycle that takes it (engine.ts:1309), also when that pass is aborted or the app
  stops: a settings save followed by a sync-now leaves the refusal standing, though its message says
  that re-saving applies the cleanup. A listing that breaks silently in a pass with `full` archives what it did
  not list. The local-folder source advances a root's watermark with each live event while earlier ones may
  still wait (local-folder-source.ts:666-740); the model takes from a source that a new scan finds what is there.
- Database worker: the coordinator rolls back a second time after a commit that ends later than its lease
  (coordinator.ts:183, 396); nothing is undone, but the extension's connection is closed. A worker whose message
  cannot be decoded is marked dead at once and terminated later, so two workers may be alive for a moment.

## 5. Proofs

`AccountLoop_proofs` (any callers, any bounds):

- `TypeCorrect`: `Spec => []Types`. One lemma per group of actions, on lemmas about the shared helpers.
- `LoopsFormAChain`: if `"respawn"` is not among `Kinds`, `Spec => []LoopChain`. `LoopChain` alone is not
  inductive: a new loop must be newer than all others, so `LoopInv` adds `Numbered` (loops beyond `runs` are
  unused and the map entry is at most `runs`), the types, and that the source stays registered. Every
  step of a loop is an instance of `StepKeepsChain`, every run of `InstallKeepsChain`, every stop of
  `StopKeepsChain`.
- `OneLoopPerAccount`: `Spec => []OneLoop` under the same assumption, since of two live loops the newer
  waits. The assumption is needed: with `respawn` the property fails (section 4).
- `QueueHoldsTheCallers`: `Spec => []TypeOK`, with no assumption. `TypeOK` also says that the queue holds each caller that waits for a
  store call, and no other; `QueueInv` adds that none is there twice, so that serving the head leaves the others where they are
  (`Turn`), that a loop that was never started waits for nothing, and which operations have a stop behind them.
- `PausedStaysIdle`: `Spec => []PausedIsIdle` if `"respawn"` is not in `Kinds`. `PauseInv` follows a pause from its intent to its
  commit: while the intent is up nothing starts a loop, the handle it waits for stays the map's (`Held`, `Kept`), and so when
  that handle has settled no loop is alive (`StopFindsCalm`) and none is until `paused` is committed. No loop holds
  `paused` as the status it commits (`NotMarked`), so what a loop writes never makes a pause.
- `TransitionsWriteAlone`: `Spec => []TransitionQuiesced` if `"respawn"`, `"ensure"` and `"watchdog"` are not in `Kinds`. `TransOK`: a
  flow holds the slot from its claim to its end, so no two of them share the intent; from the return of its stop to the end
  of its writes the intent is up and no loop is alive. `PassInside`: a reconcile pass runs only inside a loop that is alive, so it has ended too.
- `ScopeIsNotLost`: `Spec => ScopeNotLost` if `"ensure"`, `"watchdog"`, `"connect"` and `"outbound"` are not in `Kinds`. `FlowHeld` keeps the slot
  with its flow. A config write that has begun when a flow starts stands before it in the database's queue: `Ahead` says so for
  every pair of the two and for each step they may be at, so that the write commits before the flow can save, and `RootsRead` that
  the scope it carries is still the stored one.
- `FlowsLeaveALoop`: `Spec => NoStranding` if `"ensure"`, `"watchdog"` and `"failedReads"` are not in `Kinds`: the scope write may
  fail, or commit and lose its reply, and so may the read after it, but not the one of the restore that follows. On `FlowHeld`, `Shaped`: a flow that
  is still at its picker has stopped nothing, and one that comes to its restart no longer has its intent up, so the `run()`
  it ends with is not refused (`RunLeavesLoop`).
- `CursorNeverGoesBack`: `Spec => CursorMonotone` under `CursorKinds`: `"respawn"`, `"ensure"`, `"watchdog"` and `"cancel"` are not in
  `Kinds`, `"connect"` is not there together with `"remove"`, nor `"manage"` with `"pause"`, `"resume"` or `"installed"`, nor
  `"resume"` with `"installed"` (a restriction of the proof only: `account_pause` checks the two together). `store.commit`
  writes the cursor its caller has read, so `Carried` says that whoever holds one across an await (a loop, a pause, the commit of
  `connecting`) holds the stored one. That rests on who may be under way together. Only the newest loop is not aborted, and under a
  transition's intent every loop is (`Aborting`); an account at rest has no loop that pulls (`ParkedIsIdle`), and what takes it
  out of its rest leaves none that would go on (`CallerRow`). So a resume that waits to read the row meets no batch, and one that
  has read it stands before every batch in the database's queue (`NoBatches`). For a pause it is the quiet that
  `PauseInv` gives, for a scope save the one that `TransInv` gives; with `OneLoop` a batch then finds nobody
  else with a cursor (`BatchAlone`). `CursorInv` says all this only while the row is there: a loop may outlive a removal
  with the cursor of `run()`'s argument, and its commits then fail. The invariant was checked by TLC first, with the saves and with the pauses.
- Each other assumption of these theorems is needed: TLC finds the property violated when an operation it excludes comes back
  (section 4). `ScopeIsNotLost` and `FlowsLeaveALoop` cover the operations of `account_transition`, which has `"respawn"`;
  for TransitionQuiesced that run goes beyond the theorem, within its two loops.

`FeedConsumer_proofs` (any documents, change numbers, page, batch and flush sizes, writes, faults and retries):

- `TypeCorrect` and `NeverRewinds` from `Inv`, which says what each party knows of the corpus while others change it. A document's
  change number is its own (`Corpus`), so what was read under a number stays true of whatever still carries it: `Tells` is
  that for one change, and `TailReads` and `RedriveOK` for all that the loop and a re-drive hold. `Marks` and `Pruned` bound the
  rows and the prune by the head of the log, and `TailShape` says where the loop's two cursors stand. `CursorNeverRewinds` is
  not a matter of the commits alone: a new seed writes the head it read a call earlier, which must be no lower
  than the row it replaces, so `TailShape` carries that from one call to the next (`seedBegin`).
- `NothingIsMissed`: `Spec => []NothingMissed` if `StopsTogether`: the stops of a hold settle in one step, or an instance does
  not have both stops and prunes. `NothingMissed` speaks of the rows only; while a page or a batch is in memory, every document of it
  must be accounted for in what the loop holds. `SeedCover` and `FeedCover` say where: still to be read, still to be worked
  on, staged, deferred or failed. So a bounded flush may move the cursor just as far as everything below it is settled
  (`SeedCommitCovers`, `CommitCovers`), and a re-drive's "done" and "skip" may take an entry away only with the
  output beside it (`RedriveCovers`). `Behind` is the other half: the limit of a prune under way is at most one above the cursor of the
  attached worker, from the moment it reads the floors, through the seed that replaces that cursor, to the delete. `NothingLost`
  is `NothingMissed` below the cursor, kept also while a loop reads from a cursor that a prune has just come level with.
  The assumption is needed: `Behind` fails when a worker that has stopped no longer counts for a prune that goes on and attaches
  again before the floor is published (section 4).
- `Ordered` and `Paged` say what `ORDER BY seq LIMIT n` returns (`InOrder`, `FirstOf`: each number once, from the lowest
  up, all up to the last one); pages, windows and lists of re-drives rest on them.
- `Inv` and `Cover` were checked by TLC first, with the constants of `feed_work` (stops, no prune) and of `feed_prune`
  (prunes, no stop), which both satisfy `StopsTogether`. The theorem also covers the two together where `Staggered` is
  FALSE, which no run reaches.

`Admission_proofs` (any callers, slots and delays):

- `TypeCorrect` and `SlotsNeverLeak` from `SlotInv` = types, `SlotsAccounted`, and `QueueOK` (a waiter holds no
  slot and waits once), without which an admission could count a unit twice.
- `NoWakeUpLost` (`WakesUp` = `WakeArmed` and `IdleWoken`) from `WakeInv` = `SlotInv`, `WakeArmed`, `IdleWoken` and `PumpKnows` (while
  `pump()` goes on with idle waiters, the grace is not over), if `LateTimers` is FALSE. The argument: outside
  `pump()` nothing is due (`NothingDue`), so whatever re-arms finds the foreground busy and sets a timer
  (`ArmBusy`); at the end of `pump()` `pickNext` names a waiter whenever one may start (`SomeonePicked`). The
  assumption is needed: with late timers both fail (section 4).

`Outbox_proofs` (any contents, lifetime, lateness and bounds, under `OutboxAssumption`):

- `TypeCorrect`, `SentAtMostOnce` and `ImplementsDelivery`, all from `Inv` = `Types` and `Safe`. `Types` adds to
  `TypeOK` which operations carry a text or a time, that an operation has a row, and that a row that was
  never made has no copy. `AtMostOnce` alone is not inductive: `Safe` adds where the app's message certainly has
  not left (`NotYet`: an operation that has not reached its answer, a rejected send, an open row), that an
  operation that sends holds a row in `sending` or one a sweep has closed as `delivery_unknown`, and that the mail app can only
  send a copy that is still there. Both theorems speak of the draft's own messages; a copy that a lost create left behind is in
  `strays` and outside them.
- Most steps are `Calm`: nothing leaves, no copy is made, `NotYet` is not regained, and the draft only moves on
  (or goes back from `sending` after a rejection). `CalmIsSafe` and `CalmIsAbstract` settle the invariant and the refinement
  for all of them (`Phase` keeps a draft that is being sent apart from what a sweep writes into its row); the steps in which a message leaves, a copy is made, a draft begins or the app stops
  (`DeliveredStep`, `MailAppSendsStep`, `MakeDoneStep`, `draftMessageStep`, `CrashStep`) prove both themselves. So one induction gives the
  invariant and the step simulation of `Delivery`, which has no fairness of its own.
- `SendsWhatWasShown`: `Spec => SentAsShown`, an action property. It speaks of the moment of sending; `Told` carries what was
  decided before: the row's text is the one shown for its revision (`Latest`), a time in the row was asked for that
  revision (`Planned`, which makes a scheduled send one of the revision it was made for), and from its read to its end a send
  has the revision it was asked for and a copy that is the one seen, later the app's own rendering (`Vouched`), as long as the
  mail app has not touched it since and a sender was there to read it (`Watched`).

`Scheduler_proofs` (any cadences, bounds and faults):

- `TypeCorrect` from `Types` = `TypeOK` and that a call under way names a job of this process.
- `CadenceHolds`: `Spec => []CadenceApplies` when every cadence but manual has one interval (`OneInterval`). The property
  speaks of the row the job waits for, but rows come from calls that were made earlier, so `InTime` says it
  of the row and of every write still in the queue: computed from a clock that has not gone back since. The
  assumption is needed: with two intervals `register` keeps the row's time (section 4).

`Reconcile_proofs` (any items, attachments, folders, page and batch sizes):

- `TypeCorrect` from `Types` = `TypeOK` and when the staging tables are open.
- `CorpusIsFaithful`: `Spec => []CorpusFaithful` if `Returns` is FALSE. `CorpusFaithful` says what the archive step may take;
  why it takes nothing else was decided earlier, during the walk. `Walk` follows it: whatever the walk has passed is
  listed, or written since `startSeq`, or not what the source has (`Seen`), and the walk is over or the
  breaker will refuse. `Fresh` bounds what the pull may still write: nothing is ahead of the source, and what differs from it
  is still to be read. The assumption is needed: an item that comes back unchanged breaks it (section 4).

`DbWorker_proofs` (any callers, statements, handles and restarts; the assumption `MaxFaults < MaxWorkers` only says that
the model does not run out of worker numbers):

- `TypeCorrect`, `TransactionsKept` and `ToldTheTruth`, all from `Inv` = `Lives` (the workers and the respawn), `Mail` (a
  request is parked or on the wire once), `Asking` (what each caller may ask) and `Good`: where each request is (`Placed`), who
  holds the connections (`Lent`), and for each transaction (`FlowOK`) and each call of the app (`CoreOK`) what its place says of
  the file. Neither property is inductive: a transaction is whole because a statement that is not kept belongs to the owner of
  the open transaction, and an answer is true because it was so when it was made and nothing later undoes it.
  The last two assume that an extension does not go on after a failed statement (`~Persists`); without that the
  answers are false (section 4).
- `CloseEndsAll` from `Alone`: at most the current worker and the one being started are alive, and only the current one outside
  a respawn. It assumes that no close and no refusal falls into a re-registration (`Window`); both break it (section 4).
- `NobodyHangs`: `Spec => []NothingHangs` if `"dies"` is not in `Window`. From `Awake`: whoever waits has a request that is parked,
  on the wire, queued in the coordinator or answered; a request is parked only while a respawn goes on, and queued only
  while a transaction holds the lease and its timer runs; a live worker is watched; a close that is not over still has something to
  wait for. Each of these is what makes one step of `Progress` due. The assumption is needed: a worker that
  dies between "ready" and `attachDeathHandlers` is watched by nobody (section 4).

`SyncFence_proofs` (any number of reports, calls, failures and restarts):

- `TypeCorrect` from `Base` = types, the places a call may wait at (`Shape`), and `Mail`: every message and answer is what its
  caller waits for, and no caller has two. Each step of main is first brought to one form (`Moves`: take an answer or not,
  post the fence or not, ask or not), so that the rest is proved once for a move, once for the worker and once for
  a restart.
- `DeviceStaysClosed`: `Spec => []StaysClosed` if `"leader"` is not in `Also` (a join may overlap a leave or an opening). It rests on
  three invariants. `Rows`: main's copy and every answer on its way agree with `sync_state` unless an answer that changes
  the role is still to be taken. `Pend`: a promotion of a follower comes right behind a fence post, no later message lifts
  it, and while it or its head is pending no join is under way. `Loss`: after a reported loss a tracking device is fenced, or the
  promotion under way knows of it (`late`), and an opening that was not overtaken finds no loss. The assumption is needed:
  a leader that joins with its head pending wakes unfenced (section 4).
- `SidesComeToAgree`: `Spec => []SidesAgree` if `Also = {}`. `SidesAgree` only speaks of the moments when nothing is under way, so
  it is far from inductive: the invariant (`AgreeInv`) says how far the two sides may differ in between. `Known` says what main and
  the worker know of each other: the fence posts on the wire leave the worker's fence as main's is (`FenceSent`); once a
  row has left the lone devices, or while a promotion runs the followers, no later answer brings it back (`Ordered`); the joining
  bit of main's copy and of every answer is that of `sync_state` unless an answer that changes it is still to be taken
  (`Joins`), with one join at a time and each leave telling it. `Gating` says where the work runs: what must not write has stopped, is
  being stopped, or a demotion or a report on its way will stop it; an open device whose work is not whole has a call under
  way that will run it or close the device (`Excused`). With `"overlap"` the property is false (section 4). `"leader"` is
  excluded because this rests on the invariant of `DeviceStaysClosed`: with `Also = {"leader"}` TLC finds `SidesAgree` true
  within the bounds of `sync_fence`, and there it is not proved.

Only model-checked: every liveness property (fairness and ENABLED are outside this prover): StopCompletes of `AccountLoop`, UnitAdmitted of `Admission`, DraftsSettle of `Outbox`,
CleanedUp of `Reconcile`, RunsFollow of `Scheduler`, EventuallyWorked of `FeedConsumer`; and every property of `Replication`.

## 6. Not modelled

The parts marked `not_modelled` or `partly` in PROJECT.json, each with its reason. In short: the inference plane, the extension host, the import journal, the forward queue and the file
exchange of a swap are planned (section 2); calendar drafts follow the outbound pipeline in shape; protocol
clients, OAuth windows, model processes, the converter and downloads are I/O whose results enter the models as
arbitrary outcomes; MCP, attention, preferences and the renderer keep no state that two actors race for;
document text, full-text search and query building are data.
