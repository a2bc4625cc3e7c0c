---------------------------- MODULE AccountLoop ----------------------------
(***************************************************************************)
(* One account of the ingestion engine (src/main/core/engine/engine.ts):   *)
(* its pull loops, the `running' map entry, the pause and transition       *)
(* intents, the account-flow lock, and every operation that starts, stops  *)
(* or rewrites the account while a loop may be pulling it.                 *)
(*                                                                         *)
(* Main-process code is single threaded, so everything between two awaits  *)
(* is one atomic step.  Store calls go to the DB worker, which serves them *)
(* in order: an actor that calls the store joins `dbq', and serving the    *)
(* head of `dbq' applies the call and runs the caller up to its next await.*)
(* A loop is named by the number of its run() call.                        *)
(***************************************************************************)
EXTENDS Naturals, Sequences, FiniteSets

CONSTANTS
  Procs,       \* concurrent callers: IPC handlers, broker flows, cadence ticks
  Kinds,       \* the operations this instance lets them perform
  None,        \* "no loop" and "no flow"
  MaxRuns,     \* bound on run() calls
  MaxGen,      \* bound on scope saves and re-creations of the row
  MaxPos,      \* bound on the position inside a cursor generation
  MaxRetries   \* SOURCE_MAX_RETRIES

AllKinds == {"tick", "syncNow", "setCadence", "updateConfig", "setOption",
             "pause", "resume", "installed", "manage", "ensure", "reconnect",
             "connect", "remove", "cancel", "outbound", "watchdog", "respawn",
             "crash", "failedReads"}

ASSUME ProcsAssumption == Procs \cap (Nat \cup {None}) = {} /\ None \notin Nat
ASSUME BoundsAssumption ==
  /\ MaxRuns \in Nat /\ MaxGen \in Nat /\ MaxPos \in Nat
  /\ MaxRetries \in Nat \ {0}
ASSUME KindsAssumption == Kinds \subseteq AllKinds

VARIABLES
  row,          \* the durable accounts row
  loop,         \* the pull loops, by run() number
  runs,         \* run() calls so far
  running,      \* running.get(key): a loop number or None
  pauseIntent,  \* pauseIntents.has(account)
  transIntent,  \* transitionIntents.has(account)
  flow,         \* activeByAccount.get(account): the process that holds it
  registered,   \* the source registry knows the account's source
  op,           \* the operation each process is executing
  dbq           \* calls waiting at the DB worker, oldest first

vars == <<row, loop, runs, running, pauseIntent, transIntent, flow,
          registered, op, dbq>>

Loops == 1..MaxRuns
Status == {"connecting", "backfilling", "live", "error",
           "paused", "needsReauth", "needs-connector"}

\* resting.ts
IsResting(s) == s \in {"paused", "needsReauth", "needs-connector"}
IsParked(s)  == s \in {"paused", "needs-connector"}

(***************************************************************************)
(* The account row.  A cursor is a pair (gen, pos): `gen' counts the times *)
(* a folder-scope save or a re-creation replaced the cursor, `pos' the     *)
(* batches pulled since.  `roots' is the version of the folder scope in    *)
(* the config column and `rest' everything else in it.                     *)
(***************************************************************************)
Rows == [exists : BOOLEAN, status : Status, gen : Nat, pos : Nat,
         roots : Nat, rest : BOOLEAN]

SameConfig(r, s) == r.roots = s.roots /\ r.rest = s.rest

LoopPcs == {"unused", "waitPrev", "read", "pull", "commit", "settle",
            "liveRead", "liveCommit", "caught", "rejected", "errRead", "errCommit",
            "sleep", "drain", "done"}

\* acc: the Account run() was given; gen, pos: the cursor the next write carries
\* (committedCursor); rec: this cycle's reconcile pass is in flight.
LoopRecs == [pc : LoopPcs, aborted : BOOLEAN, prev : Nat \cup {None},
             acc : Rows, gen : Nat, pos : Nat, rec : BOOLEAN,
             st : Status, retries : Nat]

LoopDbPcs == {"read", "commit", "liveRead", "liveCommit", "errRead", "errCommit"}
Ended == {"unused", "done"}
Live(l) == loop[l].pc \notin Ended
\* A loop that got past prev.stop(): it may read and write the account.
Pulling(l) == loop[l].pc \notin Ended \cup {"waitPrev"}

UserPcs == {"user"}
DbPcs   == {"cadence", "readRun", "readCfg", "writeCfg", "readCur",
            "commitPause", "readResume", "commitConnecting", "readOpen",
            "recheck", "tx", "after", "restore", "vault", "setStatus",
            "create", "createRoot", "removeTx"}
OpPcs   == {"idle", "waitStop"} \cup UserPcs \cup DbPcs

\* h: the handle being stopped; was: it was active; snap: the last account
\* read; own: connect() created the row (it did not exist before).
OpRecs == [kind : AllKinds \cup {"none", "boot"}, pc : OpPcs,
           h : Nat \cup {None}, was : BOOLEAN, snap : Rows, own : BOOLEAN]

InitRow(s) == [exists |-> TRUE, status |-> s, gen |-> 0, pos |-> 0,
               roots |-> 0, rest |-> FALSE]

NoLoop == [pc |-> "unused", aborted |-> FALSE, prev |-> None,
           acc |-> InitRow("connecting"), gen |-> 0, pos |-> 0,
           rec |-> FALSE, st |-> "connecting", retries |-> 0]

Idle == [kind |-> "none", pc |-> "idle", h |-> None, was |-> FALSE,
         snap |-> InitRow("connecting"), own |-> FALSE]

Init ==
  /\ row \in {InitRow(s) : s \in {"connecting", "paused", "needs-connector"}}
  /\ loop = [l \in Loops |-> NoLoop]
  /\ runs = 0
  /\ running = None
  /\ pauseIntent = FALSE
  /\ transIntent = FALSE
  /\ flow = None
  /\ registered = TRUE
  /\ op = [p \in Procs |-> Idle]
  /\ dbq = <<>>

----------------------------------------------------------------------------
(***************************************************************************)
(* Calls, returns and the loop primitives shared by the operations.        *)
(***************************************************************************)
Served(a)  == dbq # <<>> /\ Head(dbq) = a
Call(p, o, q) == op' = [op EXCEPT ![p] = o] /\ dbq' = Append(q, p)
Return(p, q)  == op' = [op EXCEPT ![p] = Idle] /\ dbq' = q
Release(p) == flow' = IF flow = p THEN None ELSE flow

\* handle.active(), for the handle in the map.
IsRunning == running # None /\ Live(running)
Settled(h) == h # None => ~Live(h)

Abort(l) == IF l = None THEN loop
            ELSE [loop EXCEPT ![l].aborted = TRUE]

\* The handle whose pull loop a run() must replace: it aborts prev and waits
\* for it before reading anything.
NewLoop(acc) == [NoLoop EXCEPT !.pc = "waitPrev", !.prev = running,
                               !.acc = acc, !.gen = acc.gen, !.pos = acc.pos]

\* run() with a registered source: the new handle takes the map entry at once
\* and calls prev.stop().
Install(acc) ==
  /\ runs < MaxRuns
  /\ runs' = runs + 1
  /\ running' = runs + 1
  /\ loop' = [Abort(running) EXCEPT ![runs + 1] = NewLoop(acc)]

\* run() while the source is not registered: a settled handle takes the map
\* entry; prev is neither stopped nor awaited.
InstallSettled ==
  /\ runs < MaxRuns
  /\ runs' = runs + 1
  /\ running' = runs + 1
  /\ loop' = [loop EXCEPT ![runs + 1] = [NoLoop EXCEPT !.pc = "done"]]

\* Mutant: the transition intent is not consulted.
Run_NoTransIntent(acc, pi, ti) ==
  \/ pi /\ UNCHANGED <<runs, running, loop>>
  \/ ~pi /\ registered /\ Install(acc)
  \/ ~pi /\ ~registered /\ InstallSettled

\* engine.run(acc): refused while a pause or a transition is in flight (pi, ti
\* are the two intents at the moment of the call).
Run(acc, pi, ti) ==
  \/ (pi \/ ti) /\ UNCHANGED <<runs, running, loop>>
  \/ ~pi /\ ~ti /\ registered /\ Install(acc)
  \/ ~pi /\ ~ti /\ ~registered /\ InstallSettled

NoRun == UNCHANGED <<runs, running, loop>>

\* Every operation calls run() at most once; it starts only when the bound
\* leaves it that call.  A pause calls none and may come after the last.
Budget(k) == runs + Cardinality({p \in Procs : op[p].pc # "idle"})
               + (IF k = "pause" THEN 0 ELSE 1) =< MaxRuns

Begin(p, k) == op[p].pc = "idle" /\ k \in Kinds /\ Budget(k)
Doing(p, k, pc) == op[p].kind = k /\ op[p].pc = pc
At(p, pc) == op[p].pc = pc /\ Served(p)
Kind(p) == op[p].kind

\* await running.get(key)?.stop(): aborts now, then waits for the loop to end.
BeginStop(p, o, q) ==
  /\ loop' = Abort(running)
  /\ op' = [op EXCEPT ![p] = [o EXCEPT !.pc = "waitStop", !.h = running,
                                       !.was = IsRunning]]
  /\ dbq' = q

\* What each operation awaits once its stop() has returned.
AfterStop(k) == CASE k = "pause" -> "readCur"
                  [] k \in {"manage", "ensure"} -> "tx"
                  [] k \in {"reconnect", "connect"} -> "vault"
                  [] k \in {"remove", "cancel"} -> "removeTx"
                  [] OTHER -> "idle"

\* Mutant: stop() deletes the map entry whoever's it is.
StopDone_DeleteAny(p) ==
  /\ op[p].pc = "waitStop"
  /\ Settled(op[p].h)
  /\ running' = None
  /\ Call(p, [op[p] EXCEPT !.pc = AfterStop(Kind(p))], dbq)
  /\ UNCHANGED <<row, loop, runs, pauseIntent, transIntent, flow, registered>>

\* Mutant: stop() aborts and does not wait for the loop to end.
StopDone_NoWait(p) ==
  /\ op[p].pc = "waitStop"
  /\ running' = IF running = op[p].h THEN None ELSE running
  /\ Call(p, [op[p] EXCEPT !.pc = AfterStop(Kind(p))], dbq)
  /\ UNCHANGED <<row, loop, runs, pauseIntent, transIntent, flow, registered>>

\* The end of stop(): drop the map entry only if it still is this handle's.
StopDone(p) ==
  /\ op[p].pc = "waitStop"
  /\ Settled(op[p].h)
  /\ running' = IF running = op[p].h THEN None ELSE running
  /\ Call(p, [op[p] EXCEPT !.pc = AfterStop(Kind(p))], dbq)
  /\ UNCHANGED <<row, loop, runs, pauseIntent, transIntent, flow, registered>>

----------------------------------------------------------------------------
(***************************************************************************)
(* Starting a loop: the cadence tick, sync-now, a cadence change, and the  *)
(* last leg of the operations that restart the account.                    *)
(***************************************************************************)
\* boot.ts: the tick starts a pull only when none is executing.
Tick(p) ==
  /\ Begin(p, "tick")
  /\ ~IsRunning
  /\ Call(p, [Idle EXCEPT !.kind = "tick", !.pc = "readRun"], dbq)
  /\ UNCHANGED <<row, loop, runs, running, pauseIntent, transIntent, flow, registered>>

SyncNow(p) ==
  /\ Begin(p, "syncNow")
  /\ Call(p, [Idle EXCEPT !.kind = "syncNow", !.pc = "readRun"], dbq)
  /\ UNCHANGED <<row, loop, runs, running, pauseIntent, transIntent, flow, registered>>

\* setAccountCadence: persists the cadence (not modelled), then reads and runs.
SetCadence(p) ==
  /\ Begin(p, "setCadence")
  /\ Call(p, [Idle EXCEPT !.kind = "setCadence", !.pc = "cadence"], dbq)
  /\ UNCHANGED <<row, loop, runs, running, pauseIntent, transIntent, flow, registered>>

CadenceSaved(p) ==
  /\ At(p, "cadence")
  /\ Call(p, [op[p] EXCEPT !.pc = "readRun"], Tail(dbq))
  /\ UNCHANGED <<row, loop, runs, running, pauseIntent, transIntent, flow, registered>>

\* Who may start an account in status s.
MayStart(k, s) == CASE k = "syncNow"   -> s # "paused"
                    [] k = "reconnect" -> TRUE
                    [] k = "boot"      -> ~IsResting(s) /\ registered
                    [] OTHER           -> ~IsResting(s)

\* A read that fails starts nothing.  Where it is the read a transition starts
\* the stopped loop again with, the loop is gone: an instance says if it may fail.
ReadFails(p) == Kind(p) \in {"manage", "ensure", "reconnect"} => "failedReads" \in Kinds

ReadThenRun(p) ==
  /\ At(p, "readRun")
  /\ \/ IF row.exists /\ MayStart(Kind(p), row.status)
        THEN Run(row, pauseIntent, transIntent) ELSE NoRun
     \/ ReadFails(p) /\ NoRun
  /\ Release(p)
  /\ Return(p, Tail(dbq))
  /\ UNCHANGED <<row, pauseIntent, transIntent, registered>>

----------------------------------------------------------------------------
(***************************************************************************)
(* updateConfig and setOption: refused while a flow or a transition holds  *)
(* the account, write the config, restart only an account with a map entry.*)
(* update-outbound (main.ts) writes the config past both.                  *)
(***************************************************************************)
\* Mutant: only the transition window refuses a config write.
Uncontended_NoFlow == ~transIntent

Uncontended == flow = None /\ ~transIntent

UpdateConfig(p) ==
  /\ Begin(p, "updateConfig")
  /\ Uncontended
  /\ Call(p, [Idle EXCEPT !.kind = "updateConfig", !.pc = "readCfg"], dbq)
  /\ UNCHANGED <<row, loop, runs, running, pauseIntent, transIntent, flow, registered>>

SetOption(p) ==
  /\ Begin(p, "setOption")
  /\ Uncontended
  /\ Call(p, [Idle EXCEPT !.kind = "setOption", !.pc = "readCfg"], dbq)
  /\ UNCHANGED <<row, loop, runs, running, pauseIntent, transIntent, flow, registered>>

\* accounts:update-outbound writes straight to the store.
UpdateOutbound(p) ==
  /\ Begin(p, "outbound")
  /\ Call(p, [Idle EXCEPT !.kind = "outbound", !.pc = "readCfg"], dbq)
  /\ UNCHANGED <<row, loop, runs, running, pauseIntent, transIntent, flow, registered>>

\* setOption throws on an unknown account and returns when the value is the
\* stored one; update-outbound returns on one; updateConfig goes on, completing
\* the scope keys it has read.  The read may fail.
ConfigRead(p) ==
  /\ At(p, "readCfg")
  /\ \/ /\ Kind(p) = "outbound" => row.exists
        /\ Call(p, [op[p] EXCEPT !.pc = "writeCfg", !.snap = row], Tail(dbq))
     \/ Return(p, Tail(dbq))
  /\ UNCHANGED <<row, loop, runs, running, pauseIntent, transIntent, flow, registered>>

\* The writes: `config' replaces the column (folderRoots taken from the earlier
\* read), `option' is a read-modify-write inside its transaction.
ConfigWritten(p) ==
  IF ~row.exists THEN {row}
  ELSE IF Kind(p) = "setOption" THEN {[row EXCEPT !.rest = ~row.rest]}
  ELSE {[row EXCEPT !.roots = IF op[p].snap.exists THEN op[p].snap.roots ELSE row.roots,
                    !.rest = b] : b \in BOOLEAN}

\* After the write the engine's two restart the account.  A write that fails,
\* carried out or not, ends the operation.
WriteConfig(p) ==
  /\ At(p, "writeCfg")
  /\ \/ /\ row' \in ConfigWritten(p) /\ running # None /\ Kind(p) # "outbound"
        /\ Call(p, [op[p] EXCEPT !.pc = "readRun"], Tail(dbq))
     \/ /\ row' \in ConfigWritten(p) \cup {row}
        /\ Return(p, Tail(dbq))
  /\ UNCHANGED <<loop, runs, running, pauseIntent, transIntent, flow, registered>>

----------------------------------------------------------------------------
(***************************************************************************)
(* pause, resume and the start of a parked account whose connector came.   *)
(* The account menu offers Pause or Resume by the committed status, one at *)
(* a time.                                                                 *)
(***************************************************************************)
PauseOrResume == {"pause", "resume"}
MenuFree == \A q \in Procs : Kind(q) \notin PauseOrResume

Pause(p) ==
  /\ Begin(p, "pause")
  /\ MenuFree /\ row.status # "paused"
  /\ pauseIntent' = TRUE
  /\ BeginStop(p, [Idle EXCEPT !.kind = "pause"], dbq)
  /\ UNCHANGED <<row, runs, running, transIntent, flow, registered>>

\* The cursor is read only now: the abort may have let one last batch land.
PauseRead(p) ==
  /\ At(p, "readCur")
  /\ IF row.exists
     THEN /\ Call(p, [op[p] EXCEPT !.pc = "commitPause", !.snap = row], Tail(dbq))
          /\ UNCHANGED pauseIntent
     ELSE Return(p, Tail(dbq)) /\ pauseIntent' = FALSE
  /\ UNCHANGED <<row, loop, runs, running, transIntent, flow, registered>>

\* store.commit of a status: it carries the cursor the caller read.
StatusCommit(s, gen, pos) ==
  [row EXCEPT !.status = s, !.gen = gen, !.pos = pos]

\* The intent clears whether or not the commit threw.
PauseCommit(p) ==
  /\ At(p, "commitPause")
  /\ \/ row.exists /\ row' = StatusCommit("paused", op[p].snap.gen, op[p].snap.pos)
     \/ UNCHANGED row
  /\ pauseIntent' = FALSE
  /\ Return(p, Tail(dbq))
  /\ UNCHANGED <<loop, runs, running, transIntent, flow, registered>>

Resume(p) ==
  /\ Begin(p, "resume")
  /\ MenuFree /\ row.status = "paused"
  /\ pauseIntent' = FALSE
  /\ Call(p, [Idle EXCEPT !.kind = "resume", !.pc = "readResume"], dbq)
  /\ UNCHANGED <<row, loop, runs, running, transIntent, flow, registered>>

\* startWhenInstalled: the connector is registered, the row waits for it.
Installed(p) ==
  /\ Begin(p, "installed")
  /\ registered
  /\ Call(p, [Idle EXCEPT !.kind = "installed", !.pc = "readResume"], dbq)
  /\ UNCHANGED <<row, loop, runs, running, pauseIntent, transIntent, flow, registered>>

ResumeRead(p) ==
  /\ At(p, "readResume")
  /\ IF row.exists /\ (Kind(p) = "resume" \/ row.status = "needs-connector")
     THEN Call(p, [op[p] EXCEPT !.pc = "commitConnecting", !.snap = row], Tail(dbq))
     ELSE Return(p, Tail(dbq))
  /\ UNCHANGED <<row, loop, runs, running, pauseIntent, transIntent, flow, registered>>

\* Commits 'connecting', then starts the loop; the commit may throw, carried
\* out or not.
ResumeCommit(p) ==
  /\ At(p, "commitConnecting")
  /\ \/ /\ row.exists
        /\ row' = StatusCommit("connecting", op[p].snap.gen, op[p].snap.pos)
        /\ \/ Run([op[p].snap EXCEPT !.status = "connecting"], pauseIntent, transIntent)
           \/ NoRun
     \/ UNCHANGED row /\ NoRun
  /\ Return(p, Tail(dbq))
  /\ UNCHANGED <<pauseIntent, transIntent, flow, registered>>

----------------------------------------------------------------------------
(***************************************************************************)
(* Transitions: manage-folders and reconnect (broker flows that claim the  *)
(* account), and ensureRoot (main-api.ts, which calls applyScope without   *)
(* claiming it).                                                           *)
(***************************************************************************)
\* Scope saves in flight; each may still raise the row's generation.
Saves == {q \in Procs : Kind(q) \in {"manage", "ensure", "connect"}}
SaveBudget == row.gen + Cardinality(Saves) < MaxGen

\* runAccountFlow: the claim is synchronous and refused while another flow
\* holds the account.
StartFlow(p, k) ==
  /\ Begin(p, k)
  /\ k = "manage" => SaveBudget
  /\ flow = None
  /\ flow' = p
  /\ Call(p, [Idle EXCEPT !.kind = k, !.pc = "readOpen"], dbq)
  /\ UNCHANGED <<row, loop, runs, running, pauseIntent, transIntent, registered>>

\* Calls of ensureRoot are serialized with each other.
EnsureRoot(p) ==
  /\ Begin(p, "ensure")
  /\ \A q \in Procs : Kind(q) # "ensure"
  /\ SaveBudget
  /\ Call(p, [Idle EXCEPT !.kind = "ensure", !.pc = "readOpen"], dbq)
  /\ UNCHANGED <<row, loop, runs, running, pauseIntent, transIntent, flow, registered>>

\* The point where a transition declares its intent and stops the loop.
Quiesce(p, o, q) ==
  /\ transIntent' = TRUE
  /\ BeginStop(p, o, q)

\* The account read a flow opens with: manage needs working credentials,
\* ensureRoot goes straight to applyScope (or finds the root covered), or creates
\* the account that is not there.
Opened(p) ==
  /\ At(p, "readOpen")
  /\ LET o == [op[p] EXCEPT !.snap = row] IN
     \/ /\ Kind(p) = "connect"
        /\ Call(p, [o EXCEPT !.pc = "create"], Tail(dbq))
        /\ UNCHANGED <<loop, transIntent, flow>>
     \/ /\ Kind(p) = "ensure" /\ ~row.exists
        /\ Call(p, [o EXCEPT !.pc = "createRoot"], Tail(dbq))
        /\ UNCHANGED <<loop, transIntent, flow>>
     \/ /\ Kind(p) = "ensure" /\ row.exists
        /\ Quiesce(p, o, Tail(dbq))
        /\ UNCHANGED flow
     \/ /\ Kind(p) \in {"manage", "reconnect"} /\ row.exists
        /\ Kind(p) = "manage" => row.status # "needsReauth"
        /\ op' = [op EXCEPT ![p] = [o EXCEPT !.pc = "user"]]
        /\ dbq' = Tail(dbq)
        /\ UNCHANGED <<loop, transIntent, flow>>
     \/ /\ Kind(p) # "connect"
        /\ Return(p, Tail(dbq)) /\ Release(p)
        /\ UNCHANGED <<loop, transIntent>>
  /\ UNCHANGED <<row, runs, running, pauseIntent, registered>>

\* The picker or the sign-in is cancelled or fails: nothing was written.
FlowAbandoned(p) ==
  /\ op[p].pc = "user"
  /\ Return(p, dbq) /\ Release(p)
  /\ UNCHANGED <<row, loop, runs, running, pauseIntent, transIntent, registered>>

\* The folder selection came back: re-read the config before committing.
Picked(p) ==
  /\ Doing(p, "manage", "user")
  /\ Call(p, [op[p] EXCEPT !.pc = "recheck"], dbq)
  /\ UNCHANGED <<row, loop, runs, running, pauseIntent, transIntent, flow, registered>>

\* Fail fast when the config changed while the picker was open.
Rechecked(p) ==
  /\ At(p, "recheck")
  /\ IF row.exists /\ SameConfig(row, op[p].snap)
     THEN Quiesce(p, op[p], Tail(dbq)) /\ UNCHANGED flow
     ELSE Return(p, Tail(dbq)) /\ Release(p) /\ UNCHANGED <<loop, transIntent>>
  /\ UNCHANGED <<row, runs, running, pauseIntent, registered>>

\* reauthenticate() returned uncancelled: past the point of no return.
SignedIn(p) ==
  /\ Doing(p, "reconnect", "user")
  /\ Quiesce(p, op[p], dbq)
  /\ UNCHANGED <<row, runs, running, pauseIntent, flow, registered>>

\* Mutant: the loop the transition stopped is not restored.
CatchTransition_NoRestore(p) ==
  /\ transIntent' = FALSE
  /\ Return(p, Tail(dbq)) /\ Release(p)

\* The catch of a transition: drop the intent, and restore the loop it stopped.
CatchTransition(p) ==
  /\ transIntent' = FALSE
  /\ IF op[p].was
     THEN Call(p, [op[p] EXCEPT !.pc = "restore"], Tail(dbq)) /\ UNCHANGED flow
     ELSE Return(p, Tail(dbq)) /\ Release(p)

\* applyFolderScopeTx: config and cursor in one transaction, under a compare
\* of the config with the one the caller opened.  An unchanged re-save keeps
\* the roots.
ScopeSaved == {[row EXCEPT !.gen = row.gen + 1, !.roots = r] :
                 r \in {row.roots, row.roots + 1}}

ScopeTx(p) ==
  /\ At(p, "tx")
  /\ \/ /\ row.exists /\ SameConfig(row, op[p].snap)
        /\ row' \in ScopeSaved
        /\ Call(p, [op[p] EXCEPT !.pc = "after"], Tail(dbq))
        /\ UNCHANGED <<transIntent, flow>>
     \/ UNCHANGED row /\ CatchTransition(p)     \* stale, unknown, or failed
     \/ /\ row.exists /\ SameConfig(row, op[p].snap)
        /\ row' \in ScopeSaved /\ CatchTransition(p)   \* committed, reply lost
  /\ UNCHANGED <<loop, runs, running, pauseIntent, registered>>

\* The intent goes on the line before the restart, with no await between.  The
\* read before it may fail, and then the catch restores the loop.
ScopeRestart(p) ==
  /\ At(p, "after")
  /\ \/ /\ transIntent' = FALSE
        /\ IF row.exists /\ ~IsResting(row.status)
           THEN Run(row, pauseIntent, FALSE) ELSE NoRun
        /\ Release(p)
        /\ Return(p, Tail(dbq))
     \/ CatchTransition(p) /\ NoRun
  /\ UNCHANGED <<row, pauseIntent, registered>>

\* restoreLoopAfterFailure, which swallows a failing read; then the finally that
\* drops the intent again.
Restore(p) ==
  /\ At(p, "restore")
  /\ \/ IF row.exists /\ ~IsResting(row.status)
        THEN Run(row, pauseIntent, transIntent) ELSE NoRun
     \/ ReadFails(p) /\ NoRun
  /\ transIntent' = FALSE
  /\ Release(p)
  /\ Return(p, Tail(dbq))
  /\ UNCHANGED <<row, pauseIntent, registered>>

\* vault.save of a reconnect or a connect.
VaultSaved(p) ==
  /\ At(p, "vault")
  /\ \/ /\ Kind(p) = "reconnect"
        /\ Call(p, [op[p] EXCEPT !.pc = "setStatus"], Tail(dbq))
        /\ UNCHANGED <<loop, runs, running, transIntent, flow>>
     \/ /\ Kind(p) = "reconnect" /\ CatchTransition(p)
        /\ UNCHANGED <<loop, runs, running>>
     \/ /\ Kind(p) = "connect" /\ Return(p, Tail(dbq))     \* the save threw
        /\ UNCHANGED <<loop, runs, running, transIntent, flow>>
     \/ /\ Kind(p) = "connect"
        /\ Run(op[p].snap, pauseIntent, transIntent)
        /\ Return(p, Tail(dbq))
        /\ UNCHANGED <<transIntent, flow>>
     \/ /\ Kind(p) = "connect" /\ "cancel" \in Kinds   \* cancelled late: remove
        /\ BeginStop(p, [op[p] EXCEPT !.kind = "cancel"], Tail(dbq))
        /\ UNCHANGED <<runs, running, transIntent, flow>>
  /\ UNCHANGED <<row, pauseIntent, registered>>

\* setAccountStatus('connecting'): no cursor write; a missing row is a no-op.
Reconnected == IF row.exists THEN [row EXCEPT !.status = "connecting"] ELSE row

StatusSet(p) ==
  /\ At(p, "setStatus")
  /\ \/ /\ row' = Reconnected
        /\ transIntent' = FALSE
        /\ Call(p, [op[p] EXCEPT !.pc = "readRun"], Tail(dbq))
        /\ UNCHANGED flow
     \/ row' \in {row, Reconnected} /\ CatchTransition(p)
  /\ UNCHANGED <<loop, runs, running, pauseIntent, registered>>

\* The broker's watchdog frees a cancelled flow's slot after the grace, even
\* while the flow's body is still executing.
Watchdog(p) ==
  /\ "watchdog" \in Kinds
  /\ flow = p
  /\ flow' = None
  /\ UNCHANGED <<row, loop, runs, running, pauseIntent, transIntent, registered, op, dbq>>

----------------------------------------------------------------------------
(***************************************************************************)
(* connect (Add of this provider account, which may already exist) and     *)
(* remove.  Account ids are a hash of source and identifier, so an account *)
(* removed and added again is the same account.                            *)
(***************************************************************************)
Connect(p) ==
  /\ Begin(p, "connect")
  /\ SaveBudget
  /\ registered
  /\ Call(p, [Idle EXCEPT !.kind = "connect", !.pc = "readOpen"], dbq)
  /\ UNCHANGED <<row, loop, runs, running, pauseIntent, transIntent, flow, registered>>

\* createAccount upserts config and status.  A connect that showed no picker
\* writes back the scope keys it read earlier; one that did writes its own.
ConnectRoots(p) ==
  {IF op[p].snap.exists THEN op[p].snap.roots ELSE row.roots}
    \cup {r \in {row.roots + 1} : r <= MaxGen}
Upsert(p) ==
  \E r \in ConnectRoots(p), b \in BOOLEAN :
    row' = [row EXCEPT !.status = "connecting", !.roots = r, !.rest = b]

\* A new row starts with a null cursor, which is a generation of its own.
NewRow == [InitRow("connecting") EXCEPT !.gen = row.gen + 1, !.roots = row.roots + 1]

CreateAccount(p) ==
  /\ At(p, "create")
  /\ \/ row.exists /\ Upsert(p)
     \/ ~row.exists /\ row' = NewRow
  /\ BeginStop(p, [op[p] EXCEPT !.snap = row', !.own = ~row.exists], Tail(dbq))
  /\ UNCHANGED <<runs, running, pauseIntent, transIntent, flow, registered>>

\* ensureRoot's own account: created and started, with no loop stopped before.
RootCreated(p) ==
  /\ At(p, "createRoot")
  /\ \/ /\ \/ row.exists /\ Upsert(p)
           \/ ~row.exists /\ row' = NewRow
        /\ Run(row', pauseIntent, transIntent)
     \/ UNCHANGED row /\ NoRun                    \* the create threw
  /\ Return(p, Tail(dbq))
  /\ UNCHANGED <<pauseIntent, transIntent, flow, registered>>

Remove(p) ==
  /\ Begin(p, "remove")
  /\ BeginStop(p, [Idle EXCEPT !.kind = "remove"], dbq)
  /\ UNCHANGED <<row, runs, running, pauseIntent, transIntent, flow, registered>>

RemoveAccount(p) ==
  /\ At(p, "removeTx")
  /\ row' = [row EXCEPT !.exists = FALSE]
  /\ Return(p, Tail(dbq))
  /\ UNCHANGED <<loop, runs, running, pauseIntent, transIntent, flow, registered>>

----------------------------------------------------------------------------
(***************************************************************************)
(* The pull loop of run().  Every exit waits for the cycle's reconcile     *)
(* pass, so `done' means the pass is over too.                             *)
(***************************************************************************)
LoopStep(l, pc, q) == loop' = [loop EXCEPT ![l].pc = pc] /\ dbq' = q
\* The loop is over; its locals go, a pass it left behind would stay.
Finish(l, q) ==
  /\ loop' = [loop EXCEPT ![l] = [NoLoop EXCEPT !.pc = "done", !.rec = loop[l].rec]]
  /\ dbq' = q
\* Served calls may fail instead: a DB worker crash rejects them.
Quiet == UNCHANGED <<runs, running, pauseIntent, transIntent, flow, registered, op>>

\* Mutant: the new loop does not wait for the one it replaces.
PrevStopped_NoWait(l) ==
  /\ loop[l].pc = "waitPrev"
  /\ IF loop[l].aborted THEN Finish(l, dbq)
                        ELSE LoopStep(l, "read", Append(dbq, l))
  /\ UNCHANGED row /\ Quiet

\* await prev?.stop(): its map delete finds a newer handle and does nothing.
PrevStopped(l) ==
  /\ loop[l].pc = "waitPrev"
  /\ Settled(loop[l].prev)
  /\ IF loop[l].aborted THEN Finish(l, dbq)
                        ELSE LoopStep(l, "read", Append(dbq, l))
  /\ UNCHANGED row /\ Quiet

\* The account the cycle works on: the committed row, or run()'s argument
\* when the row is gone.
Fresh(l) == IF row.exists THEN row ELSE loop[l].acc

\* Loop entry: the committed status and the pause intent are checked again.
\* A cycle with a reconcile pass starts it here.
Entry(l) ==
  /\ loop[l].pc = "read" /\ Served(l)
  /\ LET fresh == Fresh(l) IN
     IF IsParked(fresh.status) \/ pauseIntent
     THEN Finish(l, Tail(dbq))
     ELSE /\ \E rec \in BOOLEAN :
               loop' = [loop EXCEPT ![l].pc = "pull", ![l].gen = fresh.gen,
                                    ![l].pos = fresh.pos, ![l].rec = rec]
          /\ dbq' = Tail(dbq)
  /\ UNCHANGED row /\ Quiet

\* Mutant: a parked pull() does not notice the abort.
Pull_NotAbortable(l) ==
  /\ loop[l].pc = "pull"
  /\ \/ LoopStep(l, "commit", Append(dbq, l))
     \/ LoopStep(l, "settle", dbq)
     \/ LoopStep(l, "caught", dbq)
  /\ UNCHANGED row /\ Quiet

\* pull() yields a batch, ends, throws, or abortable() notices the abort.
Pull(l) ==
  /\ loop[l].pc = "pull"
  /\ IF loop[l].aborted
     THEN LoopStep(l, "drain", dbq)
     ELSE \/ LoopStep(l, "commit", Append(dbq, l))
          \/ LoopStep(l, "settle", dbq)
          \/ LoopStep(l, "caught", dbq)
  /\ UNCHANGED row /\ Quiet

Next1(n) == IF n < MaxPos THEN n + 1 ELSE n

\* Mutant: the last sub-commit of a batch does not advance committedCursor.
SubCommit_StaleCursor(l) ==
  /\ loop[l].pc = "commit" /\ Served(l) /\ row.exists
  /\ \E s \in {"backfilling", "live"}, last \in BOOLEAN :
       LET goon == ~last /\ ~loop[l].aborted
           pc   == IF goon THEN "commit" ELSE IF last THEN "pull" ELSE "caught"
       IN /\ row' = StatusCommit(s, loop[l].gen, IF last THEN Next1(loop[l].pos) ELSE loop[l].pos)
          /\ loop' = [loop EXCEPT ![l].pc = pc, ![l].retries = IF last THEN 0 ELSE @]
          /\ dbq' = IF goon THEN Append(Tail(dbq), l) ELSE Tail(dbq)
  /\ Quiet

\* One sub-commit.  Only the last of a batch moves the cursor; after it the
\* retry count starts over.  An abort is noticed at the next await.
SubCommit(l) ==
  /\ loop[l].pc = "commit" /\ Served(l) /\ row.exists
  /\ \E s \in {"backfilling", "live"}, last \in BOOLEAN :
       LET pos  == IF last THEN Next1(loop[l].pos) ELSE loop[l].pos
           goon == ~last /\ ~loop[l].aborted
           pc   == IF goon THEN "commit" ELSE IF last THEN "pull" ELSE "caught"
       IN /\ row' = StatusCommit(s, loop[l].gen, pos)
          /\ loop' = [loop EXCEPT ![l].pc = pc, ![l].pos = pos,
                        ![l].retries = IF last THEN 0 ELSE loop[l].retries]
          /\ dbq' = IF goon THEN Append(Tail(dbq), l) ELSE Tail(dbq)
  /\ Quiet

\* The stream ended: wait for the pass, look at the abort again, go live with
\* the cursor as it is stored.
Settle(l) ==
  /\ loop[l].pc = "settle" /\ ~loop[l].rec
  /\ IF loop[l].aborted THEN Finish(l, dbq)
                        ELSE LoopStep(l, "liveRead", Append(dbq, l))
  /\ UNCHANGED row /\ Quiet

\* The read a final status commit takes its cursor from.
ReadCursor(l, from, to) ==
  /\ loop[l].pc = from /\ Served(l)
  /\ loop' = [loop EXCEPT ![l].pc = to, ![l].gen = Fresh(l).gen,
                          ![l].pos = Fresh(l).pos]
  /\ dbq' = Append(Tail(dbq), l)
  /\ UNCHANGED row /\ Quiet

LiveRead(l) == ReadCursor(l, "liveRead", "liveCommit")
ErrRead(l)  == ReadCursor(l, "errRead", "errCommit")

LiveCommit(l) ==
  /\ loop[l].pc = "liveCommit" /\ Served(l) /\ row.exists
  /\ row' = StatusCommit("live", loop[l].gen, loop[l].pos)
  /\ Finish(l, Tail(dbq))
  /\ Quiet

\* A loop's store call rejected: unknown account, a closed write gate, or the
\* DB worker died, before or after the transaction committed.
CallFailed(l) ==
  /\ loop[l].pc \in {"read", "commit", "liveRead", "liveCommit"} /\ Served(l)
  /\ LoopStep(l, "rejected", Tail(dbq))
  /\ \/ UNCHANGED row
     \/ /\ loop[l].pc = "commit" /\ row.exists
        /\ row' = StatusCommit("live", loop[l].gen, Next1(loop[l].pos))
     \/ /\ loop[l].pc = "liveCommit" /\ row.exists
        /\ row' = StatusCommit("live", loop[l].gen, loop[l].pos)
  /\ Quiet

\* An uncoded failure: another attempt, until the budget is spent.
Retry(l) ==
  IF loop[l].retries + 1 >= MaxRetries
  THEN /\ loop' = [loop EXCEPT ![l].pc = "errRead", ![l].st = "error"]
       /\ dbq' = Append(dbq, l)
  ELSE /\ loop' = [loop EXCEPT ![l].pc = "sleep", ![l].retries = loop[l].retries + 1]
       /\ dbq' = dbq

\* The catch: it waits for the pass; an abort ends the loop, and so does a
\* closed write gate (SYNC_READ_ONLY); a source error may carry a code.
Caught(l) ==
  /\ loop[l].pc \in {"caught", "rejected"} /\ ~loop[l].rec
  /\ IF loop[l].aborted THEN Finish(l, dbq)
     ELSE \/ Retry(l)
          \/ loop[l].pc = "rejected" /\ Finish(l, dbq)
          \/ /\ loop[l].pc = "caught"
             /\ \E s \in {"needsReauth", "error"} :
                  loop' = [loop EXCEPT ![l].pc = "errRead", ![l].st = s]
             /\ dbq' = Append(dbq, l)
  /\ UNCHANGED row /\ Quiet

\* The error commit; when it (or its read) throws, the loop ends all the same.
ErrCommit(l) ==
  /\ loop[l].pc \in {"errRead", "errCommit"} /\ Served(l)
  /\ \/ /\ loop[l].pc = "errCommit" /\ row.exists
        /\ row' = StatusCommit(loop[l].st, loop[l].gen, loop[l].pos)
     \/ UNCHANGED row
  /\ Finish(l, Tail(dbq))
  /\ Quiet

\* Backoff, then another cycle; an abort wakes the sleep and ends the loop.
Sleep(l) ==
  /\ loop[l].pc = "sleep"
  /\ IF loop[l].aborted THEN Finish(l, dbq)
                        ELSE LoopStep(l, "read", Append(dbq, l))
  /\ UNCHANGED row /\ Quiet

Drain(l) ==
  /\ loop[l].pc = "drain" /\ ~loop[l].rec
  /\ Finish(l, dbq)
  /\ UNCHANGED row /\ Quiet

\* The cycle's reconcile pass ends (its own writes are module Reconcile's).
PassEnds(l) ==
  /\ loop[l].rec
  /\ loop' = [loop EXCEPT ![l].rec = FALSE]
  /\ UNCHANGED <<row, dbq>> /\ Quiet

LoopNext(l) ==
  \/ PrevStopped(l) \/ Entry(l) \/ Pull(l) \/ SubCommit(l) \/ Settle(l)
  \/ LiveRead(l) \/ LiveCommit(l) \/ CallFailed(l) \/ Caught(l)
  \/ ErrRead(l) \/ ErrCommit(l) \/ Sleep(l) \/ Drain(l) \/ PassEnds(l)

----------------------------------------------------------------------------
(***************************************************************************)
(* The environment: an extension host crash unregisters the source until   *)
(* its respawn registers it again; the app may die and boot again, which   *)
(* runs resumeAccounts.                                                    *)
(***************************************************************************)
Respawn ==
  /\ "respawn" \in Kinds
  /\ registered' = ~registered
  /\ UNCHANGED <<row, loop, runs, running, pauseIntent, transIntent, flow, op, dbq>>

\* Mutant: calls of the dead process are still answered after the restart.
Crash_KeepQueue(p) ==
  /\ "crash" \in Kinds /\ runs < MaxRuns
  /\ loop' = [l \in Loops |-> NoLoop]
  /\ running' = None
  /\ pauseIntent' = FALSE /\ transIntent' = FALSE /\ flow' = None
  /\ op' = [q \in Procs |-> IF q = p THEN [Idle EXCEPT !.kind = "boot", !.pc = "readRun"]
                                     ELSE Idle]
  /\ dbq' = Append(dbq, p)
  /\ UNCHANGED <<row, runs, registered>>

Crash(p) ==
  /\ "crash" \in Kinds /\ runs < MaxRuns
  /\ loop' = [l \in Loops |-> NoLoop]
  /\ running' = None
  /\ pauseIntent' = FALSE /\ transIntent' = FALSE /\ flow' = None
  /\ op' = [q \in Procs |-> IF q = p THEN [Idle EXCEPT !.kind = "boot", !.pc = "readRun"]
                                     ELSE Idle]
  /\ dbq' = <<p>>
  /\ UNCHANGED <<row, runs, registered>>

\* An operation starts: a user's click, a timer, or an extension's call.
OpStart(p) ==
  \/ Tick(p) \/ SyncNow(p) \/ SetCadence(p) \/ UpdateConfig(p) \/ SetOption(p)
  \/ UpdateOutbound(p)
  \/ Pause(p) \/ Resume(p) \/ Installed(p)
  \/ StartFlow(p, "manage") \/ StartFlow(p, "reconnect") \/ EnsureRoot(p)
  \/ Connect(p) \/ Remove(p)

\* The user answers or abandons an open picker or sign-in.
UserStep(p) == Picked(p) \/ SignedIn(p) \/ FlowAbandoned(p)

\* An operation already under way moves on.
OpNext(p) ==
  \/ StopDone(p) \/ CadenceSaved(p) \/ ReadThenRun(p) \/ ConfigRead(p)
  \/ WriteConfig(p) \/ PauseRead(p) \/ PauseCommit(p) \/ ResumeRead(p)
  \/ ResumeCommit(p) \/ Opened(p) \/ Rechecked(p) \/ ScopeTx(p)
  \/ ScopeRestart(p) \/ Restore(p) \/ VaultSaved(p) \/ StatusSet(p)
  \/ CreateAccount(p) \/ RootCreated(p) \/ RemoveAccount(p)

Next ==
  \/ \E p \in Procs : OpStart(p) \/ UserStep(p) \/ OpNext(p) \/ Watchdog(p) \/ Crash(p)
  \/ \E l \in Loops : LoopNext(l)
  \/ Respawn

Spec == Init /\ [][Next]_vars

\* The event loop and the DB worker never stop serving: a continuation that
\* can proceed does.  No fairness for users, ticks, crashes or sources.
Fairness ==
  /\ \A p \in Procs : WF_vars(OpNext(p))
  /\ \A l \in Loops : WF_vars(LoopNext(l))
LiveSpec == Spec /\ Fairness

----------------------------------------------------------------------------
(***************************************************************************)
(* Properties.                                                             *)
(***************************************************************************)
Types ==
  /\ row \in Rows
  /\ loop \in [Loops -> LoopRecs]
  /\ runs \in 0..MaxRuns
  /\ running \in Loops \cup {None}
  /\ pauseIntent \in BOOLEAN /\ transIntent \in BOOLEAN
  /\ flow \in Procs \cup {None}
  /\ registered \in BOOLEAN
  /\ op \in [Procs -> OpRecs]
  /\ dbq \in Seq(Procs \cup Loops)

\* Every variable has its type, and the DB queue holds exactly the callers that
\* are waiting for a store call, each once.
TypeOK ==
  /\ Types
  /\ \A p \in Procs : Cardinality({i \in DOMAIN dbq : dbq[i] = p})
                        = IF op[p].pc \in DbPcs THEN 1 ELSE 0
  /\ \A l \in Loops : Cardinality({i \in DOMAIN dbq : dbq[i] = l})
                        = IF loop[l].pc \in LoopDbPcs THEN 1 ELSE 0

\* engine.run: "a re-run replaces the previous loop, never runs beside it".
\* At most one loop of the account is past the wait for its predecessor.
OneLoop == \A a, b \in Loops : Pulling(a) /\ Pulling(b) => a = b

\* handle.stop deletes only its own map entry: while any loop of the account is
\* alive the map entry is the newest one, so a stop through the map reaches
\* every loop.
NoOrphan == \A l \in Loops : Live(l) => running # None /\ Live(running) /\ l <= running

\* Loops that are alive together form a chain: each but the oldest still waits
\* for its predecessor, every older one is at or before that predecessor, and
\* the newest is the one the map holds.
WaitsFor(a, b) ==
  /\ loop[b].pc = "waitPrev"
  /\ loop[b].prev \in Loops /\ Live(loop[b].prev)
  /\ a <= loop[b].prev /\ loop[b].prev < b
LoopChain ==
  /\ NoOrphan
  /\ \A a, b \in Loops : Live(a) /\ Live(b) /\ a < b => WaitsFor(a, b)

\* A transition's writes (the applyFolderScope transaction, the new
\* credentials, the status of a reconnect) happen with no loop alive.
TransitionPcs == {"tx", "after", "vault", "setStatus"}
InTransition(p) == Kind(p) \in {"manage", "ensure", "reconnect"} /\ op[p].pc \in TransitionPcs
TransitionQuiesced == \A p \in Procs : InTransition(p) => \A l \in Loops : ~Live(l) /\ ~loop[l].rec

\* engine.pause: while 'paused' is committed no loop is pulling, so no batch
\* commit and no end-of-stream commit can overwrite the status.
PullPcs == {"pull", "commit", "settle", "liveRead", "liveCommit"}
PausedIsIdle ==
  row.exists /\ row.status = "paused" => \A l \in Loops : loop[l].pc \notin PullPcs

\* The stored cursor never goes back: not to an earlier position (a pause that
\* persists a cursor read too early) and not to the cursor of an earlier folder
\* scope or of a removed account (a loop that outlived the change).
CursorMonotone ==
  [][row'.gen > row.gen \/ (row'.gen = row.gen /\ row'.pos >= row.pos)]_row

\* A saved folder scope is never replaced by an older one: a config write that
\* completes the scope keys from an earlier read must not undo a save.
ScopeNotLost == [][row'.roots >= row.roots]_row

\* restoreLoopAfterFailure and the two restarts: a transition that stopped an
\* active loop does not leave an account that should sync without one.
NoStranding ==
  [][\A p \in Procs :
       /\ op[p].was /\ Kind(p) \in {"manage", "ensure", "reconnect"}
       /\ op'[p].pc = "idle" /\ "boot" \notin {op'[q].kind : q \in Procs}
       /\ row'.exists /\ ~IsResting(row'.status)
       /\ registered /\ ~pauseIntent
       => running' # None /\ loop'[running'].pc \notin Ended]_vars

\* connect-broker: only an explicit Remove, or the cancel of a connect that
\* created the account, deletes the account's row.
RemovalIsAsked ==
  [][row.exists /\ ~row'.exists =>
       \E p \in Procs : op[p].pc = "removeTx" /\ (Kind(p) = "remove" \/ op[p].own)]_vars

\* stop() always returns: a pause, and a transition past its point of no return,
\* waits for a chain of aborted loops and their reconcile passes, and they all
\* end (engine.ts 1596, 1784).
StopCompletes ==
  /\ pauseIntent ~> ~pauseIntent
  /\ transIntent ~> ~transIntent
=============================================================================
