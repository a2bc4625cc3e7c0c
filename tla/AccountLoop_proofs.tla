------------------------ MODULE AccountLoop_proofs ------------------------
(***************************************************************************)
(* Proofs about AccountLoop, for any set of callers and operations and any *)
(* bounds: every variable keeps its type; as long as the account's source  *)
(* stays registered, the loops that are alive together form a chain that   *)
(* ends in the loop the map holds, so at most one of them pulls; the DB    *)
(* queue holds those that wait for a store call, each once; no loop pulls  *)
(* while 'paused' is committed; a transition writes with no loop alive;    *)
(* no config write puts an older folder scope back; a flow that has        *)
(* stopped a loop leaves one in its place; and the stored cursor never     *)
(* goes back.                                                              *)
(***************************************************************************)
EXTENDS AccountLoop, TLAPS, FiniteSetTheorems

----------------------------------------------------------------------------
(***************************************************************************)
(* What the shared helpers return.                                         *)
(***************************************************************************)
LEMMA LoopsAreNats == Loops \subseteq Nat /\ None \notin Loops
  BY BoundsAssumption, ProcsAssumption DEF Loops

\* The DB queue keeps its type when a call joins it or its head is served.
LEMMA QueueTypes ==
  ASSUME NEW S, NEW q \in Seq(S), NEW e \in S
  PROVE  /\ Append(q, e) \in Seq(S)
         /\ q # <<>> => Tail(q) \in Seq(S) /\ Append(Tail(q), e) \in Seq(S)
  OBVIOUS

LEMMA InitRowType == ASSUME NEW s \in Status PROVE InitRow(s) \in Rows
  BY DEF InitRow, Rows

LEMMA NoLoopType == NoLoop \in LoopRecs
  BY InitRowType DEF NoLoop, LoopRecs, LoopPcs, Status

LEMMA IdleType == Idle \in OpRecs
  BY InitRowType DEF Idle, OpRecs, OpPcs, Status

\* The record of an operation that has just started.
LEMMA StartedType ==
  ASSUME NEW k \in AllKinds, NEW pc \in OpPcs
  PROVE  /\ [Idle EXCEPT !.kind = k] \in OpRecs
         /\ [Idle EXCEPT !.kind = k, !.pc = pc] \in OpRecs
  BY IdleType DEF OpRecs

\* The record of an operation that moves on.
LEMMA MovedType ==
  ASSUME NEW o \in OpRecs, NEW pc \in OpPcs, NEW r \in Rows
  PROVE  /\ [o EXCEPT !.pc = pc] \in OpRecs
         /\ [o EXCEPT !.snap = r] \in OpRecs
         /\ [o EXCEPT !.pc = pc, !.snap = r] \in OpRecs
  BY DEF OpRecs

LEMMA ServedTypes ==
  ASSUME Types, NEW a, Served(a)
  PROVE  Tail(dbq) \in Seq(Procs \cup Loops)
  BY DEF Types, Served

LEMMA CallTypes ==
  ASSUME Types, NEW p \in Procs, NEW o \in OpRecs, NEW q \in Seq(Procs \cup Loops),
         Call(p, o, q)
  PROVE  op' \in [Procs -> OpRecs] /\ dbq' \in Seq(Procs \cup Loops)
  BY QueueTypes DEF Types, Call

LEMMA ReturnTypes ==
  ASSUME Types, NEW p \in Procs, NEW q \in Seq(Procs \cup Loops), Return(p, q)
  PROVE  op' \in [Procs -> OpRecs] /\ dbq' \in Seq(Procs \cup Loops)
  BY IdleType DEF Types, Return

LEMMA ReleaseType ==
  ASSUME Types, NEW p \in Procs, Release(p) PROVE flow' \in Procs \cup {None}
  BY DEF Types, Release

LEMMA AbortType ==
  ASSUME Types PROVE Abort(running) \in [Loops -> LoopRecs]
  BY DEF Types, Abort, LoopRecs

LEMMA BeginStopTypes ==
  ASSUME Types, NEW p \in Procs, NEW o \in OpRecs, NEW q \in Seq(Procs \cup Loops),
         BeginStop(p, o, q)
  PROVE  /\ loop' \in [Loops -> LoopRecs]
         /\ op' \in [Procs -> OpRecs] /\ dbq' \in Seq(Procs \cup Loops)
  <1>1. [o EXCEPT !.pc = "waitStop", !.h = running, !.was = IsRunning] \in OpRecs
    BY LoopsAreNats DEF OpRecs, OpPcs, IsRunning, Types
  <1>2. QED
    BY <1>1, AbortType DEF BeginStop, Types

\* run() leaves the loops, their count and the map entry well typed.
LEMMA RunTypes ==
  ASSUME Types, NEW acc \in Rows, NEW pi, NEW ti, Run(acc, pi, ti)
  PROVE  /\ loop' \in [Loops -> LoopRecs]
         /\ runs' \in 0..MaxRuns /\ running' \in Loops \cup {None}
  <1>1. NewLoop(acc) \in LoopRecs
    BY NoLoopType, LoopsAreNats DEF NewLoop, LoopRecs, LoopPcs, Rows, Types
  <1>2. [NoLoop EXCEPT !.pc = "done"] \in LoopRecs
    BY NoLoopType DEF LoopRecs, LoopPcs
  <1>3. runs < MaxRuns => runs + 1 \in Loops /\ runs + 1 \in 0..MaxRuns
    BY BoundsAssumption DEF Types, Loops
  <1>4. CASE Install(acc)
    BY <1>1, <1>3, <1>4, AbortType DEF Install, Types
  <1>5. CASE InstallSettled
    BY <1>2, <1>3, <1>5 DEF InstallSettled, Types
  <1>6. CASE UNCHANGED <<runs, running, loop>>
    BY <1>6 DEF Types
  <1>7. QED
    BY <1>4, <1>5, <1>6 DEF Run

LEMMA NoRunTypes ==
  ASSUME Types, NoRun
  PROVE  /\ loop' \in [Loops -> LoopRecs]
         /\ runs' \in 0..MaxRuns /\ running' \in Loops \cup {None}
  BY DEF Types, NoRun

LEMMA StatusCommitType ==
  ASSUME Types, NEW s \in Status, NEW g \in Nat, NEW n \in Nat
  PROVE  StatusCommit(s, g, n) \in Rows
  BY DEF Types, StatusCommit, Rows

\* Assigning one field, or several, of one loop.
LEMMA LoopFieldTypes ==
  ASSUME NEW f \in [Loops -> LoopRecs], NEW l \in Loops
  PROVE  /\ \A pc \in LoopPcs : [f EXCEPT ![l].pc = pc] \in [Loops -> LoopRecs]
         /\ \A n \in Nat : /\ [f EXCEPT ![l].gen = n] \in [Loops -> LoopRecs]
                          /\ [f EXCEPT ![l].pos = n] \in [Loops -> LoopRecs]
                          /\ [f EXCEPT ![l].retries = n] \in [Loops -> LoopRecs]
         /\ \A s \in Status : [f EXCEPT ![l].st = s] \in [Loops -> LoopRecs]
         /\ \A b \in BOOLEAN : [f EXCEPT ![l].rec = b] \in [Loops -> LoopRecs]
  BY DEF LoopRecs

LEMMA LoopErrTypes ==
  ASSUME NEW f \in [Loops -> LoopRecs], NEW l \in Loops, NEW pc \in LoopPcs,
         NEW s \in Status
  PROVE  [f EXCEPT ![l].pc = pc, ![l].st = s] \in [Loops -> LoopRecs]
  BY DEF LoopRecs

LEMMA LoopRetriesTypes ==
  ASSUME NEW f \in [Loops -> LoopRecs], NEW l \in Loops, NEW pc \in LoopPcs,
         NEW n \in Nat
  PROVE  [f EXCEPT ![l].pc = pc, ![l].retries = n] \in [Loops -> LoopRecs]
  BY DEF LoopRecs

LEMMA LoopCursorTypes ==
  ASSUME NEW f \in [Loops -> LoopRecs], NEW l \in Loops, NEW pc \in LoopPcs,
         NEW g \in Nat, NEW n \in Nat
  PROVE  /\ [f EXCEPT ![l].pc = pc, ![l].gen = g, ![l].pos = n] \in [Loops -> LoopRecs]
         /\ [f EXCEPT ![l].pc = pc, ![l].pos = n, ![l].retries = g] \in [Loops -> LoopRecs]
  <1> DEFINE f1 == [f EXCEPT ![l].pc = pc]
             f2 == [f1 EXCEPT ![l].gen = g]
             f3 == [f1 EXCEPT ![l].pos = n]
  <1>1. f1 \in [Loops -> LoopRecs]
    BY LoopFieldTypes
  <1> HIDE DEF f1
  <1>2. f2 \in [Loops -> LoopRecs] /\ f3 \in [Loops -> LoopRecs]
    BY <1>1, LoopFieldTypes
  <1> HIDE DEF f2, f3
  <1>3. /\ [f2 EXCEPT ![l].pos = n] \in [Loops -> LoopRecs]
        /\ [f3 EXCEPT ![l].retries = g] \in [Loops -> LoopRecs]
    BY <1>2, LoopFieldTypes
  <1>4. QED
    BY <1>3 DEF f1, f2, f3

LEMMA FinishTypes ==
  ASSUME Types, NEW l \in Loops, NEW q \in Seq(Procs \cup Loops), Finish(l, q)
  PROVE  loop' \in [Loops -> LoopRecs] /\ dbq' \in Seq(Procs \cup Loops)
  <1>1. [NoLoop EXCEPT !.pc = "done", !.rec = loop[l].rec] \in LoopRecs
    BY NoLoopType DEF Types, LoopRecs, LoopPcs
  <1>2. QED
    BY <1>1 DEF Finish, Types

LEMMA LoopStepTypes ==
  ASSUME Types, NEW l \in Loops, NEW pc \in LoopPcs, NEW q \in Seq(Procs \cup Loops),
         LoopStep(l, pc, q)
  PROVE  loop' \in [Loops -> LoopRecs] /\ dbq' \in Seq(Procs \cup Loops)
  BY DEF LoopStep, Types, LoopRecs

LEMMA CatchTypes ==
  ASSUME Types, NEW p \in Procs, Served(p), CatchTransition(p)
  PROVE  /\ transIntent' \in BOOLEAN /\ flow' \in Procs \cup {None}
         /\ op' \in [Procs -> OpRecs] /\ dbq' \in Seq(Procs \cup Loops)
  <1>1. op[p] \in OpRecs /\ Tail(dbq) \in Seq(Procs \cup Loops)
    BY ServedTypes DEF Types
  <1>2. [op[p] EXCEPT !.pc = "restore"] \in OpRecs
    BY <1>1 DEF OpRecs, OpPcs, DbPcs
  <1>3. QED
    BY <1>1, <1>2, CallTypes, ReturnTypes, ReleaseType DEF CatchTransition, Types

----------------------------------------------------------------------------
(***************************************************************************)
(* Types is inductive: one lemma per group of actions.                     *)
(***************************************************************************)
LEMMA TypesInit == Init => Types
  <1> SUFFICES ASSUME Init PROVE Types
    OBVIOUS
  <1>1. row \in Rows
    BY InitRowType DEF Init, Status
  <1>2. loop \in [Loops -> LoopRecs] /\ op \in [Procs -> OpRecs]
    BY NoLoopType, IdleType DEF Init
  <1>3. runs \in 0..MaxRuns /\ dbq \in Seq(Procs \cup Loops)
    BY BoundsAssumption DEF Init
  <1>4. QED
    BY <1>1, <1>2, <1>3 DEF Init, Types

LEMMA TypesStart ==
  ASSUME Types, NEW p \in Procs, OpStart(p) PROVE Types'
  <1> USE DEF Types
  <1>q. dbq \in Seq(Procs \cup Loops)
    OBVIOUS
  <1>k. {"readRun", "cadence", "readCfg", "readResume", "readOpen"} \subseteq OpPcs
    BY DEF OpPcs, DbPcs
  <1>1. CASE Tick(p)
    <2>1. [Idle EXCEPT !.kind = "tick", !.pc = "readRun"] \in OpRecs
      BY <1>k, StartedType DEF AllKinds
    <2>2. QED
      BY <1>1, <1>q, <2>1, CallTypes DEF Tick
  <1>2. CASE SyncNow(p)
    <2>1. [Idle EXCEPT !.kind = "syncNow", !.pc = "readRun"] \in OpRecs
      BY <1>k, StartedType DEF AllKinds
    <2>2. QED
      BY <1>2, <1>q, <2>1, CallTypes DEF SyncNow
  <1>3. CASE SetCadence(p)
    <2>1. [Idle EXCEPT !.kind = "setCadence", !.pc = "cadence"] \in OpRecs
      BY <1>k, StartedType DEF AllKinds
    <2>2. QED
      BY <1>3, <1>q, <2>1, CallTypes DEF SetCadence
  <1>4. CASE UpdateConfig(p)
    <2>1. [Idle EXCEPT !.kind = "updateConfig", !.pc = "readCfg"] \in OpRecs
      BY <1>k, StartedType DEF AllKinds
    <2>2. QED
      BY <1>4, <1>q, <2>1, CallTypes DEF UpdateConfig
  <1>5. CASE SetOption(p)
    <2>1. [Idle EXCEPT !.kind = "setOption", !.pc = "readCfg"] \in OpRecs
      BY <1>k, StartedType DEF AllKinds
    <2>2. QED
      BY <1>5, <1>q, <2>1, CallTypes DEF SetOption
  <1>6. CASE Pause(p)
    <2>1. [Idle EXCEPT !.kind = "pause"] \in OpRecs
      BY <1>k, StartedType DEF AllKinds
    <2>2. QED
      BY <1>6, <1>q, <2>1, BeginStopTypes DEF Pause
  <1>7. CASE Resume(p)
    <2>1. [Idle EXCEPT !.kind = "resume", !.pc = "readResume"] \in OpRecs
      BY <1>k, StartedType DEF AllKinds
    <2>2. QED
      BY <1>7, <1>q, <2>1, CallTypes DEF Resume
  <1>8. CASE Installed(p)
    <2>1. [Idle EXCEPT !.kind = "installed", !.pc = "readResume"] \in OpRecs
      BY <1>k, StartedType DEF AllKinds
    <2>2. QED
      BY <1>8, <1>q, <2>1, CallTypes DEF Installed
  <1>9. ASSUME NEW k \in {"manage", "reconnect"}, StartFlow(p, k) PROVE Types'
    <2>1. [Idle EXCEPT !.kind = k, !.pc = "readOpen"] \in OpRecs
      BY <1>k, StartedType DEF AllKinds
    <2>2. QED
      BY <1>9, <1>q, <2>1, CallTypes DEF StartFlow
  <1>10. CASE EnsureRoot(p)
    <2>1. [Idle EXCEPT !.kind = "ensure", !.pc = "readOpen"] \in OpRecs
      BY <1>k, StartedType DEF AllKinds
    <2>2. QED
      BY <1>10, <1>q, <2>1, CallTypes DEF EnsureRoot
  <1>11. CASE Connect(p)
    <2>1. [Idle EXCEPT !.kind = "connect", !.pc = "readOpen"] \in OpRecs
      BY <1>k, StartedType DEF AllKinds
    <2>2. QED
      BY <1>11, <1>q, <2>1, CallTypes DEF Connect
  <1>12. CASE Remove(p)
    <2>1. [Idle EXCEPT !.kind = "remove"] \in OpRecs
      BY <1>k, StartedType DEF AllKinds
    <2>2. QED
      BY <1>12, <1>q, <2>1, BeginStopTypes DEF Remove
  <1>13. CASE UpdateOutbound(p)
    <2>1. [Idle EXCEPT !.kind = "outbound", !.pc = "readCfg"] \in OpRecs
      BY <1>k, StartedType DEF AllKinds
    <2>2. QED
      BY <1>13, <1>q, <2>1, CallTypes DEF UpdateOutbound
  <1>14. QED
    BY <1>1, <1>2, <1>3, <1>4, <1>5, <1>6, <1>7, <1>8, <1>9, <1>10, <1>11, <1>12, <1>13
       DEF OpStart

LEMMA TypesUser ==
  ASSUME Types, NEW p \in Procs, UserStep(p) PROVE Types'
  <1> USE DEF Types
  <1>1. CASE Picked(p)
    <2>1. [op[p] EXCEPT !.pc = "recheck"] \in OpRecs
      BY MovedType DEF OpPcs, DbPcs
    <2>2. QED
      BY <1>1, <2>1, CallTypes DEF Picked
  <1>2. CASE SignedIn(p)
    BY <1>2, BeginStopTypes DEF SignedIn, Quiesce
  <1>3. CASE FlowAbandoned(p)
    BY <1>3, ReturnTypes, ReleaseType DEF FlowAbandoned
  <1>4. QED
    BY <1>1, <1>2, <1>3 DEF UserStep

LEMMA TypesOp ==
  ASSUME Types, NEW p \in Procs, OpNext(p) PROVE Types'
  <1> USE DEF Types
  <1>o. op[p] \in OpRecs /\ row \in Rows /\ op[p].snap \in Rows
    BY DEF OpRecs
  <1>q. Served(p) => Tail(dbq) \in Seq(Procs \cup Loops)
    BY ServedTypes
  <1>k. OpPcs = {"idle", "waitStop", "user"} \cup DbPcs
    BY DEF OpPcs, UserPcs
  <1>m. ASSUME NEW pc \in DbPcs
        PROVE  /\ [op[p] EXCEPT !.pc = pc] \in OpRecs
               /\ [op[p] EXCEPT !.pc = pc, !.snap = row] \in OpRecs
    BY <1>o, <1>k, MovedType
  <1>1. CASE StopDone(p)
    <2>1. [op[p] EXCEPT !.pc = AfterStop(Kind(p))] \in OpRecs
      BY <1>o, <1>k, MovedType DEF AfterStop, DbPcs
    <2>2. QED
      BY <1>1, <2>1, CallTypes DEF StopDone
  <1>2. CASE CadenceSaved(p)
    <2>1. [op[p] EXCEPT !.pc = "readRun"] \in OpRecs
      BY <1>m DEF DbPcs
    <2>2. QED
      BY <1>2, <1>q, <2>1, CallTypes DEF CadenceSaved, At
  <1>3. CASE ReadThenRun(p)
    BY <1>3, <1>q, RunTypes, NoRunTypes, ReturnTypes, ReleaseType DEF ReadThenRun, At
  <1>4. CASE ConfigRead(p)
    <2>1. [op[p] EXCEPT !.pc = "writeCfg", !.snap = row] \in OpRecs
      BY <1>m DEF DbPcs
    <2>2. QED
      BY <1>4, <1>q, <2>1, CallTypes, ReturnTypes DEF ConfigRead, At
  <1>5. CASE WriteConfig(p)
    <2>1. [op[p] EXCEPT !.pc = "readRun"] \in OpRecs
      BY <1>m DEF DbPcs
    <2>2. row' \in Rows
      BY ZenonT(60), <1>5, <1>o DEF WriteConfig, ConfigWritten, Rows
    <2>3. QED
      BY <1>5, <1>q, <2>1, <2>2, CallTypes, ReturnTypes DEF WriteConfig, At
  <1>6. CASE PauseRead(p)
    <2>1. [op[p] EXCEPT !.pc = "commitPause", !.snap = row] \in OpRecs
      BY <1>m DEF DbPcs
    <2>2. QED
      BY <1>6, <1>q, <2>1, CallTypes, ReturnTypes DEF PauseRead, At
  <1>7. CASE PauseCommit(p)
    <2>1. StatusCommit("paused", op[p].snap.gen, op[p].snap.pos) \in Rows
      BY <1>o, StatusCommitType DEF Rows, Status
    <2>2. QED
      BY <1>7, <1>q, <2>1, ReturnTypes DEF PauseCommit, At
  <1>8. CASE ResumeRead(p)
    <2>1. [op[p] EXCEPT !.pc = "commitConnecting", !.snap = row] \in OpRecs
      BY <1>m DEF DbPcs
    <2>2. QED
      BY <1>8, <1>q, <2>1, CallTypes, ReturnTypes DEF ResumeRead, At
  <1>9. CASE ResumeCommit(p)
    <2>1. StatusCommit("connecting", op[p].snap.gen, op[p].snap.pos) \in Rows
      BY <1>o, StatusCommitType DEF Rows, Status
    <2>2. [op[p].snap EXCEPT !.status = "connecting"] \in Rows
      BY <1>o DEF Rows, Status
    <2>3. QED
      BY <1>9, <1>q, <2>1, <2>2, RunTypes, NoRunTypes, ReturnTypes DEF ResumeCommit, At
  <1>10. CASE Opened(p)
    <2> DEFINE o == [op[p] EXCEPT !.snap = row]
    <2>1. o \in OpRecs
      BY <1>o DEF OpRecs
    <2>2. /\ [o EXCEPT !.pc = "create"] \in OpRecs /\ [o EXCEPT !.pc = "user"] \in OpRecs
          /\ [o EXCEPT !.pc = "createRoot"] \in OpRecs
      BY <2>1, <1>k, <1>o, MovedType DEF DbPcs
    <2> HIDE DEF o
    <2>3. CASE Call(p, [o EXCEPT !.pc = "create"], Tail(dbq))
               /\ UNCHANGED <<loop, transIntent, flow>>
      BY <1>10, <1>q, <2>2, <2>3, CallTypes DEF Opened, At
    <2>4. CASE Quiesce(p, o, Tail(dbq)) /\ UNCHANGED flow
      BY <1>10, <1>q, <2>1, <2>4, BeginStopTypes DEF Opened, Quiesce, At
    <2>5. CASE /\ op' = [op EXCEPT ![p] = [o EXCEPT !.pc = "user"]]
               /\ dbq' = Tail(dbq) /\ UNCHANGED <<loop, transIntent, flow>>
      BY <1>10, <1>q, <2>2, <2>5 DEF Opened, At
    <2>6. CASE Return(p, Tail(dbq)) /\ Release(p) /\ UNCHANGED <<loop, transIntent>>
      BY <1>10, <1>q, <2>6, ReturnTypes, ReleaseType DEF Opened, At
    <2>7. CASE Call(p, [o EXCEPT !.pc = "createRoot"], Tail(dbq))
               /\ UNCHANGED <<loop, transIntent, flow>>
      BY <1>10, <1>q, <2>2, <2>7, CallTypes DEF Opened, At
    <2>8. QED
      BY <1>10, <2>3, <2>4, <2>5, <2>6, <2>7 DEF Opened, o
  <1>11. CASE Rechecked(p)
    BY <1>11, <1>q, <1>o, BeginStopTypes, ReturnTypes, ReleaseType DEF Rechecked, Quiesce, At
  <1>12. CASE ScopeTx(p)
    <2>1. [op[p] EXCEPT !.pc = "after"] \in OpRecs
      BY <1>m DEF DbPcs
    <2>2. row' \in Rows
      <3>1. row.gen + 1 \in Nat /\ row.roots + 1 \in Nat /\ row.roots \in Nat
        BY <1>o DEF Rows
      <3>2. ASSUME NEW g \in Nat, NEW r \in Nat
            PROVE  [row EXCEPT !.gen = g, !.roots = r] \in Rows
        BY <1>o DEF Rows
      <3>3. ScopeSaved \subseteq Rows
        BY <3>1, <3>2 DEF ScopeSaved
      <3>4. QED
        BY <1>12, <1>o, <3>3 DEF ScopeTx
    <2>3. QED
      BY <1>12, <1>q, <2>1, <2>2, CallTypes, CatchTypes DEF ScopeTx, At
  <1>13. CASE ScopeRestart(p)
    BY <1>13, <1>q, RunTypes, NoRunTypes, ReturnTypes, ReleaseType, CatchTypes DEF ScopeRestart, At
  <1>14. CASE Restore(p)
    BY <1>14, <1>q, RunTypes, NoRunTypes, ReturnTypes, ReleaseType DEF Restore, At
  <1>15. CASE VaultSaved(p)
    <2>1. [op[p] EXCEPT !.pc = "setStatus"] \in OpRecs
      BY <1>m DEF DbPcs
    <2>2. [op[p] EXCEPT !.kind = "cancel"] \in OpRecs
      BY <1>o DEF OpRecs, AllKinds
    <2>3. QED
      BY <1>15, <1>q, <1>o, <2>1, <2>2, CallTypes, CatchTypes, ReturnTypes, RunTypes,
         BeginStopTypes DEF VaultSaved, At
  <1>16. CASE StatusSet(p)
    <2>1. [op[p] EXCEPT !.pc = "readRun"] \in OpRecs
      BY <1>m DEF DbPcs
    <2>2. row' \in Rows
      BY <1>16, <1>o DEF StatusSet, Reconnected, Rows, Status
    <2>3. QED
      BY <1>16, <1>q, <2>1, <2>2, CallTypes, CatchTypes DEF StatusSet, Reconnected, At
  <1>c. Upsert(p) \/ row' = NewRow => row' \in Rows
    <2>1. ASSUME NEW r \in Nat, NEW b \in BOOLEAN
          PROVE  [row EXCEPT !.status = "connecting", !.roots = r, !.rest = b] \in Rows
      BY <1>o DEF Rows, Status
    <2>2. ASSUME NEW g \in Nat, NEW r \in Nat
          PROVE  [InitRow("connecting") EXCEPT !.gen = g, !.roots = r] \in Rows
      BY InitRowType DEF Rows, Status
    <2>3. /\ row.gen + 1 \in Nat /\ row.roots + 1 \in Nat
          /\ row.roots \in Nat /\ op[p].snap.roots \in Nat
      BY <1>o DEF Rows
    <2>4. CASE row' = NewRow
      BY <2>2, <2>3, <2>4 DEF NewRow
    <2>5. CASE Upsert(p)
      <3>1. ConnectRoots(p) \subseteq Nat
        BY <2>3 DEF ConnectRoots
      <3>2. QED
        BY <2>1, <2>5, <3>1 DEF Upsert
    <2>6. QED
      BY <2>4, <2>5
  <1>17. CASE CreateAccount(p)
    <2>1. row' \in Rows
      BY <1>17, <1>c DEF CreateAccount
    <2>2. [op[p] EXCEPT !.snap = row', !.own = ~row.exists] \in OpRecs
      BY <1>o, <2>1 DEF OpRecs, Rows
    <2>3. QED
      BY <1>17, <1>q, <2>1, <2>2, BeginStopTypes DEF CreateAccount, At
  <1>18. CASE RemoveAccount(p)
    <2>1. row' \in Rows
      BY <1>18, <1>o DEF RemoveAccount, Rows
    <2>2. QED
      BY <1>18, <1>q, <2>1, ReturnTypes DEF RemoveAccount, At
  <1>19. CASE RootCreated(p)
    <2>1. row' \in Rows
      BY <1>19, <1>c, <1>o DEF RootCreated
    <2>2. Return(p, Tail(dbq)) /\ Served(p) /\ UNCHANGED <<pauseIntent, transIntent, flow, registered>>
      BY <1>19 DEF RootCreated, At
    <2>3. Run(row', pauseIntent, transIntent) \/ NoRun
      BY <1>19 DEF RootCreated
    <2>4. QED
      BY <1>q, <2>1, <2>2, <2>3, RunTypes, NoRunTypes, ReturnTypes
  <1>20. QED
    BY <1>1, <1>2, <1>3, <1>4, <1>5, <1>6, <1>7, <1>8, <1>9, <1>10, <1>11, <1>12,
       <1>13, <1>14, <1>15, <1>16, <1>17, <1>18, <1>19 DEF OpNext

LEMMA TypesLoop ==
  ASSUME Types, NEW l \in Loops, LoopNext(l) PROVE Types'
  <1> USE DEF Types
  <1>r. loop[l] \in LoopRecs /\ row \in Rows /\ Fresh(l) \in Rows
    BY DEF LoopRecs, Fresh
  <1>n. /\ loop[l].gen \in Nat /\ loop[l].pos \in Nat /\ loop[l].retries \in Nat
        /\ loop[l].st \in Status /\ Next1(loop[l].pos) \in Nat
        /\ Fresh(l).gen \in Nat /\ Fresh(l).pos \in Nat
    BY <1>r DEF LoopRecs, Rows, Next1
  <1>q. /\ dbq \in Seq(Procs \cup Loops) /\ Append(dbq, l) \in Seq(Procs \cup Loops)
        /\ Served(l) => /\ Tail(dbq) \in Seq(Procs \cup Loops)
                        /\ Append(Tail(dbq), l) \in Seq(Procs \cup Loops)
    BY QueueTypes DEF Served
  <1>k. {"read", "pull", "drain", "commit", "settle", "caught", "rejected", "sleep",
         "liveRead", "liveCommit", "errRead", "errCommit"} \subseteq LoopPcs
    BY DEF LoopPcs
  <1>1. CASE PrevStopped(l)
    BY <1>1, <1>q, <1>k, FinishTypes, LoopStepTypes DEF PrevStopped, Quiet
  <1>2. CASE Entry(l)
    <2>1. ASSUME NEW rec \in BOOLEAN
          PROVE  [loop EXCEPT ![l].pc = "pull", ![l].gen = Fresh(l).gen,
                              ![l].pos = Fresh(l).pos, ![l].rec = rec] \in [Loops -> LoopRecs]
      <3> DEFINE f == [loop EXCEPT ![l].pc = "pull", ![l].gen = Fresh(l).gen,
                                   ![l].pos = Fresh(l).pos]
      <3>1. f \in [Loops -> LoopRecs]
        BY <1>n, <1>k, LoopCursorTypes
      <3> HIDE DEF f
      <3>2. [f EXCEPT ![l].rec = rec] \in [Loops -> LoopRecs]
        BY <3>1, LoopFieldTypes
      <3>3. QED
        BY <3>2 DEF f
    <2>2. QED
      BY <1>2, <1>q, <2>1, FinishTypes DEF Entry, Quiet
  <1>3. CASE Pull(l)
    BY <1>3, <1>q, <1>k, LoopStepTypes DEF Pull, Quiet
  <1>4. CASE SubCommit(l)
    <2>1. PICK s \in {"backfilling", "live"}, last \in BOOLEAN :
            LET pos  == IF last THEN Next1(loop[l].pos) ELSE loop[l].pos
                goon == ~last /\ ~loop[l].aborted
                pc   == IF goon THEN "commit" ELSE IF last THEN "pull" ELSE "caught"
            IN /\ row' = StatusCommit(s, loop[l].gen, pos)
               /\ loop' = [loop EXCEPT ![l].pc = pc, ![l].pos = pos,
                             ![l].retries = IF last THEN 0 ELSE loop[l].retries]
               /\ dbq' = IF goon THEN Append(Tail(dbq), l) ELSE Tail(dbq)
      BY <1>4 DEF SubCommit
    <2> DEFINE pos  == IF last THEN Next1(loop[l].pos) ELSE loop[l].pos
    <2>2. pos \in Nat /\ s \in Status
      BY <1>n DEF Status
    <2>3. row' \in Rows
      BY <1>n, <2>1, <2>2, StatusCommitType
    <2> DEFINE n == IF last THEN 0 ELSE loop[l].retries
               pc == IF ~last /\ ~loop[l].aborted THEN "commit"
                     ELSE IF last THEN "pull" ELSE "caught"
    <2>4. loop' \in [Loops -> LoopRecs]
      <3>1. n \in Nat /\ pc \in LoopPcs
        BY <1>n, <1>k
      <3>2. loop' = [loop EXCEPT ![l].pc = pc, ![l].pos = pos, ![l].retries = n]
        BY <2>1
      <3> HIDE DEF n, pc, pos
      <3>3. QED
        BY <1>n, <2>2, <3>1, <3>2, LoopCursorTypes
    <2>5. dbq' \in Seq(Procs \cup Loops)
      BY <1>4, <1>q, <2>1 DEF SubCommit
    <2>6. QED
      BY <1>4, <2>3, <2>4, <2>5 DEF SubCommit, Quiet
  <1>5. CASE Settle(l)
    BY <1>5, <1>q, <1>k, FinishTypes, LoopStepTypes DEF Settle, Quiet
  <1>6. ASSUME NEW from, NEW to \in LoopPcs, ReadCursor(l, from, to) PROVE Types'
    <2>1. [loop EXCEPT ![l].pc = to, ![l].gen = Fresh(l).gen, ![l].pos = Fresh(l).pos]
            \in [Loops -> LoopRecs]
      BY <1>n, LoopCursorTypes
    <2>2. QED
      BY <1>6, <1>q, <2>1 DEF ReadCursor, Quiet
  <1>7. CASE LiveCommit(l)
    <2>1. StatusCommit("live", loop[l].gen, loop[l].pos) \in Rows
      BY <1>n, StatusCommitType DEF Status
    <2>2. QED
      BY <1>7, <1>q, <2>1, FinishTypes DEF LiveCommit, Quiet
  <1>8. CASE CallFailed(l)
    <2>1. StatusCommit("live", loop[l].gen, Next1(loop[l].pos)) \in Rows
      BY <1>n, StatusCommitType DEF Status
    <2>2. StatusCommit("live", loop[l].gen, loop[l].pos) \in Rows
      BY <1>n, StatusCommitType DEF Status
    <2>3. QED
      BY <1>8, <1>q, <1>k, <2>1, <2>2, LoopStepTypes DEF CallFailed, Quiet
  <1>9. CASE Caught(l)
    <2>1. ASSUME Retry(l)
          PROVE  loop' \in [Loops -> LoopRecs] /\ dbq' \in Seq(Procs \cup Loops)
      <3>1. [loop EXCEPT ![l].pc = "errRead", ![l].st = "error"] \in [Loops -> LoopRecs]
        BY <1>k, LoopErrTypes DEF Status
      <3>2. loop[l].retries + 1 \in Nat
        BY <1>n
      <3>3. [loop EXCEPT ![l].pc = "sleep", ![l].retries = loop[l].retries + 1]
              \in [Loops -> LoopRecs]
        BY <1>k, <3>2, LoopRetriesTypes
      <3>4. QED
        BY <2>1, <3>1, <3>3, <1>q DEF Retry
    <2>2. ASSUME NEW s \in {"needsReauth", "error"}
          PROVE  [loop EXCEPT ![l].pc = "errRead", ![l].st = s] \in [Loops -> LoopRecs]
      BY <1>k, LoopErrTypes DEF Status
    <2>3. QED
      BY <1>9, <1>q, <2>1, <2>2, FinishTypes DEF Caught, Quiet
  <1>10. CASE ErrCommit(l)
    <2>1. StatusCommit(loop[l].st, loop[l].gen, loop[l].pos) \in Rows
      BY <1>n, StatusCommitType
    <2>2. QED
      BY <1>10, <1>q, <2>1, FinishTypes DEF ErrCommit, Quiet
  <1>11. CASE Sleep(l)
    BY <1>11, <1>q, <1>k, FinishTypes, LoopStepTypes DEF Sleep, Quiet
  <1>12. CASE Drain(l)
    BY <1>12, <1>q, FinishTypes DEF Drain, Quiet
  <1>13. CASE PassEnds(l)
    BY ZenonT(60), <1>13 DEF PassEnds, Quiet, LoopRecs
  <1>14. QED
    BY <1>1, <1>2, <1>3, <1>4, <1>5, <1>6, <1>7, <1>8, <1>9, <1>10, <1>11, <1>12, <1>13,
       <1>k DEF LoopNext, LiveRead, ErrRead

LEMMA TypesCrash ==
  ASSUME Types, NEW p \in Procs, Crash(p) PROVE Types'
  <1>1. [Idle EXCEPT !.kind = "boot", !.pc = "readRun"] \in OpRecs
    BY IdleType DEF OpRecs, OpPcs, DbPcs
  <1>2. op' \in [Procs -> OpRecs]
    BY <1>1, IdleType DEF Crash
  <1>3. loop' \in [Loops -> LoopRecs]
    BY NoLoopType DEF Crash
  <1>4. dbq' \in Seq(Procs \cup Loops)
    BY DEF Crash
  <1>5. QED
    BY <1>2, <1>3, <1>4 DEF Crash, Types

LEMMA TypesNext == Types /\ [Next]_vars => Types'
  <1> SUFFICES ASSUME Types, [Next]_vars PROVE Types'
    OBVIOUS
  <1>1. CASE \E p \in Procs : Watchdog(p)
    BY <1>1 DEF Watchdog, Types
  <1>2. CASE Respawn
    BY <1>2 DEF Respawn, Types
  <1>3. CASE UNCHANGED vars
    BY <1>3 DEF vars, Types
  <1>4. QED
    BY <1>1, <1>2, <1>3, TypesStart, TypesUser, TypesOp, TypesLoop, TypesCrash DEF Next

\* Type correctness: whatever operations overlap, fail or crash, the account
\* row, the loops, the map entry, the intents, the flow slot, the callers and
\* the DB queue keep their types.
THEOREM TypeCorrect == Spec => []Types
  BY TypesInit, TypesNext, PTL DEF Spec

----------------------------------------------------------------------------
(***************************************************************************)
(* The chain of loops.  LoopChain is inductive together with the fact that *)
(* run() numbers its loops in order.  Only three things ever touch it: a   *)
(* loop moves (StepOf), run() installs a new loop, and stop() drops the    *)
(* map entry.                                                              *)
(***************************************************************************)
Numbered ==
  /\ running # None => running <= runs
  /\ \A l \in Loops : l > runs => loop[l].pc = "unused"
LoopInv == Types /\ registered /\ Numbered /\ LoopChain

Frame(k) == loop'[k].pc = loop[k].pc /\ loop'[k].prev = loop[k].prev
\* At most loop l moves; it leaves waitPrev only when its predecessor is over.
StepOf(l) ==
  /\ UNCHANGED <<runs, running>>
  /\ \A k \in Loops \ {l} : Frame(k)
  /\ \/ Frame(l)
     \/ /\ Live(l) /\ loop'[l].pc \notin {"waitPrev", "unused"}
        /\ loop[l].pc = "waitPrev" => Settled(loop[l].prev)

LEMMA StepKeepsChain ==
  ASSUME LoopInv, Types', NEW l \in Loops, StepOf(l)
  PROVE  (Numbered /\ LoopChain)'
  <1> USE LoopsAreNats DEF LoopInv, Ended, Live
  <1>1. CASE \A k \in Loops : Frame(k)
    <2>1. /\ UNCHANGED <<runs, running>>
          /\ \A k \in Loops : loop'[k].pc = loop[k].pc /\ loop'[k].prev = loop[k].prev
      BY <1>1 DEF StepOf, Frame
    <2>2. Numbered'
      BY <2>1 DEF Numbered
    <2>3. NoOrphan'
      BY <2>1 DEF LoopChain, NoOrphan, Types
    <2>4. ASSUME NEW a \in Loops, NEW b \in Loops, Live(a)', Live(b)', a < b
          PROVE  WaitsFor(a, b)'
      <3>1. WaitsFor(a, b)
        BY <2>1, <2>4 DEF LoopChain
      <3>2. QED
        BY <2>1, <3>1 DEF WaitsFor
    <2>5. QED
      BY <2>2, <2>3, <2>4 DEF LoopChain
  <1>2. CASE /\ \A k \in Loops \ {l} : Frame(k)
             /\ Live(l) /\ loop'[l].pc \notin {"waitPrev", "unused"}
             /\ loop[l].pc = "waitPrev" => Settled(loop[l].prev)
    \* l is the oldest live loop: an older one would make l wait for a live one.
    <2>1. \A a \in Loops : Live(a) => l <= a
      <3> SUFFICES ASSUME NEW a \in Loops, Live(a), a < l PROVE FALSE
        OBVIOUS
      <3>1. WaitsFor(a, l)
        BY <1>2 DEF LoopChain
      <3>2. QED
        BY <1>2, <3>1 DEF WaitsFor, Settled
    <2>2. \A k \in Loops : Live(k)' => Live(k)
      BY <1>2 DEF Frame
    <2>3. UNCHANGED <<runs, running>>
      BY DEF StepOf
    <2>4. Numbered'
      BY <1>2, <2>3 DEF Numbered, Frame, Types
    <2>5. NoOrphan'
      <3> SUFFICES ASSUME NEW a \in Loops, Live(a)'
                   PROVE  (running # None /\ Live(running) /\ a <= running)'
        BY DEF NoOrphan
      <3>1. running # None /\ Live(running) /\ a <= running /\ running \in Loops
        BY <2>2 DEF LoopChain, NoOrphan, Types
      <3>2. l <= a
        BY <2>1, <2>2
      <3>3. QED
        BY <1>2, <2>3, <3>1, <3>2 DEF Frame
    <2>6. ASSUME NEW a \in Loops, NEW b \in Loops, Live(a)', Live(b)', a < b
          PROVE  WaitsFor(a, b)'
      <3>1. WaitsFor(a, b) /\ l <= a
        BY <2>1, <2>2, <2>6 DEF LoopChain
      <3>2. Frame(b)
        BY <1>2, <2>6, <3>1
      <3> DEFINE q == loop[b].prev
      <3>3. q \in Loops /\ q \in Nat /\ a \in Nat /\ Live(q) /\ a <= q
        BY <3>1 DEF WaitsFor
      <3>4. loop'[q].pc \notin Ended
        <4>1. CASE q = l
          <5>1. a = l
            BY <3>1, <3>3, <4>1
          <5>2. QED
            BY <2>6, <4>1, <5>1
        <4>2. CASE q # l
          BY <1>2, <3>3, <4>2 DEF Frame
        <4>3. QED
          BY <4>1, <4>2
      <3>5. loop'[b].prev = q /\ loop'[b].pc = "waitPrev"
        BY <3>1, <3>2 DEF Frame, WaitsFor
      <3>6. QED
        BY <3>1, <3>4, <3>5 DEF WaitsFor
    <2>7. QED
      BY <2>4, <2>5, <2>6 DEF LoopChain
  <1>3. QED
    BY <1>1, <1>2 DEF StepOf

\* An abort changes neither where a loop is nor whom it waits for.
LEMMA AbortFrame ==
  ASSUME Types, NEW k \in Loops
  PROVE  Abort(running)[k].pc = loop[k].pc /\ Abort(running)[k].prev = loop[k].prev
  <1>1. CASE running = None
    BY <1>1 DEF Abort
  <1>2. CASE running # None
    <2>1. running \in Loops /\ loop[running] \in LoopRecs
      BY <1>2 DEF Types
    <2>2. QED
      BY <1>2, <2>1 DEF Abort, Types, LoopRecs
  <1>3. QED
    BY <1>1, <1>2

LEMMA InstallKeepsChain ==
  ASSUME LoopInv, Types', NEW acc \in Rows, Install(acc)
  PROVE  (Numbered /\ LoopChain)'
  <1> USE LoopsAreNats DEF LoopInv
  <1> DEFINE n == runs + 1
  <1>1. n \in Loops /\ n > runs /\ running' = n /\ runs' = n
    BY BoundsAssumption DEF Install, Types, Loops
  <1>2. loop'[n].pc = "waitPrev" /\ loop'[n].prev = running
    BY <1>1, AbortType, NoLoopType DEF Install, NewLoop, LoopRecs
  <1>3. \A k \in Loops \ {n} : Frame(k)
    BY <1>1, AbortType, AbortFrame DEF Install, Frame
  <1>4. loop[n].pc = "unused"
    BY <1>1 DEF Numbered
  <1> HIDE DEF n
  <1>5. \A k \in Loops : Live(k)' => k = n \/ Live(k)
    BY <1>3 DEF Live, Frame
  <1>6. \A k \in Loops : Live(k) => /\ running \in Loops /\ Live(running)
                                    /\ k <= running /\ running < n
    BY <1>1 DEF LoopChain, NoOrphan, Numbered, Types
  <1>n. ASSUME NEW k \in Loops, Live(k)' PROVE k <= n
    <2>1. n \in Nat /\ k \in Nat
      BY <1>1
    <2>2. CASE k = n
      BY <2>1, <2>2
    <2>3. CASE Live(k)
      <3>1. running \in Nat /\ k <= running /\ running < n
        BY <1>6, <2>3
      <3>2. QED
        BY <2>1, <3>1
    <2>4. QED
      BY <1>5, <1>n, <2>2, <2>3
  <1>7. Numbered'
    BY <1>1, <1>3 DEF Numbered, Frame, Types
  <1>8. NoOrphan'
    <2> SUFFICES ASSUME NEW k \in Loops, Live(k)'
                 PROVE  (running # None /\ Live(running) /\ k <= running)'
      BY DEF NoOrphan
    <2>1. k <= n
      BY <1>n
    <2>2. loop'[n].pc \notin Ended
      BY <1>2 DEF Ended
    <2>3. QED
      BY <1>1, <2>1, <2>2 DEF Live
  <1>9. ASSUME NEW a \in Loops, NEW b \in Loops, Live(a)', Live(b)', a < b
        PROVE  WaitsFor(a, b)'
    <2>1. Live(a) /\ a # n
      <3>1. b <= n
        BY <1>n, <1>9
      <3>2. a # n
        BY <1>1, <1>9, <3>1
      <3>3. QED
        BY <1>5, <1>9, <3>2
    <2>2. CASE b = n
      <3>1. running \in Loops /\ Live(running) /\ a <= running /\ running < n
        BY <2>1, <1>6
      <3>2. running # n
        BY <1>1, <3>1
      <3>3. loop'[running].pc \notin Ended
        BY <1>3, <3>1, <3>2 DEF Frame, Live
      <3>4. QED
        BY <1>2, <2>2, <3>1, <3>3 DEF WaitsFor, Live
    <2>3. CASE b # n
      <3>1. Live(b) /\ WaitsFor(a, b)
        BY <1>5, <1>9, <2>1, <2>3 DEF LoopChain
      <3>2. loop[b].prev # n /\ loop[b].prev \in Loops
        BY <1>4, <3>1 DEF WaitsFor, Live, Ended
      <3>3. Frame(b) /\ Frame(loop[b].prev)
        BY <1>3, <2>3, <3>2
      <3>4. QED
        BY <3>1, <3>2, <3>3 DEF WaitsFor, Frame, Live
    <2>4. QED
      BY <2>2, <2>3
  <1>10. QED
    BY <1>7, <1>8, <1>9 DEF LoopChain

\* Whichever way run() goes; a source that is registered excludes the settled
\* handle that would take the map entry from a live loop.
LEMMA RunKeepsChain ==
  ASSUME LoopInv, Types', NEW acc \in Rows, NEW pi, NEW ti, Run(acc, pi, ti) \/ NoRun
  PROVE  (Numbered /\ LoopChain)'
  <1>1. CASE UNCHANGED <<runs, running, loop>>
    BY <1>1 DEF LoopInv, Numbered, LoopChain, NoOrphan, WaitsFor, Live
  <1>2. CASE Install(acc)
    BY <1>2, InstallKeepsChain
  <1>3. QED
    BY <1>1, <1>2 DEF Run, NoRun, LoopInv

LEMMA QuietKeepsChain ==
  ASSUME LoopInv, UNCHANGED <<runs, running>>, loop' = loop \/ loop' = Abort(running)
  PROVE  (Numbered /\ LoopChain)'
  <1>1. CASE loop' = loop
    BY <1>1 DEF LoopInv, Numbered, LoopChain, NoOrphan, WaitsFor, Live
  <1>2. CASE loop' = Abort(running)
    <2>1. Types /\ \A k \in Loops : loop'[k].pc = loop[k].pc /\ loop'[k].prev = loop[k].prev
      BY <1>2, AbortFrame DEF LoopInv
    <2>2. Numbered'
      BY <2>1 DEF LoopInv, Numbered
    <2>3. NoOrphan'
      BY <2>1 DEF LoopInv, LoopChain, NoOrphan, Live, Types
    <2>4. ASSUME NEW a \in Loops, NEW b \in Loops, Live(a)', Live(b)', a < b
          PROVE  WaitsFor(a, b)'
      <3>1. WaitsFor(a, b)
        BY <2>1, <2>4 DEF LoopInv, LoopChain, Live
      <3>2. QED
        BY <2>1, <3>1 DEF WaitsFor, Live
    <2>5. QED
      BY <2>2, <2>3, <2>4 DEF LoopChain
  <1>3. QED
    BY <1>1, <1>2

\* stop() drops the map entry of a settled handle; no loop is alive then, or
\* the entry is a newer one and stays.
LEMMA StopKeepsChain ==
  ASSUME LoopInv, NEW p \in Procs, StopDone(p)
  PROVE  (Numbered /\ LoopChain)'
  <1>1. CASE running' = running
    BY <1>1 DEF StopDone, LoopInv, Numbered, LoopChain, NoOrphan, WaitsFor, Live
  <1>2. CASE running' # running
    <2>1. running' = None /\ running # None /\ ~Live(running) /\ UNCHANGED <<loop, runs>>
      BY <1>2 DEF StopDone, Settled
    <2>2. \A l \in Loops : ~Live(l)
      BY <2>1 DEF LoopInv, LoopChain, NoOrphan
    <2>3. \A l \in Loops : ~Live(l)'
      BY <2>1, <2>2 DEF Live
    <2>4. QED
      BY <2>1, <2>3 DEF LoopInv, Numbered, LoopChain, NoOrphan
  <1>3. QED
    BY <1>1, <1>2

LEMMA LoopKeepsChain ==
  ASSUME LoopInv, Types', NEW l \in Loops, LoopNext(l)
  PROVE  (Numbered /\ LoopChain)'
  <1> USE DEF LoopInv, Types
  <1>m. ASSUME NEW pc \in LoopPcs \ {"waitPrev", "unused"}, UNCHANGED <<runs, running>>,
               Live(l), loop[l].pc = "waitPrev" => Settled(loop[l].prev),
               loop'[l].pc = pc, \A k \in Loops \ {l} : loop'[k] = loop[k]
        PROVE  StepOf(l)
    BY <1>m DEF StepOf, Frame
  <1>f. ASSUME NEW q, Finish(l, q)
        PROVE  loop'[l].pc = "done" /\ \A k \in Loops \ {l} : loop'[k] = loop[k]
    BY <1>f, NoLoopType DEF Finish, LoopRecs
  <1>s. ASSUME NEW q, NEW pc, LoopStep(l, pc, q)
        PROVE  loop'[l].pc = pc /\ \A k \in Loops \ {l} : loop'[k] = loop[k]
    BY <1>s DEF LoopStep, LoopRecs
  <1>k. {"read", "pull", "drain", "commit", "settle", "caught", "rejected", "sleep",
         "liveRead", "liveCommit", "errRead", "errCommit", "done"}
          \subseteq LoopPcs \ {"waitPrev", "unused"}
    BY DEF LoopPcs
  <1>1. CASE PrevStopped(l)
    <2>1. loop'[l].pc \in {"done", "read"} /\ \A k \in Loops \ {l} : loop'[k] = loop[k]
      BY <1>1, <1>f, <1>s DEF PrevStopped
    <2>2. StepOf(l)
      BY <1>1, <1>m, <1>k, <2>1 DEF PrevStopped, Quiet, Live, Ended
    <2>3. QED
      BY <2>2, StepKeepsChain
  <1>2. CASE PassEnds(l)
    <2>1. loop'[l].pc = loop[l].pc /\ loop'[l].prev = loop[l].prev
      BY <1>2 DEF PassEnds, LoopRecs
    <2>2. \A k \in Loops \ {l} : loop'[k] = loop[k]
      BY <1>2 DEF PassEnds
    <2>3. StepOf(l)
      BY <1>2, <2>1, <2>2 DEF PassEnds, Quiet, StepOf, Frame
    <2>4. QED
      BY <2>3, StepKeepsChain
  \* Every other step starts past waitPrev and stays there, or ends the loop.
  <1> DEFINE Later == /\ loop[l].pc \notin {"unused", "done", "waitPrev"}
                      /\ loop'[l].pc \in LoopPcs \ {"waitPrev", "unused"}
                      /\ \A k \in Loops \ {l} : loop'[k] = loop[k]
                      /\ UNCHANGED <<runs, running>>
  <1>3. ASSUME Later PROVE (Numbered /\ LoopChain)'
    <2>1. StepOf(l)
      BY <1>3, <1>m DEF Live, Ended
    <2>2. QED
      BY <2>1, StepKeepsChain
  <1>4. CASE Entry(l)
    BY <1>4, <1>3, <1>f, <1>k DEF Entry, Quiet, LoopRecs
  <1>5. CASE Pull(l)
    BY <1>5, <1>3, <1>s, <1>k DEF Pull, Quiet
  <1>6. CASE SubCommit(l)
    BY <1>6, <1>3, <1>k DEF SubCommit, Quiet, LoopRecs
  <1>7. CASE Settle(l)
    BY <1>7, <1>3, <1>f, <1>s, <1>k DEF Settle, Quiet
  <1>8. ASSUME NEW from \in {"liveRead", "errRead"}, NEW to \in {"liveCommit", "errCommit"},
               ReadCursor(l, from, to)
        PROVE  (Numbered /\ LoopChain)'
    <2>1. loop'[l].pc = to /\ \A k \in Loops \ {l} : loop'[k] = loop[k]
      BY <1>8 DEF ReadCursor, LoopRecs
    <2>2. QED
      BY <1>8, <1>3, <1>k, <2>1 DEF ReadCursor, Quiet
  <1>9. CASE LiveCommit(l)
    BY <1>9, <1>3, <1>f, <1>k DEF LiveCommit, Quiet
  <1>10. CASE CallFailed(l)
    BY <1>10, <1>3, <1>s, <1>k DEF CallFailed, Quiet
  <1>11. CASE Caught(l)
    <2>1. ASSUME NEW s, loop' = [loop EXCEPT ![l].pc = "errRead", ![l].st = s]
          PROVE  loop'[l].pc = "errRead" /\ \A k \in Loops \ {l} : loop'[k] = loop[k]
      BY <2>1 DEF LoopRecs
    <2>2. ASSUME NEW n, loop' = [loop EXCEPT ![l].pc = "sleep", ![l].retries = n]
          PROVE  loop'[l].pc = "sleep" /\ \A k \in Loops \ {l} : loop'[k] = loop[k]
      BY <2>2 DEF LoopRecs
    <2>3. /\ loop'[l].pc \in {"done", "errRead", "sleep"}
          /\ \A k \in Loops \ {l} : loop'[k] = loop[k]
      BY <1>11, <1>f, <2>1, <2>2 DEF Caught, Retry
    <2>4. QED
      BY <1>11, <1>3, <1>k, <2>3 DEF Caught, Quiet
  <1>12. CASE ErrCommit(l)
    BY <1>12, <1>3, <1>f, <1>k DEF ErrCommit, Quiet
  <1>13. CASE Sleep(l)
    BY <1>13, <1>3, <1>f, <1>s, <1>k DEF Sleep, Quiet
  <1>14. CASE Drain(l)
    BY <1>14, <1>3, <1>f, <1>k DEF Drain, Quiet
  <1>15. QED
    BY <1>1, <1>2, <1>4, <1>5, <1>6, <1>7, <1>8, <1>9, <1>10, <1>11, <1>12, <1>13, <1>14
       DEF LoopNext, LiveRead, ErrRead

LEMMA OpKeepsChain ==
  ASSUME LoopInv, Types', NEW p \in Procs, OpNext(p)
  PROVE  (Numbered /\ LoopChain)'
  <1>o. row \in Rows /\ op[p].snap \in Rows
    BY DEF LoopInv, Types, OpRecs
  <1>1. CASE StopDone(p)
    BY <1>1, StopKeepsChain
  <1>2. CASE ReadThenRun(p) \/ ScopeRestart(p) \/ Restore(p)
    BY <1>2, <1>o, RunKeepsChain, QuietKeepsChain DEF ReadThenRun, ScopeRestart, Restore, NoRun
  <1>3. CASE ResumeCommit(p)
    <2>1. [op[p].snap EXCEPT !.status = "connecting"] \in Rows
      BY <1>o DEF Rows, Status
    <2>2. QED
      BY <1>3, <1>o, <2>1, RunKeepsChain DEF ResumeCommit
  <1>4. CASE VaultSaved(p)
    <2>1. \/ UNCHANGED <<loop, runs, running>>
          \/ Run(op[p].snap, pauseIntent, transIntent)
          \/ loop' = Abort(running) /\ UNCHANGED <<runs, running>>
      BY <1>4 DEF VaultSaved, BeginStop
    <2>2. QED
      BY <1>o, <2>1, RunKeepsChain, QuietKeepsChain
  <1>5. CASE CadenceSaved(p) \/ ConfigRead(p) \/ WriteConfig(p) \/ PauseRead(p)
             \/ PauseCommit(p) \/ ResumeRead(p) \/ ScopeTx(p) \/ StatusSet(p)
             \/ RemoveAccount(p)
    <2>1. UNCHANGED <<loop, runs, running>>
      BY <1>5 DEF CadenceSaved, ConfigRead, WriteConfig, PauseRead, PauseCommit,
         ResumeRead, ScopeTx, StatusSet, RemoveAccount
    <2>2. QED
      BY <2>1, QuietKeepsChain
  <1>6. CASE Opened(p) \/ Rechecked(p) \/ CreateAccount(p)
    <2>1. UNCHANGED <<runs, running>> /\ (loop' = loop \/ loop' = Abort(running))
      BY <1>6 DEF Opened, Rechecked, CreateAccount, Quiesce, BeginStop
    <2>2. QED
      BY <2>1, QuietKeepsChain
  <1>7. CASE RootCreated(p)
    <2>1. Run(row', pauseIntent, transIntent) \/ NoRun
      BY <1>7 DEF RootCreated
    <2>2. row' \in Rows
      BY DEF Types
    <2>3. QED
      BY <2>1, <2>2, RunKeepsChain, QuietKeepsChain DEF NoRun
  <1>8. QED
    BY <1>1, <1>2, <1>3, <1>4, <1>5, <1>6, <1>7 DEF OpNext

LEMMA StartKeepsChain ==
  ASSUME LoopInv, NEW p \in Procs, OpStart(p) \/ UserStep(p)
  PROVE  (Numbered /\ LoopChain)'
  <1>1. UNCHANGED <<runs, running>> /\ (loop' = loop \/ loop' = Abort(running))
    BY DEF OpStart, UserStep, Tick, SyncNow, SetCadence, UpdateConfig, SetOption, UpdateOutbound, Pause,
       Resume, Installed, StartFlow, EnsureRoot, Connect, Remove, Picked, SignedIn,
       FlowAbandoned, Quiesce, BeginStop
  <1>2. QED
    BY <1>1, QuietKeepsChain

LEMMA CrashKeepsChain ==
  ASSUME LoopInv, NEW p \in Procs, Crash(p)
  PROVE  (Numbered /\ LoopChain)'
  <1>1. running' = None /\ \A l \in Loops : loop'[l].pc = "unused"
    BY DEF Crash, NoLoop
  <1>2. \A l \in Loops : ~Live(l)'
    BY <1>1 DEF Live, Ended
  <1>3. QED
    BY <1>1, <1>2 DEF Numbered, LoopChain, NoOrphan

\* No action but Respawn changes the registry.
LEMMA StaysRegistered ==
  ASSUME "respawn" \notin Kinds, registered, [Next]_vars
  PROVE  registered'
  <1>1. ASSUME NEW p \in Procs, OpStart(p) \/ UserStep(p) PROVE registered'
    BY <1>1 DEF OpStart, UserStep, Tick, SyncNow, SetCadence, UpdateConfig, SetOption, UpdateOutbound, Pause,
       Resume, Installed, StartFlow, EnsureRoot, Connect, Remove, Picked, SignedIn,
       FlowAbandoned
  <1>2. ASSUME NEW p \in Procs, OpNext(p) PROVE registered'
    BY <1>2 DEF OpNext, StopDone, CadenceSaved, ReadThenRun, ConfigRead, WriteConfig,
       PauseRead, PauseCommit, ResumeRead, ResumeCommit, Opened, Rechecked, ScopeTx,
       ScopeRestart, Restore, VaultSaved, StatusSet, CreateAccount, RootCreated, RemoveAccount
  <1>3. ASSUME NEW l \in Loops, LoopNext(l) PROVE registered'
    BY <1>3 DEF LoopNext, PrevStopped, Entry, Pull, SubCommit, Settle, LiveRead, ErrRead,
       ReadCursor, LiveCommit, CallFailed, Caught, ErrCommit, Sleep, Drain, PassEnds, Quiet
  <1>4. ASSUME NEW p \in Procs, Watchdog(p) \/ Crash(p) PROVE registered'
    BY <1>4 DEF Watchdog, Crash
  <1>5. QED
    BY <1>1, <1>2, <1>3, <1>4 DEF Next, Respawn, vars

LEMMA LoopInvInit == Init => LoopInv
  <1> SUFFICES ASSUME Init PROVE LoopInv
    OBVIOUS
  <1>1. running = None /\ \A l \in Loops : loop[l].pc = "unused"
    BY DEF Init, NoLoop
  <1>2. Numbered /\ LoopChain
    BY <1>1 DEF Numbered, LoopChain, NoOrphan, Live, Ended
  <1>3. QED
    BY <1>2, TypesInit DEF Init, LoopInv

LEMMA LoopInvNext ==
  ASSUME "respawn" \notin Kinds, LoopInv, [Next]_vars
  PROVE  LoopInv'
  <1>1. Types' /\ registered'
    BY TypesNext, StaysRegistered DEF LoopInv
  <1>2. CASE UNCHANGED vars
    BY <1>2, QuietKeepsChain, <1>1 DEF LoopInv, vars
  <1>3. CASE \E p \in Procs : Watchdog(p)
    BY <1>3, <1>1, QuietKeepsChain DEF Watchdog, LoopInv
  <1>4. QED
    BY <1>1, <1>2, <1>3, StartKeepsChain, OpKeepsChain, LoopKeepsChain, CrashKeepsChain
       DEF Next, Respawn, LoopInv

\* The newest of two live loops is still waiting, so they are not both pulling.
LEMMA ChainIsOneLoop == LoopInv => OneLoop
  <1> SUFFICES ASSUME LoopInv, NEW a \in Loops, NEW b \in Loops,
                      Pulling(a), Pulling(b), a # b
               PROVE  FALSE
    BY DEF OneLoop
  <1>1. Live(a) /\ Live(b) /\ loop[a].pc # "waitPrev" /\ loop[b].pc # "waitPrev"
    BY DEF Pulling, Live, Ended
  <1>2. a < b \/ b < a
    BY LoopsAreNats
  <1>3. QED
    BY <1>1, <1>2 DEF LoopInv, LoopChain, WaitsFor

\* engine.run, stop and their callers: while the source stays registered, the
\* loops alive together form a chain that ends in the one the map holds,
\* however starts, stops, transitions, removals and crashes interleave.
THEOREM LoopsFormAChain ==
  ASSUME "respawn" \notin Kinds PROVE Spec => []LoopChain
  <1>1. LoopInv /\ [Next]_vars => LoopInv'
    BY LoopInvNext
  <1>2. LoopInv => LoopChain
    BY DEF LoopInv
  <1>3. QED
    BY <1>1, <1>2, LoopInvInit, PTL DEF Spec

\* One pull loop per account: "a re-run replaces the previous loop, never runs
\* beside it" (engine.ts, run).
THEOREM OneLoopPerAccount ==
  ASSUME "respawn" \notin Kinds PROVE Spec => []OneLoop
  <1>1. LoopInv /\ [Next]_vars => LoopInv'
    BY LoopInvNext
  <1>2. QED
    BY <1>1, LoopInvInit, ChainIsOneLoop, PTL DEF Spec

----------------------------------------------------------------------------
(***************************************************************************)
(* The DB queue.  A caller joins it when it calls the store and leaves it  *)
(* when it is served, so it holds those that wait, each once.  What a step *)
(* does to it is one Turn of one actor.                                    *)
(***************************************************************************)
Actors == Procs \cup Loops
Waits(a) == IF a \in Procs THEN op[a].pc \in DbPcs ELSE loop[a].pc \in LoopDbPcs
Queued(q, a) == \E i \in 1..Len(q) : q[i] = a
Once(q) == \A i, j \in 1..Len(q) : q[i] = q[j] => i = j
QueueOK == Once(dbq) /\ \A a \in Actors : Queued(dbq, a) <=> Waits(a)
Unused == \A l \in Loops : l > runs => loop[l].pc = "unused"
\* Whoever waits for a loop to stop, or is about to, knows what comes next.
Stoppers == {"pause", "manage", "ensure", "reconnect", "connect", "remove", "cancel"}
Stopping(o) == o.pc \in {"waitStop", "recheck", "create"} => o.kind \in Stoppers
Stops == \A p \in Procs : Stopping(op[p])
QueueInv == Types /\ QueueOK /\ Unused /\ Stops

\* Actor a stands in q no more: it has been served, or it did not wait.
Left(a, q) == (q = dbq /\ ~Waits(a)) \/ (q = Tail(dbq) /\ Served(a))
Turn(a, q) ==
  /\ Left(a, q)
  /\ dbq' = IF Waits(a)' THEN Append(q, a) ELSE q
  /\ \A b \in Actors \ {a} : Waits(b)' <=> Waits(b)

(* A caller that joins the queue is not in it yet; one that is served was  *)
(* its head.                                                               *)
LEMMA TurnKeepsQueue ==
  ASSUME QueueInv, NEW a \in Actors, NEW q, Turn(a, q)
  PROVE  QueueOK'
<1>1. q \in Seq(Actors) /\ Once(q) /\ ~Queued(q, a)
      /\ \A b \in Actors \ {a} : Queued(q, b) <=> Waits(b)
  <2>q. dbq \in Seq(Actors)  BY DEF QueueInv, Types, Actors
  <2>1. CASE q = dbq /\ ~Waits(a)
    BY <2>q, <2>1 DEF QueueInv, QueueOK
  <2>2. CASE q = Tail(dbq) /\ Served(a)
    <3>1. /\ dbq # <<>> /\ dbq[1] = a /\ q \in Seq(Actors) /\ Len(dbq) \in Nat \ {0}
          /\ Len(q) = Len(dbq) - 1 /\ \A i \in 1..Len(q) : q[i] = dbq[i + 1]
      BY <2>q, <2>2 DEF Served
    <3>2. \A i, j \in 1..Len(dbq) : dbq[i] = dbq[j] => i = j
      BY DEF QueueInv, QueueOK, Once
    <3>3. \A i \in 1..Len(q) : i + 1 \in 1..Len(dbq) /\ i + 1 # 1
      BY <3>1
    <3>4. Once(q)
      <4> SUFFICES ASSUME NEW i \in 1..Len(q), NEW j \in 1..Len(q), q[i] = q[j] PROVE i = j
        BY DEF Once
      <4>1. i + 1 = j + 1  BY <3>1, <3>2, <3>3
      <4> QED  BY <4>1
    <3>5. ~Queued(q, a)
      <4> SUFFICES ASSUME NEW i \in 1..Len(q), q[i] = a PROVE FALSE  BY DEF Queued
      <4>1. i + 1 = 1  BY <3>1, <3>2, <3>3
      <4> QED  BY <4>1, <3>3
    <3>6. ASSUME NEW b \in Actors \ {a} PROVE Queued(q, b) <=> Queued(dbq, b)
      <4>1. ASSUME Queued(q, b) PROVE Queued(dbq, b)
        BY <4>1, <3>1, <3>3 DEF Queued
      <4>2. ASSUME NEW i \in 1..Len(dbq), dbq[i] = b PROVE Queued(q, b)
        <5>1. i # 1  BY <3>1, <4>2
        <5>2. i - 1 \in 1..Len(q) /\ (i - 1) + 1 = i  BY <5>1, <3>1
        <5>3. q[i - 1] = b  BY <5>2, <3>1, <4>2
        <5> QED  BY <5>2, <5>3 DEF Queued
      <4> QED  BY <4>1, <4>2 DEF Queued
    <3> QED  BY <3>1, <3>4, <3>5, <3>6 DEF QueueInv, QueueOK
  <2> QED  BY <2>1, <2>2 DEF Turn, Left
<1>2. CASE ~Waits(a)'
  <2>1. dbq' = q  BY <1>2 DEF Turn
  <2>2. \A b \in Actors : Queued(dbq', b) <=> Waits(b)'  BY <1>1, <1>2, <2>1 DEF Turn
  <2> QED  BY <1>1, <2>1, <2>2 DEF QueueOK
<1>3. CASE Waits(a)'
  <2> DEFINE r == Append(q, a)
  <2>1. Len(q) \in Nat /\ Len(r) = Len(q) + 1 /\ r[Len(q) + 1] = a /\ \A i \in 1..Len(q) : r[i] = q[i]
    BY <1>1
  <2>2. dbq' = r  BY <1>3 DEF Turn
  <2> HIDE DEF r
  <2>3. \A i \in 1..Len(r) : i \in 1..Len(q) \/ i = Len(q) + 1  BY <2>1
  <2>4. Once(r)
    <3> SUFFICES ASSUME NEW i \in 1..Len(r), NEW j \in 1..Len(r), r[i] = r[j] PROVE i = j
      BY DEF Once
    <3>1. CASE i \in 1..Len(q) /\ j \in 1..Len(q)
      BY <1>1, <2>1, <3>1 DEF Once
    <3>2. CASE i \in 1..Len(q) /\ j = Len(q) + 1
      <4>1. q[i] = a  BY <2>1, <3>2
      <4> QED  BY <4>1, <1>1, <3>2 DEF Queued
    <3>3. CASE i = Len(q) + 1 /\ j \in 1..Len(q)
      <4>1. q[j] = a  BY <2>1, <3>3
      <4> QED  BY <4>1, <1>1, <3>3 DEF Queued
    <3> QED  BY <2>3, <3>1, <3>2, <3>3
  <2>5. Queued(r, a)
    <3>1. Len(q) + 1 \in 1..Len(r)  BY <2>1
    <3> QED  BY <2>1, <3>1 DEF Queued
  <2>6. ASSUME NEW b \in Actors \ {a} PROVE Queued(r, b) <=> Queued(q, b)
    <3>1. ASSUME NEW i \in 1..Len(r), r[i] = b PROVE i \in 1..Len(q) /\ q[i] = b
      BY <2>1, <2>3, <3>1
    <3>2. ASSUME NEW i \in 1..Len(q) PROVE i \in 1..Len(r) /\ r[i] = q[i]
      BY <2>1
    <3> QED  BY <3>1, <3>2 DEF Queued
  <2>7. \A b \in Actors : Queued(dbq', b) <=> Waits(b)'
    BY <1>1, <1>3, <2>2, <2>5, <2>6 DEF Turn
  <2> QED  BY <2>2, <2>4, <2>7 DEF QueueOK
<1> QED  BY <1>2, <1>3

\* The loops stay aside: none joins the queue or leaves it, and those that
\* run() has not reached stay unused.
LoopsAside ==
  /\ runs' \in Nat /\ runs <= runs'
  /\ \A l \in Loops : /\ loop'[l].pc \in LoopDbPcs <=> loop[l].pc \in LoopDbPcs
                      /\ l > runs' => loop'[l].pc = loop[l].pc

(* run() calls are counted from 0.                                         *)
LEMMA RunsAreNats == ASSUME Types PROVE runs \in Nat
  BY BoundsAssumption DEF Types

(* Nothing happens to the loops.                                           *)
LEMMA StillAside == ASSUME Types, UNCHANGED <<loop, runs>> PROVE LoopsAside
  BY RunsAreNats DEF LoopsAside

(* An abort moves no loop (handle.stop).                                   *)
LEMMA AbortAside ==
  ASSUME Types, loop' = Abort(running), UNCHANGED runs
  PROVE  LoopsAside
<1>1. \A l \in Loops : loop'[l].pc = loop[l].pc  BY DEF Abort, Types, LoopRecs
<1> QED  BY <1>1, RunsAreNats DEF LoopsAside

(* run() takes a number no loop has had, so that it cannot be waiting.     *)
LEMMA RunAside ==
  ASSUME QueueInv, NEW acc, NEW pi, NEW ti, Run(acc, pi, ti)
  PROVE  LoopsAside
<1> DEFINE n == runs + 1
<1>1. Types /\ runs \in Nat /\ n \in Nat /\ n > runs  BY RunsAreNats DEF QueueInv
<1>2. CASE UNCHANGED <<runs, running, loop>>
  BY <1>1, <1>2, StillAside
<1>3. CASE Install(acc) \/ InstallSettled
  <2>1. runs' = n /\ n \in Loops /\ runs < n
    BY <1>1, <1>3, BoundsAssumption DEF Install, InstallSettled, Loops
  <2>2. /\ loop'[n].pc \in {"waitPrev", "done"}
        /\ \A l \in Loops \ {n} : loop'[l].pc = loop[l].pc
    <3>1. CASE Install(acc)
      <4>1. Abort(running) \in [Loops -> LoopRecs] /\ \A l \in Loops : Abort(running)[l].pc = loop[l].pc
        BY <1>1, AbortType DEF Abort, Types, LoopRecs
      <4>2. loop' = [Abort(running) EXCEPT ![n] = NewLoop(acc)]  BY <3>1 DEF Install
      <4>3. NewLoop(acc).pc = "waitPrev"  BY DEF NewLoop, NoLoop
      <4> QED  BY <2>1, <4>1, <4>2, <4>3
    <3>2. CASE InstallSettled
      <4>1. loop' = [loop EXCEPT ![n] = [NoLoop EXCEPT !.pc = "done"]]  BY <3>2 DEF InstallSettled
      <4>2. [NoLoop EXCEPT !.pc = "done"].pc = "done"  BY DEF NoLoop
      <4> QED  BY <1>1, <2>1, <4>1, <4>2 DEF Types
    <3> QED  BY <1>3, <3>1, <3>2
  <2>3. loop[n].pc = "unused"  BY <2>1, <1>1 DEF QueueInv, Unused
  <2> HIDE DEF n
  <2>4. ASSUME NEW l \in Loops
        PROVE  /\ loop'[l].pc \in LoopDbPcs <=> loop[l].pc \in LoopDbPcs
               /\ l > runs' => loop'[l].pc = loop[l].pc
    <3>1. CASE l = n
      <4>1. ~(l > runs')  BY <1>1, <2>1, <3>1
      <4> QED  BY <2>2, <2>3, <3>1, <4>1 DEF LoopDbPcs
    <3>2. CASE l # n  BY <2>2, <3>2
    <3> QED  BY <3>1, <3>2
  <2>5. runs' \in Nat /\ runs <= runs'  BY <1>1, <2>1
  <2> QED  BY <2>4, <2>5 DEF LoopsAside
<1> QED  BY <1>2, <1>3 DEF Run

(* A step of a caller that leaves the loops aside.                         *)
LEMMA CallerTurn ==
  ASSUME QueueInv, LoopsAside, NEW p \in Procs, NEW o \in OpRecs, NEW q, Left(p, q),
         op' = [op EXCEPT ![p] = o],
         dbq' = IF o.pc \in DbPcs THEN Append(q, p) ELSE q, Stopping(o)
  PROVE  (QueueOK /\ Unused /\ Stops)'
<1>1. Waits(p)' <=> o.pc \in DbPcs  BY DEF Waits, QueueInv, Types
<1>2. ASSUME NEW b \in Actors \ {p} PROVE Waits(b)' <=> Waits(b)
  <2>1. CASE b \in Procs  BY <2>1 DEF Waits, QueueInv, Types
  <2>2. CASE b \notin Procs
    <3>1. b \in Loops  BY <2>2 DEF Actors
    <3> QED  BY <2>2, <3>1 DEF Waits, LoopsAside
  <2> QED  BY <2>1, <2>2
<1>3. Turn(p, q)  BY <1>1, <1>2 DEF Turn
<1>4. QueueOK'  BY <1>3, TurnKeepsQueue DEF Actors
<1>5. Unused'
  <2> SUFFICES ASSUME NEW l \in Loops, l > runs' PROVE loop'[l].pc = "unused"  BY DEF Unused
  <2>1. l > runs  BY LoopsAreNats, RunsAreNats DEF LoopsAside, QueueInv
  <2> QED  BY <2>1 DEF LoopsAside, QueueInv, Unused
<1>6. Stops'  BY DEF Stops, QueueInv, Types
<1> QED  BY <1>4, <1>5, <1>6

(* A caller waits where its operation says so.                             *)
LEMMA OpTypes == ASSUME QueueInv, NEW p \in Procs PROVE op[p] \in OpRecs /\ op[p].pc \in OpPcs
  BY DEF QueueInv, Types, OpRecs

(* A caller that does not wait, or is served, is not in what is left.      *)
LEMMA Leaves ==
  ASSUME QueueInv, NEW p \in Procs
  PROVE  /\ op[p].pc \notin DbPcs => Left(p, dbq)
         /\ Served(p) => Left(p, Tail(dbq))
  BY DEF Left, Waits

(* The store is called, the operation ends, or it waits for a stop.        *)
LEMMA CallTurn ==
  ASSUME QueueInv, LoopsAside, NEW p \in Procs, NEW o \in OpRecs, o.pc \in DbPcs, NEW q, Left(p, q),
         Call(p, o, q), Stopping(o)
  PROVE  (QueueOK /\ Unused /\ Stops)'
BY CallerTurn DEF Call

(* The operation returns (a handler's early return, a catch, its end).      *)
LEMMA ReturnTurn ==
  ASSUME QueueInv, LoopsAside, NEW p \in Procs, NEW q, Left(p, q), Return(p, q)
  PROVE  (QueueOK /\ Unused /\ Stops)'
<1>1. Idle \in OpRecs /\ Idle.pc \notin DbPcs /\ Stopping(Idle)  BY IdleType DEF Idle, DbPcs, Stopping
<1> QED  BY <1>1, CallerTurn DEF Return

(* await running.get(key)?.stop(): the caller waits for a loop, not for the *)
(* store.                                                                  *)
LEMMA StopTurn ==
  ASSUME QueueInv, UNCHANGED runs, NEW p \in Procs, NEW o \in OpRecs, o.kind \in Stoppers, NEW q,
         Left(p, q), BeginStop(p, o, q)
  PROVE  (QueueOK /\ Unused /\ Stops)'
<1> DEFINE u == [o EXCEPT !.pc = "waitStop", !.h = running, !.was = IsRunning]
<1>1. u \in OpRecs
  BY LoopsAreNats DEF QueueInv, OpRecs, OpPcs, IsRunning, Types
<1>2. u.pc = "waitStop" /\ u.kind \in Stoppers  BY DEF OpRecs
<1>3. LoopsAside  BY AbortAside DEF BeginStop, QueueInv
<1>4. op' = [op EXCEPT ![p] = u] /\ dbq' = q  BY DEF BeginStop
<1> HIDE DEF u
<1>5. u.pc \notin DbPcs /\ Stopping(u)  BY <1>2 DEF DbPcs, Stopping
<1> QED  BY <1>1, <1>3, <1>4, <1>5, CallerTurn

(* An operation begins: it calls the store, or stops the loop first.       *)
LEMMA QueueStart ==
  ASSUME QueueInv, NEW p \in Procs, OpStart(p) PROVE (QueueOK /\ Unused /\ Stops)'
<1>1. op[p].pc = "idle" /\ Left(p, dbq)
  <2>1. op[p].pc = "idle"
    BY DEF OpStart, Begin, Tick, SyncNow, SetCadence, UpdateConfig, SetOption, UpdateOutbound, Pause, Resume,
           Installed, StartFlow, EnsureRoot, Connect, Remove
  <2> QED  BY <2>1, Leaves DEF DbPcs
<1>2. ASSUME NEW k \in AllKinds, NEW pc \in DbPcs \ {"recheck", "create"}, UNCHANGED <<loop, runs>>,
             Call(p, [Idle EXCEPT !.kind = k, !.pc = pc], dbq)
      PROVE  (QueueOK /\ Unused /\ Stops)'
  <2> DEFINE o == [Idle EXCEPT !.kind = k, !.pc = pc]
  <2>1. o \in OpRecs  BY StartedType DEF OpPcs
  <2>2. o.pc = pc /\ pc \notin {"waitStop", "recheck", "create"}  BY DEF Idle, DbPcs
  <2> HIDE DEF o
  <2>3. Call(p, o, dbq)  BY <1>2 DEF o
  <2>4. LoopsAside  BY <1>2, StillAside DEF QueueInv
  <2>5. Stopping(o)  BY <2>2 DEF Stopping
  <2> QED  BY <1>1, <1>2, <2>1, <2>2, <2>3, <2>4, <2>5, CallTurn
<1>3. ASSUME NEW k \in {"pause", "remove"}, UNCHANGED runs, BeginStop(p, [Idle EXCEPT !.kind = k], dbq)
      PROVE  (QueueOK /\ Unused /\ Stops)'
  <2>1. [Idle EXCEPT !.kind = k] \in OpRecs /\ [Idle EXCEPT !.kind = k].kind \in Stoppers
    <3>1. "idle" \in OpPcs /\ k \in AllKinds /\ k \in Stoppers  BY DEF OpPcs, AllKinds, Stoppers
    <3> QED  BY <3>1, StartedType DEF Idle
  <2> QED  BY <1>1, <1>3, <2>1, StopTurn
<1>4. /\ {"tick", "syncNow", "setCadence", "updateConfig", "setOption", "outbound", "pause", "resume", "installed",
          "manage", "reconnect", "ensure", "connect", "remove"} \subseteq AllKinds
      /\ {"readRun", "cadence", "readCfg", "readResume", "readOpen"}
           \subseteq DbPcs \ {"recheck", "create"}
  BY DEF AllKinds, DbPcs
<1>5. CASE Tick(p) \/ SyncNow(p) \/ SetCadence(p)
  BY <1>2, <1>4, <1>5 DEF Tick, SyncNow, SetCadence
<1>6. CASE UpdateConfig(p) \/ SetOption(p) \/ UpdateOutbound(p)
  BY <1>2, <1>4, <1>6 DEF UpdateConfig, SetOption, UpdateOutbound
<1>7. CASE Resume(p) \/ Installed(p)
  BY <1>2, <1>4, <1>7 DEF Resume, Installed
<1>8. CASE Connect(p) \/ EnsureRoot(p)
  BY <1>2, <1>4, <1>8 DEF EnsureRoot, Connect
<1>9. CASE StartFlow(p, "manage") \/ StartFlow(p, "reconnect")
  BY <1>2, <1>4, <1>9 DEF StartFlow
<1>10. CASE Pause(p) \/ Remove(p)
  BY <1>3, <1>4, <1>10 DEF Pause, Remove
<1> QED  BY <1>5, <1>6, <1>7, <1>8, <1>9, <1>10 DEF OpStart

(* The user answers, or closes the window.                                 *)
LEMMA QueueUser ==
  ASSUME QueueInv, NEW p \in Procs, UserStep(p) PROVE (QueueOK /\ Unused /\ Stops)'
<1>1. op[p].pc = "user" /\ Left(p, dbq)
  <2>1. op[p].pc = "user"
    BY DEF UserStep, Picked, SignedIn, FlowAbandoned, Doing
  <2> QED  BY <2>1, Leaves DEF DbPcs
<1>2. CASE Picked(p)
  <2> DEFINE o == [op[p] EXCEPT !.pc = "recheck"]
  <2>1. o \in OpRecs /\ o.pc = "recheck" /\ o.kind = "manage"
    BY <1>2, OpTypes DEF OpRecs, OpPcs, DbPcs, Picked, Doing
  <2>2. Call(p, o, dbq)  BY <1>2 DEF Picked
  <2> HIDE DEF o
  <2>3. o.pc \in DbPcs /\ Stopping(o)  BY <2>1 DEF DbPcs, Stopping, Stoppers
  <2>4. LoopsAside  BY <1>2, StillAside DEF QueueInv, Picked
  <2> QED  BY <1>1, <2>1, <2>2, <2>3, <2>4, CallTurn
<1>3. CASE SignedIn(p)
  <2>1. op[p].kind \in Stoppers  BY <1>3 DEF SignedIn, Doing, Stoppers
  <2> QED  BY <1>1, <1>3, <2>1, OpTypes, StopTurn DEF SignedIn, Quiesce
<1>4. CASE FlowAbandoned(p)
  <2>1. LoopsAside  BY <1>4, StillAside DEF QueueInv, FlowAbandoned
  <2> QED  BY <1>1, <1>4, <2>1, ReturnTurn DEF FlowAbandoned
<1> QED  BY <1>2, <1>3, <1>4 DEF UserStep

(* An operation's store call is served, or its stop has returned; it calls *)
(* again, stops the loop, waits for the user or ends.                      *)
LEMMA QueueOp ==
  ASSUME QueueInv, NEW p \in Procs, OpNext(p) PROVE (QueueOK /\ Unused /\ Stops)'
<1>o. op[p] \in OpRecs /\ row \in Rows /\ op[p].snap \in Rows
  BY DEF QueueInv, Types, OpRecs
<1>m. ASSUME NEW pc \in OpPcs
      PROVE  /\ [op[p] EXCEPT !.pc = pc] \in OpRecs /\ [op[p] EXCEPT !.pc = pc].pc = pc
             /\ [op[p] EXCEPT !.pc = pc, !.snap = row] \in OpRecs
             /\ [op[p] EXCEPT !.pc = pc, !.snap = row].pc = pc
             /\ [op[p] EXCEPT !.pc = pc].kind = Kind(p)
             /\ [op[p] EXCEPT !.pc = pc, !.snap = row].kind = Kind(p)
  BY <1>o, MovedType DEF OpRecs, Kind
<1>p. Stopping(op[p])  BY DEF QueueInv, Stops
<1>c. ASSUME LoopsAside, Served(p), NEW pc \in DbPcs, NEW o,
             o \in {[op[p] EXCEPT !.pc = pc], [op[p] EXCEPT !.pc = pc, !.snap = row]},
             Call(p, o, Tail(dbq)), pc \in {"recheck", "create"} => Kind(p) \in Stoppers
      PROVE  (QueueOK /\ Unused /\ Stops)'
  <2>1. o \in OpRecs /\ o.pc = pc /\ Stopping(o)
    <3>1. pc \in OpPcs /\ pc # "waitStop"  BY DEF OpPcs, DbPcs
    <3>2. o \in OpRecs /\ o.pc = pc /\ o.kind = Kind(p)  BY <1>c, <1>m, <3>1
    <3> QED  BY <1>c, <3>1, <3>2 DEF Stopping
  <2>2. Left(p, Tail(dbq))  BY <1>c, Leaves
  <2> QED  BY <1>c, <2>1, <2>2, CallTurn
<1>r. ASSUME LoopsAside, Served(p), Return(p, Tail(dbq)) PROVE (QueueOK /\ Unused /\ Stops)'
  BY <1>r, Leaves, ReturnTurn
<1>s. ASSUME UNCHANGED runs, Served(p), NEW o \in OpRecs, o.kind \in Stoppers, BeginStop(p, o, Tail(dbq))
      PROVE  (QueueOK /\ Unused /\ Stops)'
  BY <1>s, Leaves, StopTurn
<1>n. UNCHANGED <<loop, runs>> => LoopsAside  BY StillAside DEF QueueInv
<1>t. ASSUME LoopsAside, Served(p), CatchTransition(p) PROVE (QueueOK /\ Unused /\ Stops)'
  BY <1>t, <1>c, <1>r DEF CatchTransition, DbPcs
<1>1. CASE StopDone(p)
  <2>1. Left(p, dbq) /\ LoopsAside  BY <1>1, <1>n, Leaves DEF StopDone, DbPcs
  <2> DEFINE pc == AfterStop(Kind(p))
  <2>2. pc \in DbPcs \cup {"idle"} /\ pc \in OpPcs  BY DEF AfterStop, DbPcs, OpPcs
  <2>3. pc \in DbPcs \ {"recheck", "create", "waitStop"}
    BY <1>1, <1>p DEF StopDone, Stopping, Stoppers, AfterStop, DbPcs, Kind
  <2> DEFINE o == [op[p] EXCEPT !.pc = pc]
  <2>4. Call(p, o, dbq)  BY <1>1 DEF StopDone
  <2> HIDE DEF pc
  <2>5. o \in OpRecs /\ o.pc = pc  BY <1>m, <2>2
  <2> HIDE DEF o
  <2>6. Stopping(o)  BY <2>3, <2>5 DEF Stopping
  <2> QED  BY <2>1, <2>3, <2>4, <2>5, <2>6, CallTurn
<1>2. CASE CadenceSaved(p)
  BY <1>2, <1>c, <1>n DEF CadenceSaved, At, DbPcs
<1>3. CASE ReadThenRun(p)
  BY <1>3, <1>r, <1>n, RunAside DEF ReadThenRun, At, NoRun
<1>4. CASE ConfigRead(p)
  BY <1>4, <1>c, <1>r, <1>n DEF ConfigRead, At, DbPcs
<1>5. CASE WriteConfig(p)
  BY <1>5, <1>c, <1>r, <1>n DEF WriteConfig, At, DbPcs
<1>6. CASE PauseRead(p)
  BY <1>6, <1>c, <1>r, <1>n DEF PauseRead, At, DbPcs
<1>7. CASE PauseCommit(p)
  BY <1>7, <1>r, <1>n DEF PauseCommit, At
<1>8. CASE ResumeRead(p)
  BY <1>8, <1>c, <1>r, <1>n DEF ResumeRead, At, DbPcs
<1>9. CASE ResumeCommit(p)
  BY <1>9, <1>r, <1>n, RunAside DEF ResumeCommit, At, NoRun
<1>10. CASE Opened(p)
  <2> DEFINE o == [op[p] EXCEPT !.snap = row]
  <2>1. o \in OpRecs /\ o.kind = Kind(p)  BY <1>o DEF OpRecs, Kind
  <2>2. [o EXCEPT !.pc = "create"] = [op[p] EXCEPT !.pc = "create", !.snap = row]
        /\ [o EXCEPT !.pc = "createRoot"] = [op[p] EXCEPT !.pc = "createRoot", !.snap = row]
        /\ [o EXCEPT !.pc = "user"] \in OpRecs /\ [o EXCEPT !.pc = "user"].pc = "user"
    BY <1>o, <2>1 DEF OpRecs, OpPcs, UserPcs
  <2>3. Served(p) /\ UNCHANGED runs  BY <1>10 DEF Opened, At
  <2>4. CASE Kind(p) = "connect" /\ Call(p, [o EXCEPT !.pc = "create"], Tail(dbq)) /\ UNCHANGED loop
    BY <1>c, <1>n, <2>2, <2>3, <2>4 DEF DbPcs, Stoppers
  <2>5. CASE Kind(p) = "ensure" /\ BeginStop(p, o, Tail(dbq))
    BY <1>s, <2>1, <2>3, <2>5 DEF Stoppers
  <2>6. CASE op' = [op EXCEPT ![p] = [o EXCEPT !.pc = "user"]] /\ dbq' = Tail(dbq) /\ UNCHANGED loop
    <3> DEFINE u == [o EXCEPT !.pc = "user"]
    <3>1. u \in OpRecs /\ u.pc \notin DbPcs /\ Stopping(u) /\ op' = [op EXCEPT ![p] = u]
      BY <2>2, <2>6 DEF DbPcs, Stopping
    <3> HIDE DEF u
    <3>2. Left(p, Tail(dbq)) /\ LoopsAside  BY <2>3, <2>6, <1>n, Leaves
    <3> QED  BY <2>6, <3>1, <3>2, CallerTurn
  <2>7. CASE Return(p, Tail(dbq)) /\ UNCHANGED loop
    BY <1>r, <1>n, <2>3, <2>7
  <2>8. CASE Call(p, [o EXCEPT !.pc = "createRoot"], Tail(dbq)) /\ UNCHANGED loop
    <3>1. [o EXCEPT !.pc = "createRoot"] = [op[p] EXCEPT !.pc = "createRoot", !.snap = row]  BY <1>o, <2>1 DEF OpRecs
    <3> QED  BY <1>c, <1>n, <2>3, <2>8, <3>1 DEF DbPcs
  <2> QED  BY <1>10, <2>4, <2>5, <2>6, <2>7, <2>8 DEF Opened, Quiesce
<1>11. CASE Rechecked(p)
  BY <1>11, <1>o, <1>p, <1>s, <1>r, <1>n DEF Rechecked, At, Quiesce, Stopping
<1>12. CASE ScopeTx(p)
  BY <1>12, <1>c, <1>t, <1>n DEF ScopeTx, At, DbPcs
<1>13. CASE ScopeRestart(p)
  BY <1>13, <1>r, <1>t, <1>n, RunAside DEF ScopeRestart, At, NoRun
<1>14. CASE Restore(p)
  BY <1>14, <1>r, <1>n, RunAside DEF Restore, At, NoRun
<1>15. CASE VaultSaved(p)
  <2>1. [op[p] EXCEPT !.kind = "cancel"] \in OpRecs /\ [op[p] EXCEPT !.kind = "cancel"].kind \in Stoppers
    BY <1>o DEF OpRecs, AllKinds, Stoppers
  <2>2. Served(p)  BY <1>15 DEF VaultSaved, At
  <2> QED
    BY <1>15, <1>c, <1>r, <1>s, <1>t, <1>n, <2>1, <2>2, RunAside DEF VaultSaved, DbPcs
<1>16. CASE StatusSet(p)
  BY <1>16, <1>c, <1>t, <1>n DEF StatusSet, Reconnected, At, DbPcs
<1>17. CASE CreateAccount(p)
  <2>1. row' \in Rows
    BY <1>17, TypesOp DEF QueueInv, OpNext, Types
  <2> DEFINE o == [op[p] EXCEPT !.snap = row', !.own = ~row.exists]
  <2>2. o \in OpRecs /\ o.kind = Kind(p)
    BY <1>o, <2>1 DEF OpRecs, Rows, Kind
  <2>3. op[p].pc = "create" /\ Served(p) /\ UNCHANGED runs /\ BeginStop(p, o, Tail(dbq))
    BY <1>17 DEF CreateAccount, At
  <2> HIDE DEF o
  <2>4. o.kind \in Stoppers  BY <1>p, <2>2, <2>3 DEF Stopping, Kind
  <2> QED  BY <1>s, <2>2, <2>3, <2>4
<1>18. CASE RemoveAccount(p)
  BY <1>18, <1>r, <1>n DEF RemoveAccount, At
<1>19. CASE RootCreated(p)
  <2>1. Run(row', pauseIntent, transIntent) \/ NoRun  BY <1>19 DEF RootCreated
  <2> QED  BY <1>19, <1>r, <1>n, <2>1, RunAside DEF RootCreated, At, NoRun
<1> QED
  BY <1>1, <1>2, <1>3, <1>4, <1>5, <1>6, <1>7, <1>8, <1>9, <1>10, <1>11, <1>12, <1>13, <1>14,
     <1>15, <1>16, <1>17, <1>18, <1>19 DEF OpNext

(* A step of a loop: it alone moves.                                       *)
LEMMA LoopTurn ==
  ASSUME QueueInv, NEW l \in Loops, NEW q, Left(l, q), UNCHANGED <<runs, op>>,
         loop[l].pc # "unused" \/ loop'[l].pc = "unused",
         \A k \in Loops \ {l} : loop'[k].pc = loop[k].pc,
         dbq' = IF loop'[l].pc \in LoopDbPcs THEN Append(q, l) ELSE q
  PROVE  (QueueOK /\ Unused /\ Stops)'
<1>1. \A k \in Loops : k \notin Procs  BY LoopsAreNats, ProcsAssumption
<1>2. Turn(l, q)  BY <1>1 DEF Turn, Waits, Actors
<1>3. QueueOK'  BY <1>2, TurnKeepsQueue DEF Actors
<1>4. Unused'  BY DEF QueueInv, Unused
<1>5. Stops'  BY DEF QueueInv, Stops
<1> QED  BY <1>3, <1>4, <1>5

(* A loop's store call is served, or it goes on by itself.                 *)
LEMMA QueueLoop ==
  ASSUME QueueInv, NEW l \in Loops, LoopNext(l) PROVE (QueueOK /\ Unused /\ Stops)'
<1>t. loop \in [Loops -> LoopRecs] /\ loop[l] \in LoopRecs  BY DEF QueueInv, Types
<1>w. /\ loop[l].pc \notin LoopDbPcs => Left(l, dbq)
      /\ Served(l) => Left(l, Tail(dbq))
  BY LoopsAreNats, ProcsAssumption DEF Left, Waits
<1>g. ASSUME NEW q, Left(l, q), UNCHANGED <<runs, op>>, loop[l].pc # "unused", NEW r, NEW pc,
             r.pc = pc, loop' = [loop EXCEPT ![l] = r],
             dbq' = IF pc \in LoopDbPcs THEN Append(q, l) ELSE q
      PROVE  (QueueOK /\ Unused /\ Stops)'
  <2>1. loop'[l].pc = pc /\ \A k \in Loops \ {l} : loop'[k].pc = loop[k].pc  BY <1>t, <1>g
  <2> QED  BY <1>g, <2>1, LoopTurn
<1>s. ASSUME NEW q, Left(l, q), UNCHANGED <<runs, op>>, loop[l].pc # "unused",
             NEW pc, LoopStep(l, pc, IF pc \in LoopDbPcs THEN Append(q, l) ELSE q)
      PROVE  (QueueOK /\ Unused /\ Stops)'
  <2>1. loop' = [loop EXCEPT ![l] = [loop[l] EXCEPT !.pc = pc]]  BY <1>s, <1>t DEF LoopStep
  <2>2. [loop[l] EXCEPT !.pc = pc].pc = pc  BY <1>t DEF LoopRecs
  <2> QED  BY <1>g, <1>s, <2>1, <2>2 DEF LoopStep
<1>f. ASSUME NEW q, Left(l, q), UNCHANGED <<runs, op>>, loop[l].pc # "unused", Finish(l, q)
      PROVE  (QueueOK /\ Unused /\ Stops)'
  <2>1. [NoLoop EXCEPT !.pc = "done", !.rec = loop[l].rec].pc = "done"  BY DEF NoLoop
  <2> QED  BY <1>f, <1>g, <2>1 DEF Finish, LoopDbPcs
<1>1. CASE PrevStopped(l)
  BY <1>1, <1>w, <1>s, <1>f DEF PrevStopped, Quiet, LoopDbPcs
<1>2. CASE Entry(l)
  <2>1. Left(l, Tail(dbq)) /\ UNCHANGED <<runs, op>> /\ loop[l].pc # "unused"
    BY <1>2, <1>w DEF Entry, Quiet
  <2>2. CASE Finish(l, Tail(dbq))  BY <1>f, <2>1, <2>2
  <2>3. ASSUME NEW rec \in BOOLEAN, dbq' = Tail(dbq),
               loop' = [loop EXCEPT ![l].pc = "pull", ![l].gen = Fresh(l).gen,
                                    ![l].pos = Fresh(l).pos, ![l].rec = rec]
        PROVE  (QueueOK /\ Unused /\ Stops)'
    <3>1. loop'[l].pc = "pull" /\ \A k \in Loops \ {l} : loop'[k].pc = loop[k].pc
      BY <1>t, <2>3 DEF LoopRecs
    <3> QED  BY <2>1, <2>3, <3>1, LoopTurn DEF LoopDbPcs
  <2> QED  BY <1>2, <2>2, <2>3 DEF Entry
<1>3. CASE Pull(l)
  BY <1>3, <1>w, <1>s DEF Pull, Quiet, LoopDbPcs
<1>4. CASE SubCommit(l)
  <2>1. Left(l, Tail(dbq)) /\ UNCHANGED <<runs, op>> /\ loop[l].pc # "unused"
    BY <1>4, <1>w DEF SubCommit, Quiet
  <2>2. ASSUME NEW pc \in {"commit", "pull", "caught"}, NEW pos, NEW n,
               loop' = [loop EXCEPT ![l].pc = pc, ![l].pos = pos, ![l].retries = n],
               dbq' = IF pc = "commit" THEN Append(Tail(dbq), l) ELSE Tail(dbq)
        PROVE  (QueueOK /\ Unused /\ Stops)'
    <3>1. loop'[l].pc = pc /\ \A k \in Loops \ {l} : loop'[k].pc = loop[k].pc
      BY <1>t, <2>2 DEF LoopRecs
    <3> QED  BY <2>1, <2>2, <3>1, LoopTurn DEF LoopDbPcs
  <2>3. PICK last \in BOOLEAN :
          LET goon == ~last /\ ~loop[l].aborted
              pc   == IF goon THEN "commit" ELSE IF last THEN "pull" ELSE "caught"
          IN /\ loop' = [loop EXCEPT ![l].pc = pc,
                           ![l].pos = IF last THEN Next1(loop[l].pos) ELSE loop[l].pos,
                           ![l].retries = IF last THEN 0 ELSE loop[l].retries]
             /\ dbq' = IF goon THEN Append(Tail(dbq), l) ELSE Tail(dbq)
    BY <1>4 DEF SubCommit
  <2> DEFINE pos == IF last THEN Next1(loop[l].pos) ELSE loop[l].pos
             n   == IF last THEN 0 ELSE loop[l].retries
             pc  == IF ~last /\ ~loop[l].aborted THEN "commit" ELSE IF last THEN "pull" ELSE "caught"
  <2>4. pc = "commit" <=> ~last /\ ~loop[l].aborted  OBVIOUS
  <2>5. /\ pc \in {"commit", "pull", "caught"}
        /\ loop' = [loop EXCEPT ![l].pc = pc, ![l].pos = pos, ![l].retries = n]
        /\ dbq' = IF pc = "commit" THEN Append(Tail(dbq), l) ELSE Tail(dbq)
    BY <2>3, <2>4
  <2> HIDE DEF pc, pos, n
  <2> QED  BY <2>2, <2>5
<1>5. CASE Settle(l)
  BY <1>5, <1>w, <1>s, <1>f DEF Settle, Quiet, LoopDbPcs
<1>6. ASSUME NEW from \in LoopDbPcs, NEW to \in LoopDbPcs, ReadCursor(l, from, to)
      PROVE  (QueueOK /\ Unused /\ Stops)'
  <2>1. Left(l, Tail(dbq)) /\ UNCHANGED <<runs, op>> /\ loop[l].pc # "unused"
    BY <1>6, <1>w DEF ReadCursor, Quiet, LoopDbPcs
  <2>2. loop'[l].pc = to /\ \A k \in Loops \ {l} : loop'[k].pc = loop[k].pc
    BY <1>t, <1>6 DEF LoopRecs, ReadCursor
  <2> QED  BY <1>6, <2>1, <2>2, LoopTurn DEF ReadCursor
<1>7. CASE LiveCommit(l)
  BY <1>7, <1>w, <1>f DEF LiveCommit, Quiet
<1>8. CASE CallFailed(l)
  BY <1>8, <1>w, <1>s DEF CallFailed, Quiet, LoopDbPcs
<1>9. CASE Caught(l)
  <2>1. Left(l, dbq) /\ UNCHANGED <<runs, op>> /\ loop[l].pc # "unused"
    BY <1>9, <1>w DEF Caught, Quiet, LoopDbPcs
  <2>2. CASE Finish(l, dbq)  BY <1>f, <2>1, <2>2
  <2>3. ASSUME NEW s, loop' = [loop EXCEPT ![l].pc = "errRead", ![l].st = s], dbq' = Append(dbq, l)
        PROVE  (QueueOK /\ Unused /\ Stops)'
    <3>1. loop'[l].pc = "errRead" /\ \A k \in Loops \ {l} : loop'[k].pc = loop[k].pc
      BY <1>t, <2>3 DEF LoopRecs
    <3> QED  BY <2>1, <2>3, <3>1, LoopTurn DEF LoopDbPcs
  <2>4. ASSUME NEW n, loop' = [loop EXCEPT ![l].pc = "sleep", ![l].retries = n], dbq' = dbq
        PROVE  (QueueOK /\ Unused /\ Stops)'
    <3>1. loop'[l].pc = "sleep" /\ \A k \in Loops \ {l} : loop'[k].pc = loop[k].pc
      BY <1>t, <2>4 DEF LoopRecs
    <3> QED  BY <2>1, <2>4, <3>1, LoopTurn DEF LoopDbPcs
  <2> QED  BY <1>9, <2>2, <2>3, <2>4 DEF Caught, Retry
<1>10. CASE ErrCommit(l)
  BY <1>10, <1>w, <1>f DEF ErrCommit, Quiet
<1>11. CASE Sleep(l)
  BY <1>11, <1>w, <1>s, <1>f DEF Sleep, Quiet, LoopDbPcs
<1>12. CASE Drain(l)
  BY <1>12, <1>w, <1>f DEF Drain, Quiet, LoopDbPcs
<1>13. CASE PassEnds(l)
  <2>1. UNCHANGED <<runs, op, dbq>> /\ \A k \in Loops : loop'[k].pc = loop[k].pc
    BY <1>t, <1>13 DEF PassEnds, Quiet, LoopRecs
  <2>2. QueueOK'  BY <2>1 DEF QueueInv, QueueOK, Queued, Once, Waits, Actors
  <2>3. Unused' /\ Stops'  BY <2>1 DEF QueueInv, Unused, Stops
  <2> QED  BY <2>2, <2>3
<1> QED
  BY <1>1, <1>2, <1>3, <1>4, <1>5, <1>6, <1>7, <1>8, <1>9, <1>10, <1>11, <1>12, <1>13
  DEF LoopNext, LiveRead, ErrRead, LoopDbPcs

(* The app dies: only the caller that boots it again waits for the store.  *)
LEMMA QueueCrash ==
  ASSUME QueueInv, NEW p \in Procs, Crash(p) PROVE (QueueOK /\ Unused /\ Stops)'
<1>1. dbq' = <<p>> /\ UNCHANGED runs /\ \A l \in Loops : loop'[l].pc = "unused"
  BY DEF Crash, NoLoop
<1>2. \A q \in Procs : op'[q].pc = (IF q = p THEN "readRun" ELSE "idle")
  BY DEF Crash, Idle
<1>3. \A a \in Actors : Queued(dbq', a) <=> a = p
  BY <1>1 DEF Queued
<1>4. \A a \in Actors : Waits(a)' <=> a = p
  BY <1>1, <1>2 DEF Waits, Actors, DbPcs, LoopDbPcs
<1>5. Once(dbq')  BY <1>1 DEF Once
<1>6. Unused'  BY <1>1 DEF Unused
<1>7. Stops'  BY <1>2 DEF Stops, Stopping
<1> QED  BY <1>3, <1>4, <1>5, <1>6, <1>7 DEF QueueOK

(* QueueInv is inductive.                                                  *)
LEMMA QueueNext == QueueInv /\ [Next]_vars => QueueInv'
<1> SUFFICES ASSUME QueueInv, [Next]_vars PROVE QueueInv'  OBVIOUS
<1>1. Types'  BY TypesNext DEF QueueInv
<1>2. CASE UNCHANGED <<loop, runs, op, dbq>>
  <2>1. QueueOK'  BY <1>2 DEF QueueInv, QueueOK, Queued, Once, Waits, Actors
  <2>2. Unused' /\ Stops'  BY <1>2 DEF QueueInv, Unused, Stops
  <2> QED  BY <1>1, <2>1, <2>2 DEF QueueInv
<1>3. CASE (\E p \in Procs : Watchdog(p)) \/ Respawn \/ UNCHANGED vars
  BY <1>2, <1>3 DEF Watchdog, Respawn, vars
<1>4. CASE \E p \in Procs : OpStart(p) \/ UserStep(p) \/ OpNext(p) \/ Crash(p)
  BY <1>1, <1>4, QueueStart, QueueUser, QueueOp, QueueCrash DEF QueueInv
<1>5. CASE \E l \in Loops : LoopNext(l)
  BY <1>1, <1>5, QueueLoop DEF QueueInv
<1> QED  BY <1>3, <1>4, <1>5 DEF Next

(* At the start nobody waits.                                              *)
LEMMA QueueInit == Init => QueueInv
<1> SUFFICES ASSUME Init PROVE QueueInv  OBVIOUS
<1>1. \A a \in Actors : ~Waits(a)
  BY DEF Init, Waits, Actors, Idle, NoLoop, DbPcs, LoopDbPcs
<1>2. QueueOK  BY <1>1 DEF Init, QueueOK, Queued, Once
<1>3. Unused /\ Stops  BY DEF Init, Unused, Stops, Stopping, NoLoop, Idle
<1> QED  BY <1>2, <1>3, TypesInit DEF QueueInv

(* Once in the queue is one place of it.                                   *)
LEMMA QueueCounts == QueueInv => TypeOK
<1> SUFFICES ASSUME QueueInv PROVE TypeOK  OBVIOUS
<1> DEFINE Places(a) == {i \in DOMAIN dbq : dbq[i] = a}
<1>1. ASSUME NEW a \in Actors PROVE Cardinality(Places(a)) = IF Waits(a) THEN 1 ELSE 0
  <2>1. DOMAIN dbq = 1..Len(dbq)  BY DEF QueueInv, Types
  <2>2. CASE Waits(a)
    <3>1. PICK i \in 1..Len(dbq) : dbq[i] = a  BY <2>2 DEF QueueInv, QueueOK, Queued
    <3>2. Places(a) = {i}  BY <2>1, <3>1 DEF QueueInv, QueueOK, Once
    <3> QED  BY <2>2, <3>2, FS_Singleton
  <2>3. CASE ~Waits(a)
    <3>1. Places(a) = {}  BY <2>1, <2>3 DEF QueueInv, QueueOK, Queued
    <3> QED  BY <2>3, <3>1, FS_EmptySet
  <2> QED  BY <2>2, <2>3
<1> HIDE DEF Places
<1>2. \A p \in Procs : Cardinality(Places(p)) = IF op[p].pc \in DbPcs THEN 1 ELSE 0
  BY <1>1 DEF Actors, Waits
<1>3. \A l \in Loops : Cardinality(Places(l)) = IF loop[l].pc \in LoopDbPcs THEN 1 ELSE 0
  <2>1. \A l \in Loops : l \notin Procs  BY LoopsAreNats, ProcsAssumption
  <2> QED  BY <1>1, <2>1 DEF Actors, Waits
<1> QED  BY <1>2, <1>3 DEF TypeOK, QueueInv, Places

(* Every variable keeps its type, and the DB queue holds exactly the       *)
(* callers that wait for a store call, each once.                          *)
THEOREM QueueHoldsTheCallers == Spec => []TypeOK
<1>1. Spec => []QueueInv  BY QueueInit, QueueNext, PTL DEF Spec
<1> QED  BY <1>1, QueueCounts, PTL

----------------------------------------------------------------------------
(***************************************************************************)
(* Whoever stops the loop under an intent finds it stopped.  An operation  *)
(* waits for the handle it took from the map; while the intent is up no    *)
(* run() replaces that handle, so when it is settled every loop is.        *)
(***************************************************************************)
Calm == \A l \in Loops : ~Live(l)
Held(h) == h = running \/ Calm
\* No loop comes alive, and the handle someone waits for stays the one.
Kept == /\ Calm => Calm'
        /\ running' = running \/ Calm'

(* Nothing is started: at most a loop is aborted.                          *)
LEMMA QuietKeeps ==
  ASSUME Types, UNCHANGED running, loop' = loop \/ loop' = Abort(running) PROVE Kept
<1>1. \A l \in Loops : loop'[l].pc = loop[l].pc  BY DEF Abort, Types, LoopRecs
<1> QED  BY <1>1 DEF Kept, Calm, Live

(* run() under an intent.                                                  *)
LEMMA RefusedKeeps ==
  ASSUME Types, NEW acc, NEW pi, NEW ti, pi \/ ti, Run(acc, pi, ti) PROVE Kept
<1>1. UNCHANGED <<running, loop>>  BY DEF Run
<1> QED  BY <1>1, QuietKeeps

(* The end of stop() (handle.stop's delete from the map).                  *)
LEMMA StopKeeps == ASSUME LoopInv, NEW p \in Procs, StopDone(p) PROVE Kept
<1>1. CASE running' = running  BY <1>1, QuietKeeps DEF StopDone, LoopInv
<1>2. CASE running' # running
  <2>1. running # None /\ ~Live(running) /\ UNCHANGED loop  BY <1>2 DEF StopDone, Settled
  <2>2. Calm  BY <2>1 DEF LoopInv, LoopChain, NoOrphan, Calm
  <2> QED  BY <2>1, <2>2 DEF Kept, Calm, Live
<1> QED  BY <1>1, <1>2

(* When stop() returns to one who holds the handle, no loop is alive.      *)
LEMMA StopFindsCalm ==
  ASSUME LoopInv, NEW p \in Procs, StopDone(p), Held(op[p].h) PROVE Calm
<1>1. CASE running = None  BY <1>1 DEF LoopInv, LoopChain, NoOrphan, Calm
<1>2. CASE running # None /\ op[p].h = running
  BY <1>2 DEF StopDone, Settled, LoopInv, LoopChain, NoOrphan, Calm
<1> QED  BY <1>1, <1>2 DEF Held

(* A step of a loop: a loop that is over stays over.                       *)
LEMMA LoopKeeps == ASSUME LoopInv, NEW l \in Loops, LoopNext(l) PROVE Kept
<1>1. UNCHANGED running
  BY DEF LoopNext, PrevStopped, Entry, Pull, SubCommit, Settle, LiveRead, ErrRead,
     ReadCursor, LiveCommit, CallFailed, Caught, ErrCommit, Sleep, Drain, PassEnds, Quiet
<1>2. Calm => Calm'
  <2>1. Live(l) \/ PassEnds(l)
    BY DEF LoopNext, PrevStopped, Entry, Pull, SubCommit, Settle, LiveRead, ErrRead, ReadCursor,
       LiveCommit, CallFailed, Caught, ErrCommit, Sleep, Drain, Live, Ended
  <2>2. CASE PassEnds(l)
    <3>1. \A k \in Loops : loop'[k].pc = loop[k].pc
      BY <2>2 DEF PassEnds, LoopInv, Types, LoopRecs
    <3> QED  BY <3>1 DEF Calm, Live
  <2> QED  BY <2>1, <2>2 DEF Calm
<1> QED  BY <1>1, <1>2 DEF Kept

(* While an intent is up no operation starts a loop; but a transition's    *)
(* own restart, which takes its intent down first, does.                   *)
LEMMA OpKeeps ==
  ASSUME LoopInv, NEW p \in Procs, OpNext(p),
         pauseIntent \/ (transIntent /\ op[p].pc # "after")
  PROVE  Kept
<1>t. Types  BY DEF LoopInv
<1>q. ASSUME UNCHANGED running, loop' = loop \/ loop' = Abort(running) PROVE Kept
  BY <1>t, <1>q, QuietKeeps
<1>n. NoRun => Kept  BY <1>q DEF NoRun
<1>r. ASSUME NEW acc, Run(acc, pauseIntent, transIntent) PROVE Kept
  BY <1>t, <1>r, RefusedKeeps
<1>1. CASE StopDone(p)  BY <1>1, StopKeeps
<1>2. CASE ReadThenRun(p) \/ Restore(p) \/ ResumeCommit(p) \/ RootCreated(p)
  BY <1>2, <1>n, <1>r DEF ReadThenRun, Restore, ResumeCommit, RootCreated
<1>3. CASE ScopeRestart(p)
  BY <1>3, <1>n, <1>t, RefusedKeeps DEF ScopeRestart, At
<1>4. CASE VaultSaved(p)
  BY <1>4, <1>q, <1>r DEF VaultSaved, BeginStop
<1>5. CASE CadenceSaved(p) \/ ConfigRead(p) \/ WriteConfig(p) \/ PauseRead(p)
           \/ PauseCommit(p) \/ ResumeRead(p) \/ ScopeTx(p) \/ StatusSet(p)
           \/ RemoveAccount(p)
  BY <1>5, <1>q DEF CadenceSaved, ConfigRead, WriteConfig, PauseRead, PauseCommit,
     ResumeRead, ScopeTx, StatusSet, RemoveAccount
<1>6. CASE Opened(p) \/ Rechecked(p) \/ CreateAccount(p)
  BY <1>6, <1>q DEF Opened, Rechecked, CreateAccount, Quiesce, BeginStop
<1> QED  BY <1>1, <1>2, <1>3, <1>4, <1>5, <1>6 DEF OpNext

----------------------------------------------------------------------------
(***************************************************************************)
(* A pause keeps its intent up until it ends; from the return of its       *)
(* stop() on, no loop is alive, so that what it commits stays.             *)
(***************************************************************************)
PausePcs == {"readCur", "commitPause"}
Pausing(p) ==
  /\ op[p].pc \in PausePcs => Kind(p) = "pause"
  /\ Kind(p) = "pause" =>
       /\ pauseIntent
       /\ op[p].pc \in PausePcs \cup {"waitStop"}
       /\ IF op[p].pc = "waitStop" THEN Held(op[p].h) ELSE Calm
PauseOK ==
  /\ \A p \in Procs : Pausing(p)
  /\ \A p, q \in Procs : Kind(p) = "pause" /\ Kind(q) = "pause" => p = q

\* What a step of caller p leaves of p's operation when p is not pausing.
Elsewhere(p) ==
  /\ \A q \in Procs \ {p} : op'[q] = op[q]
  /\ op'[p].kind # "pause" /\ op'[p].pc \notin PausePcs
  /\ Kind(p) # "pause"
  /\ pauseIntent' = pauseIntent \/ \A q \in Procs : Kind(q) # "pause"

(* A step that concerns no pause.                                          *)
LEMMA ElsewhereKeeps ==
  ASSUME PauseOK, NEW p \in Procs, Elsewhere(p), pauseIntent => Kept
  PROVE  PauseOK'
<1>1. ASSUME NEW q \in Procs PROVE Pausing(q)'
  <2>1. CASE q = p  BY <2>1 DEF Elsewhere, Pausing, Kind
  <2>2. CASE q # p /\ Kind(q) # "pause"
    BY <2>2 DEF Elsewhere, Pausing, Kind, PauseOK
  <2>3. CASE q # p /\ Kind(q) = "pause"
    <3>1. Pausing(q) /\ op'[q] = op[q] /\ pauseIntent' /\ pauseIntent /\ Kept
      BY <2>3 DEF PauseOK, Elsewhere, Pausing
    <3>2. Calm => Calm'  BY <3>1 DEF Kept
    <3>3. Held(op[q].h) => Held(op[q].h)'  BY <3>1 DEF Kept, Held
    <3>4. (op[q].pc = "waitStop" => Held(op[q].h)') /\ (op[q].pc # "waitStop" => Calm')
      BY <2>3, <3>1, <3>2, <3>3 DEF Pausing
    <3> QED  BY <2>3, <3>1, <3>4 DEF Pausing, Kind, Held
  <2> QED  BY <2>1, <2>2, <2>3
<1>2. \A q, r \in Procs : Kind(q)' = "pause" /\ Kind(r)' = "pause" => q = r
  BY DEF PauseOK, Elsewhere, Kind
<1> QED  BY <1>1, <1>2 DEF PauseOK

(* The operation record a step assigns.                                    *)
LEMMA Assigned ==
  ASSUME Types, NEW p \in Procs, NEW o, op' = [op EXCEPT ![p] = o],
         o.kind # "pause", o.pc \notin PausePcs, Kind(p) # "pause",
         pauseIntent' = pauseIntent \/ \A q \in Procs : Kind(q) # "pause"
  PROVE  Elsewhere(p)
BY DEF Elsewhere, Types

(* An operation begins; pause() itself raises the intent and aborts the    *)
(* loop it will wait for.                                                  *)
LEMMA PauseStart ==
  ASSUME LoopInv, PauseOK, NEW p \in Procs, OpStart(p) PROVE PauseOK'
<1>t. Types /\ Pausing(p)  BY DEF LoopInv, PauseOK
<1>0. op[p].pc = "idle" /\ Kind(p) # "pause"
  <2>1. op[p].pc = "idle"
    BY DEF OpStart, Begin, Tick, SyncNow, SetCadence, UpdateConfig, SetOption, UpdateOutbound, Pause, Resume,
           Installed, StartFlow, EnsureRoot, Connect, Remove
  <2> QED  BY <1>t, <2>1 DEF Pausing, PausePcs
<1>k. UNCHANGED running /\ (loop' = loop \/ loop' = Abort(running))
  BY DEF OpStart, Tick, SyncNow, SetCadence, UpdateConfig, SetOption, UpdateOutbound, Pause,
     Resume, Installed, StartFlow, EnsureRoot, Connect, Remove, BeginStop
<1>l. Kept  BY <1>t, <1>k, QuietKeeps
<1>e. ASSUME Elsewhere(p) PROVE PauseOK'  BY <1>e, <1>l, ElsewhereKeeps
<1>c. ASSUME NEW k, k # "pause", NEW pc \in DbPcs \ PausePcs,
             Call(p, [Idle EXCEPT !.kind = k, !.pc = pc], dbq),
             pauseIntent' = pauseIntent \/ \A q \in Procs : Kind(q) # "pause"
      PROVE  PauseOK'
  <2> DEFINE o == [Idle EXCEPT !.kind = k, !.pc = pc]
  <2>1. o.kind = k /\ o.pc = pc  BY DEF Idle
  <2>2. op' = [op EXCEPT ![p] = o]  BY <1>c DEF Call
  <2> HIDE DEF o
  <2> QED  BY <1>t, <1>0, <1>c, <1>e, <2>1, <2>2, Assigned
<1>4. {"readRun", "cadence", "readCfg", "readResume", "readOpen"} \subseteq DbPcs \ PausePcs
  BY DEF DbPcs, PausePcs
<1>5. CASE Tick(p) \/ SyncNow(p) \/ SetCadence(p)
  BY <1>c, <1>4, <1>5 DEF Tick, SyncNow, SetCadence
<1>6. CASE UpdateConfig(p) \/ SetOption(p) \/ UpdateOutbound(p)
  BY <1>c, <1>4, <1>6 DEF UpdateConfig, SetOption, UpdateOutbound
<1>7. CASE Resume(p) \/ Installed(p)
  BY <1>c, <1>4, <1>7 DEF Resume, Installed, MenuFree, PauseOrResume
<1>8. CASE Connect(p) \/ EnsureRoot(p)
  BY <1>c, <1>4, <1>8 DEF EnsureRoot, Connect
<1>9. CASE StartFlow(p, "manage") \/ StartFlow(p, "reconnect")
  BY <1>c, <1>4, <1>9 DEF StartFlow
<1>10. CASE Remove(p)
  <2> DEFINE o == [[Idle EXCEPT !.kind = "remove"] EXCEPT !.pc = "waitStop", !.h = running,
                                       !.was = IsRunning]
  <2>1. o.kind = "remove" /\ o.pc = "waitStop"  BY DEF Idle
  <2>2. op' = [op EXCEPT ![p] = o] /\ UNCHANGED pauseIntent  BY <1>10 DEF Remove, BeginStop
  <2> HIDE DEF o
  <2> QED  BY <1>t, <1>0, <1>e, <2>1, <2>2, Assigned DEF PausePcs
<1>11. CASE Pause(p)
  <2> DEFINE o == [[Idle EXCEPT !.kind = "pause"] EXCEPT !.pc = "waitStop", !.h = running,
                                       !.was = IsRunning]
  <2>1. o.kind = "pause" /\ o.pc = "waitStop" /\ o.h = running  BY DEF Idle
  <2>2. op' = [op EXCEPT ![p] = o] /\ pauseIntent' /\ UNCHANGED running
    BY <1>11 DEF Pause, BeginStop
  <2>3. \A q \in Procs : Kind(q) # "pause"  BY <1>11 DEF Pause, MenuFree, PauseOrResume
  <2> HIDE DEF o
  <2>4. op'[p] = o /\ \A q \in Procs \ {p} : op'[q] = op[q]  BY <1>t, <2>2 DEF Types
  <2>5. Pausing(p)'  BY <2>1, <2>2, <2>4 DEF Pausing, Kind, Held, PausePcs
  <2>6. \A q \in Procs \ {p} : Pausing(q)' /\ Kind(q)' # "pause"
    BY <2>3, <2>4 DEF Pausing, Kind, PauseOK
  <2> QED  BY <2>5, <2>6 DEF PauseOK
<1> QED  BY <1>5, <1>6, <1>7, <1>8, <1>9, <1>10, <1>11 DEF OpStart

(* The user answers a picker or a sign-in (connect-broker): no pause.      *)
LEMMA PauseUser ==
  ASSUME LoopInv, PauseOK, NEW p \in Procs, UserStep(p) PROVE PauseOK'
<1>t. Types /\ Pausing(p) /\ op[p] \in OpRecs  BY DEF LoopInv, PauseOK, Types
<1>0. op[p].pc = "user" /\ Kind(p) # "pause"
  <2>1. op[p].pc = "user"  BY DEF UserStep, Picked, SignedIn, FlowAbandoned, Doing
  <2> QED  BY <1>t, <2>1 DEF Pausing, PausePcs
<1>1. UNCHANGED <<running, pauseIntent>> /\ (loop' = loop \/ loop' = Abort(running))
  BY DEF UserStep, Picked, SignedIn, FlowAbandoned, Quiesce, BeginStop
<1>2. Kept  BY <1>t, <1>1, QuietKeeps
<1>3. ASSUME NEW o, op' = [op EXCEPT ![p] = o], o.kind # "pause", o.pc \notin PausePcs PROVE PauseOK'
  BY <1>t, <1>0, <1>1, <1>2, <1>3, Assigned, ElsewhereKeeps
<1>4. CASE Picked(p)
  <2>1. [op[p] EXCEPT !.pc = "recheck"].kind = Kind(p) /\ [op[p] EXCEPT !.pc = "recheck"].pc = "recheck"
    BY <1>t DEF OpRecs, Kind
  <2> QED  BY <1>4, <1>3, <1>0, <2>1 DEF Picked, Call, PausePcs
<1>5. CASE SignedIn(p)
  <2> DEFINE o == [op[p] EXCEPT !.pc = "waitStop", !.h = running, !.was = IsRunning]
  <2>1. o.kind = Kind(p) /\ o.pc = "waitStop"  BY <1>t DEF OpRecs, Kind
  <2>2. op' = [op EXCEPT ![p] = o]  BY <1>5 DEF SignedIn, Quiesce, BeginStop
  <2> HIDE DEF o
  <2> QED  BY <1>3, <1>0, <2>1, <2>2 DEF PausePcs
<1>6. CASE FlowAbandoned(p)
  <2>1. Idle.kind # "pause" /\ Idle.pc \notin PausePcs  BY DEF Idle, PausePcs
  <2> QED  BY <1>6, <1>3, <2>1 DEF FlowAbandoned, Return
<1> QED  BY <1>4, <1>5, <1>6 DEF UserStep

(* An operation moves on: what a pause reads and commits comes after its   *)
(* stop() has returned.                                                    *)
LEMMA PauseOp ==
  ASSUME LoopInv, PauseOK, NEW p \in Procs, OpNext(p) PROVE PauseOK'
<1>t. Types /\ Pausing(p) /\ op[p] \in OpRecs  BY DEF LoopInv, PauseOK, Types
<1>k. pauseIntent => Kept  BY OpKeeps
<1>i. Idle.kind # "pause" /\ Idle.pc \notin PausePcs  BY DEF Idle, PausePcs
<1>e. ASSUME NEW o, op' = [op EXCEPT ![p] = o], o.kind # "pause", o.pc \notin PausePcs,
             Kind(p) # "pause", UNCHANGED pauseIntent
      PROVE  PauseOK'
  BY <1>t, <1>e, <1>k, Assigned, ElsewhereKeeps
<1>s. ASSUME NEW pc, NEW r
      PROVE  /\ [op[p] EXCEPT !.pc = pc].kind = Kind(p)
             /\ [op[p] EXCEPT !.pc = pc].pc = pc
             /\ [op[p] EXCEPT !.pc = pc, !.snap = r].kind = Kind(p)
             /\ [op[p] EXCEPT !.pc = pc, !.snap = r].pc = pc
  BY <1>t DEF OpRecs, Kind
<1>c. ASSUME NEW pc \in DbPcs \ PausePcs, NEW q, Kind(p) # "pause", UNCHANGED pauseIntent,
             \/ Call(p, [op[p] EXCEPT !.pc = pc], q)
             \/ Call(p, [op[p] EXCEPT !.pc = pc, !.snap = row], q)
      PROVE  PauseOK'
  <2>1. PICK o \in {[op[p] EXCEPT !.pc = pc], [op[p] EXCEPT !.pc = pc, !.snap = row]} :
          op' = [op EXCEPT ![p] = o]
    BY <1>c DEF Call
  <2>2. o.kind = Kind(p) /\ o.pc = pc  BY <1>t DEF OpRecs, Kind
  <2> QED  BY <1>c, <1>e, <2>1, <2>2
<1>r. ASSUME NEW q, Kind(p) # "pause", UNCHANGED pauseIntent, Return(p, q) PROVE PauseOK'
  BY <1>r, <1>e, <1>i DEF Return
<1>b. ASSUME NEW o \in OpRecs, o.kind # "pause", NEW q, Kind(p) # "pause", UNCHANGED pauseIntent,
             BeginStop(p, o, q)
      PROVE  PauseOK'
  <2> DEFINE u == [o EXCEPT !.pc = "waitStop", !.h = running, !.was = IsRunning]
  <2>1. u.kind = o.kind /\ u.pc = "waitStop"  BY DEF OpRecs
  <2>2. op' = [op EXCEPT ![p] = u]  BY <1>b DEF BeginStop
  <2> HIDE DEF u
  <2> QED  BY <1>b, <1>e, <2>1, <2>2 DEF PausePcs
<1>x. ASSUME Kind(p) # "pause", UNCHANGED pauseIntent, CatchTransition(p) PROVE PauseOK'
  BY <1>x, <1>c, <1>r DEF CatchTransition, DbPcs, PausePcs
\* What p's own pause goes on with; no other operation is a pause.
<1>o. ASSUME NEW o, op' = [op EXCEPT ![p] = o], Kind(p) = "pause",
             \/ /\ o.kind = "pause" /\ o.pc \in PausePcs
                /\ Calm' /\ pauseIntent'
             \/ o = Idle
      PROVE  PauseOK'
  <2>1. op'[p] = o /\ \A q \in Procs \ {p} : op'[q] = op[q] /\ Kind(q) # "pause"
    BY <1>t, <1>o DEF Types, PauseOK
  <2>2. Pausing(p)'
    BY <1>o, <1>i, <2>1 DEF Pausing, Kind, PausePcs
  <2>3. \A q \in Procs \ {p} : Pausing(q)' /\ Kind(q)' # "pause"
    BY <2>1 DEF PauseOK, Pausing, Kind
  <2> QED  BY <2>2, <2>3 DEF PauseOK
<1>1. CASE StopDone(p)
  <2>1. op[p].pc = "waitStop" /\ Settled(op[p].h) /\ UNCHANGED <<loop, pauseIntent>>
        /\ Call(p, [op[p] EXCEPT !.pc = AfterStop(Kind(p))], dbq)
    BY <1>1 DEF StopDone
  <2>2. CASE Kind(p) = "pause"
    <3>1. Calm  BY <1>1, <1>t, <2>1, <2>2, StopFindsCalm DEF Pausing
    <3>2. Calm' /\ pauseIntent'  BY <1>t, <2>1, <2>2, <3>1 DEF Calm, Live, Pausing
    <3>3. AfterStop(Kind(p)) = "readCur"  BY <2>2 DEF AfterStop
    <3>4. "readCur" \in PausePcs  BY DEF PausePcs
    <3> DEFINE o == [op[p] EXCEPT !.pc = AfterStop(Kind(p))]
    <3>5. o.kind = Kind(p) /\ o.pc = AfterStop(Kind(p)) /\ op' = [op EXCEPT ![p] = o]
      BY <1>s, <2>1 DEF Call
    <3> HIDE DEF o
    <3> QED  BY <1>o, <2>2, <3>2, <3>3, <3>4, <3>5
  <2>3. CASE Kind(p) # "pause"
    <3>1. AfterStop(Kind(p)) \notin PausePcs  BY <2>3 DEF AfterStop, PausePcs
    <3> DEFINE o == [op[p] EXCEPT !.pc = AfterStop(Kind(p))]
    <3>2. o.kind = Kind(p) /\ o.pc = AfterStop(Kind(p)) /\ op' = [op EXCEPT ![p] = o]
      BY <1>s, <2>1 DEF Call
    <3> HIDE DEF o
    <3> QED  BY <1>e, <2>1, <2>3, <3>1, <3>2
  <2> QED  BY <2>2, <2>3
<1>6. CASE PauseRead(p)
  <2>1. Kind(p) = "pause" /\ pauseIntent /\ Calm
    BY <1>6, <1>t DEF PauseRead, At, Pausing, PausePcs
  <2>2. Calm'  BY <1>6, <2>1 DEF PauseRead, Calm, Live
  <2>3. CASE Call(p, [op[p] EXCEPT !.pc = "commitPause", !.snap = row], Tail(dbq))
             /\ UNCHANGED pauseIntent
    BY <1>o, <1>s, <2>1, <2>2, <2>3 DEF Call, PausePcs
  <2>4. CASE Return(p, Tail(dbq))
    BY <1>o, <2>1, <2>4 DEF Return
  <2> QED  BY <1>6, <2>3, <2>4 DEF PauseRead
<1>7. CASE PauseCommit(p)
  <2>1. Kind(p) = "pause"
    BY <1>7, <1>t DEF PauseCommit, At, Pausing, PausePcs
  <2> QED  BY <1>7, <1>o, <2>1 DEF PauseCommit, Return
\* Every other step is served at a place no pause is at.
<1>n. ASSUME op[p].pc \notin PausePcs \cup {"waitStop"} PROVE Kind(p) # "pause"
  BY <1>t, <1>n DEF Pausing
<1>2. CASE CadenceSaved(p)
  BY <1>2, <1>c, <1>n DEF CadenceSaved, At, DbPcs, PausePcs
<1>3. CASE ReadThenRun(p)
  BY <1>3, <1>r, <1>n DEF ReadThenRun, At, PausePcs
<1>4. CASE ConfigRead(p)
  BY <1>4, <1>c, <1>r, <1>n DEF ConfigRead, At, DbPcs, PausePcs
<1>5. CASE WriteConfig(p)
  BY <1>5, <1>c, <1>r, <1>n DEF WriteConfig, At, DbPcs, PausePcs
<1>8. CASE ResumeRead(p)
  BY <1>8, <1>c, <1>r, <1>n DEF ResumeRead, At, DbPcs, PausePcs
<1>9. CASE ResumeCommit(p)
  BY <1>9, <1>r, <1>n DEF ResumeCommit, At, PausePcs
<1>10. CASE Opened(p)
  <2> DEFINE o == [op[p] EXCEPT !.snap = row]
  <2>1. Kind(p) # "pause" /\ UNCHANGED pauseIntent
    BY <1>10, <1>n DEF Opened, At, PausePcs
  <2>2. o \in OpRecs /\ o.kind = Kind(p) /\ [o EXCEPT !.pc = "create"] = [op[p] EXCEPT !.pc = "create", !.snap = row]
        /\ [o EXCEPT !.pc = "createRoot"] = [op[p] EXCEPT !.pc = "createRoot", !.snap = row]
        /\ [o EXCEPT !.pc = "user"].kind = Kind(p) /\ [o EXCEPT !.pc = "user"].pc = "user"
    BY <1>t DEF LoopInv, Types, OpRecs, Kind
  <2>3. CASE Call(p, [o EXCEPT !.pc = "create"], Tail(dbq))
             \/ Call(p, [o EXCEPT !.pc = "createRoot"], Tail(dbq))
    BY <1>c, <2>1, <2>2, <2>3 DEF DbPcs, PausePcs
  <2>4. CASE BeginStop(p, o, Tail(dbq))
    BY <1>b, <2>1, <2>2, <2>4
  <2>5. CASE op' = [op EXCEPT ![p] = [o EXCEPT !.pc = "user"]]
    BY <1>e, <2>1, <2>2, <2>5 DEF PausePcs
  <2>6. CASE Return(p, Tail(dbq))
    BY <1>r, <2>1, <2>6
  <2> QED  BY <1>10, <2>3, <2>4, <2>5, <2>6 DEF Opened, Quiesce
<1>11. CASE Rechecked(p)
  BY <1>11, <1>b, <1>r, <1>n, <1>t DEF Rechecked, At, Quiesce, PausePcs, Kind
<1>12. CASE ScopeTx(p)
  BY <1>12, <1>c, <1>x, <1>n DEF ScopeTx, At, DbPcs, PausePcs
<1>13. CASE ScopeRestart(p)
  BY <1>13, <1>r, <1>x, <1>n DEF ScopeRestart, At, PausePcs
<1>14. CASE Restore(p)
  BY <1>14, <1>r, <1>n DEF Restore, At, PausePcs
<1>15. CASE VaultSaved(p)
  <2>1. [op[p] EXCEPT !.kind = "cancel"] \in OpRecs /\ [op[p] EXCEPT !.kind = "cancel"].kind # "pause"
    BY <1>t DEF OpRecs, AllKinds
  <2>2. Kind(p) # "pause" /\ UNCHANGED pauseIntent
    BY <1>15, <1>n DEF VaultSaved, At, PausePcs
  <2> QED  BY <1>15, <1>c, <1>r, <1>b, <1>x, <2>1, <2>2 DEF VaultSaved, DbPcs, PausePcs
<1>16. CASE StatusSet(p)
  BY <1>16, <1>c, <1>x, <1>n DEF StatusSet, Reconnected, At, DbPcs, PausePcs
<1>17. CASE CreateAccount(p)
  <2>1. Types'  BY <1>17, TypesNext DEF LoopInv, OpNext, Next
  <2> DEFINE o == [op[p] EXCEPT !.snap = row', !.own = ~row.exists]
  <2>2. o \in OpRecs /\ o.kind = Kind(p)
    BY <1>t, <2>1 DEF OpRecs, Types, Rows, Kind
  <2>3. Kind(p) # "pause" /\ UNCHANGED pauseIntent /\ BeginStop(p, o, Tail(dbq))
    BY <1>17, <1>n DEF CreateAccount, At, PausePcs
  <2> HIDE DEF o
  <2> QED  BY <1>b, <2>2, <2>3
<1>18. CASE RemoveAccount(p) \/ RootCreated(p)
  BY <1>18, <1>r, <1>n DEF RemoveAccount, RootCreated, At, PausePcs
<1> QED
  BY <1>1, <1>2, <1>3, <1>4, <1>5, <1>6, <1>7, <1>8, <1>9, <1>10, <1>11, <1>12, <1>13, <1>14,
     <1>15, <1>16, <1>17, <1>18 DEF OpNext

(* After a restart nobody is pausing.                                      *)
LEMMA PauseCrash == ASSUME NEW p \in Procs, Crash(p) PROVE PauseOK'
<1>1. \A q \in Procs : op'[q].kind # "pause" /\ op'[q].pc \notin PausePcs
  BY DEF Crash, Idle, PausePcs
<1> QED  BY <1>1 DEF PauseOK, Pausing, Kind

(* PauseOK is inductive.                                                   *)
LEMMA PauseNext == ASSUME LoopInv, PauseOK, [Next]_vars PROVE PauseOK'
<1>q. ASSUME UNCHANGED <<op, pauseIntent>>, Kept PROVE PauseOK'
  <2>1. \A h : Held(h) => (h = running \/ Calm)'  BY <1>q DEF Kept, Held
  <2>2. ASSUME NEW p \in Procs PROVE Pausing(p)'
    BY <1>q, <2>1 DEF PauseOK, Pausing, Kind, Held, Kept
  <2> QED  BY <1>q, <2>2 DEF PauseOK, Kind
<1>1. CASE UNCHANGED vars  BY <1>1, <1>q, QuietKeeps DEF vars, LoopInv
<1>2. CASE Respawn \/ \E p \in Procs : Watchdog(p)
  BY <1>2, <1>q, QuietKeeps DEF Respawn, Watchdog, LoopInv
<1>3. ASSUME NEW l \in Loops, LoopNext(l) PROVE PauseOK'
  <2>1. UNCHANGED <<op, pauseIntent>>
    BY <1>3 DEF LoopNext, PrevStopped, Entry, Pull, SubCommit, Settle, LiveRead, ErrRead,
       ReadCursor, LiveCommit, CallFailed, Caught, ErrCommit, Sleep, Drain, PassEnds, Quiet
  <2> QED  BY <1>3, <1>q, <2>1, LoopKeeps
<1> QED  BY <1>1, <1>2, <1>3, PauseStart, PauseUser, PauseOp, PauseCrash DEF Next

----------------------------------------------------------------------------
(***************************************************************************)
(* While 'paused' is committed no loop pulls.  The commit finds no loop    *)
(* alive; a loop that starts later reads the status before it pulls; and   *)
(* no loop writes 'paused' itself.                                         *)
(***************************************************************************)
IsPaused == row.exists /\ row.status = "paused"
NotMarked == \A l \in Loops : loop[l].st # "paused"
\* The step lets no loop begin to pull, and marks none.
NoneBegins ==
  \A l \in Loops : /\ loop'[l].pc \in PullPcs => loop[l].pc \in PullPcs
                   /\ loop'[l].st = "paused" => loop[l].st = "paused"

(* Nobody begins to pull and nobody commits 'paused'.                      *)
LEMMA NoneBeginsKeeps ==
  ASSUME PausedIsIdle, NotMarked, NoneBegins, IsPaused' => IsPaused
  PROVE  (PausedIsIdle /\ NotMarked)'
BY DEF PausedIsIdle, NotMarked, NoneBegins, IsPaused

(* An abort moves no loop (handle.stop).                                   *)
LEMMA AbortBeginsNone ==
  ASSUME Types, loop' = loop \/ loop' = Abort(running) PROVE NoneBegins
<1>1. \A l \in Loops : loop'[l].pc = loop[l].pc /\ loop'[l].st = loop[l].st
  BY DEF Abort, Types, LoopRecs
<1> QED  BY <1>1 DEF NoneBegins

(* A new loop waits for the one before it; a settled handle is over.       *)
LEMMA RunBeginsNone ==
  ASSUME Types, NEW acc, NEW pi, NEW ti, Run(acc, pi, ti) \/ NoRun PROVE NoneBegins
<1>1. CASE UNCHANGED loop  BY <1>1, AbortBeginsNone
<1>2. ASSUME NEW f \in [Loops -> LoopRecs], NEW r, r.pc \notin PullPcs, r.st # "paused",
             loop' = [f EXCEPT ![runs + 1] = r],
             \A l \in Loops : f[l].pc = loop[l].pc /\ f[l].st = loop[l].st
      PROVE  NoneBegins
  BY <1>2 DEF NoneBegins
<1>3. CASE Install(acc)
  <2>1. Abort(running) \in [Loops -> LoopRecs]
        /\ \A l \in Loops : Abort(running)[l].pc = loop[l].pc /\ Abort(running)[l].st = loop[l].st
    BY AbortType DEF Abort, Types, LoopRecs
  <2>2. NewLoop(acc).pc \notin PullPcs /\ NewLoop(acc).st # "paused"
    BY DEF NewLoop, NoLoop, PullPcs
  <2> QED  BY <1>2, <1>3, <2>1, <2>2 DEF Install
<1>4. CASE InstallSettled
  <2>1. [NoLoop EXCEPT !.pc = "done"].pc \notin PullPcs /\ [NoLoop EXCEPT !.pc = "done"].st # "paused"
    BY DEF NoLoop, PullPcs
  <2> QED  BY <1>2, <1>4, <2>1 DEF InstallSettled, Types
<1> QED  BY <1>1, <1>3, <1>4 DEF Run, NoRun

(* Nothing is committed when an operation begins or the user answers.      *)
LEMMA PausedStart ==
  ASSUME Types, PausedIsIdle, NotMarked, NEW p \in Procs, OpStart(p) \/ UserStep(p)
  PROVE  (PausedIsIdle /\ NotMarked)'
<1>1. UNCHANGED row /\ (loop' = loop \/ loop' = Abort(running))
  BY DEF OpStart, UserStep, Tick, SyncNow, SetCadence, UpdateConfig, SetOption, UpdateOutbound, Pause,
     Resume, Installed, StartFlow, EnsureRoot, Connect, Remove, Picked, SignedIn,
     FlowAbandoned, Quiesce, BeginStop
<1> QED  BY <1>1, AbortBeginsNone, NoneBeginsKeeps DEF IsPaused

(* What the operations commit: only a pause commits 'paused'.              *)
LEMMA PausedOp ==
  ASSUME Types, PauseOK, PausedIsIdle, NotMarked, NEW p \in Procs, OpNext(p)
  PROVE  (PausedIsIdle /\ NotMarked)'
<1>r. row \in Rows /\ op[p] \in OpRecs  BY DEF Types
<1>k. ASSUME NoneBegins, UNCHANGED row PROVE (PausedIsIdle /\ NotMarked)'
  BY <1>k, NoneBeginsKeeps DEF IsPaused
<1>1. CASE StopDone(p) \/ CadenceSaved(p) \/ ConfigRead(p) \/ PauseRead(p) \/ ResumeRead(p)
  BY <1>1, <1>k, AbortBeginsNone DEF StopDone, CadenceSaved, ConfigRead, PauseRead, ResumeRead
<1>2. CASE ReadThenRun(p) \/ ScopeRestart(p) \/ Restore(p)
  BY <1>2, <1>k, RunBeginsNone DEF ReadThenRun, ScopeRestart, Restore
<1>3. CASE Opened(p) \/ Rechecked(p)
  BY <1>3, <1>k, AbortBeginsNone DEF Opened, Rechecked, Quiesce, BeginStop
<1>4. CASE VaultSaved(p)
  <2>1. \/ loop' = loop \/ loop' = Abort(running)
        \/ Run(op[p].snap, pauseIntent, transIntent)
    BY <1>4 DEF VaultSaved, BeginStop
  <2> QED  BY <1>4, <1>k, <2>1, AbortBeginsNone, RunBeginsNone DEF VaultSaved
<1>5. CASE WriteConfig(p)
  <2>1. row'.exists = row.exists /\ row'.status = row.status
    BY <1>5, <1>r DEF WriteConfig, ConfigWritten, Rows
  <2> QED  BY <1>5, <2>1, AbortBeginsNone, NoneBeginsKeeps DEF WriteConfig, IsPaused
<1>6. CASE PauseCommit(p)
  <2>1. Calm  BY <1>6 DEF PauseCommit, At, PauseOK, Pausing, PausePcs
  <2>2. UNCHANGED loop  BY <1>6 DEF PauseCommit
  <2>3. \A l \in Loops : loop'[l].pc \notin PullPcs
    BY <2>1, <2>2 DEF Calm, Live, Ended, PullPcs
  <2> QED  BY <2>2, <2>3 DEF PausedIsIdle, NotMarked
<1>7. CASE ResumeCommit(p)
  <2>1. NoneBegins  BY <1>7, RunBeginsNone DEF ResumeCommit
  <2>2. row' = row \/ row'.status = "connecting"
    BY <1>7, <1>r DEF ResumeCommit, StatusCommit, Rows
  <2> QED  BY <2>1, <2>2, NoneBeginsKeeps DEF IsPaused
<1>8. CASE ScopeTx(p)
  <2>1. row'.exists = row.exists /\ row'.status = row.status
    BY <1>8, <1>r DEF ScopeTx, ScopeSaved, Rows
  <2> QED  BY <1>8, <2>1, AbortBeginsNone, NoneBeginsKeeps DEF ScopeTx, IsPaused
<1>9. CASE StatusSet(p)
  <2>1. row' = row \/ row'.status = "connecting"
    BY <1>9, <1>r DEF StatusSet, Reconnected, Rows
  <2> QED  BY <1>9, <2>1, AbortBeginsNone, NoneBeginsKeeps DEF StatusSet, Reconnected, IsPaused
<1>10. CASE CreateAccount(p)
  <2>1. row'.status = "connecting"
    <3>1. CASE Upsert(p)  BY <3>1, <1>r DEF Upsert, Rows
    <3>2. CASE row' = NewRow  BY <3>2 DEF NewRow, InitRow
    <3> QED  BY <1>10, <3>1, <3>2 DEF CreateAccount
  <2>2. NoneBegins  BY <1>10, AbortBeginsNone DEF CreateAccount, BeginStop
  <2> QED  BY <2>1, <2>2, NoneBeginsKeeps DEF IsPaused
<1>11. CASE RemoveAccount(p)
  <2>1. ~row'.exists  BY <1>11, <1>r DEF RemoveAccount, Rows
  <2> QED  BY <1>11, <2>1, AbortBeginsNone, NoneBeginsKeeps DEF RemoveAccount, IsPaused
<1>12. CASE RootCreated(p)
  <2>1. row' = row \/ row'.status = "connecting"
    <3>1. CASE Upsert(p)  BY <3>1, <1>r DEF Upsert, Rows
    <3>2. CASE row' = NewRow  BY <3>2 DEF NewRow, InitRow
    <3> QED  BY <1>12, <3>1, <3>2 DEF RootCreated
  <2>2. NoneBegins  BY <1>12, RunBeginsNone DEF RootCreated
  <2> QED  BY <2>1, <2>2, NoneBeginsKeeps DEF IsPaused
<1> QED
  BY <1>1, <1>2, <1>3, <1>4, <1>5, <1>6, <1>7, <1>8, <1>9, <1>10, <1>11, <1>12 DEF OpNext

(* A loop reads the status before it pulls, and never commits 'paused'.    *)
LEMMA PausedLoop ==
  ASSUME Types, PausedIsIdle, NotMarked, NEW l \in Loops, LoopNext(l)
  PROVE  (PausedIsIdle /\ NotMarked)'
<1>t. loop \in [Loops -> LoopRecs] /\ row \in Rows  BY DEF Types
<1>c. ASSUME NEW s, NEW g, NEW n PROVE StatusCommit(s, g, n).status = s
  BY <1>t DEF StatusCommit, Rows
\* What becomes of loop l: it does not begin to pull, and is not marked.
<1>m. ASSUME NEW pc, NEW st, loop'[l].pc = pc, loop'[l].st = st,
             \A k \in Loops \ {l} : loop'[k] = loop[k],
             pc \in PullPcs => loop[l].pc \in PullPcs, st # "paused",
             row' = row \/ row'.status # "paused"
      PROVE  (PausedIsIdle /\ NotMarked)'
  <2>1. NoneBegins  BY <1>m DEF NoneBegins
  <2> QED  BY <1>m, <2>1, NoneBeginsKeeps DEF IsPaused
<1>u. loop[l].st # "paused"  BY DEF NotMarked
<1>s. ASSUME NEW q, NEW pc, LoopStep(l, pc, q), pc \in PullPcs => loop[l].pc \in PullPcs,
             row' = row \/ row'.status # "paused"
      PROVE  (PausedIsIdle /\ NotMarked)'
  <2>1. loop'[l].pc = pc /\ loop'[l].st = loop[l].st /\ \A k \in Loops \ {l} : loop'[k] = loop[k]
    BY <1>s, <1>t DEF LoopStep, LoopRecs
  <2> QED  BY <1>m, <1>s, <1>u, <2>1
<1>f. ASSUME NEW q, Finish(l, q), row' = row \/ row'.status # "paused"
      PROVE  (PausedIsIdle /\ NotMarked)'
  <2>1. loop'[l].pc = "done" /\ loop'[l].st = "connecting" /\ \A k \in Loops \ {l} : loop'[k] = loop[k]
    BY <1>f, <1>t DEF Finish, NoLoop
  <2> QED  BY <1>m, <1>f, <2>1 DEF PullPcs
<1>p. PullPcs = {"pull", "commit", "settle", "liveRead", "liveCommit"}  BY DEF PullPcs
<1>1. CASE PrevStopped(l)
  BY <1>1, <1>s, <1>f, <1>p DEF PrevStopped
<1>2. CASE Entry(l)
  <2>1. CASE Finish(l, Tail(dbq))  BY <1>2, <1>f, <2>1 DEF Entry
  <2>2. ASSUME ~IsParked(Fresh(l).status), NEW rec,
               loop' = [loop EXCEPT ![l].pc = "pull", ![l].gen = Fresh(l).gen,
                                    ![l].pos = Fresh(l).pos, ![l].rec = rec]
        PROVE  (PausedIsIdle /\ NotMarked)'
    <3>1. ~IsPaused  BY <2>2 DEF IsPaused, Fresh, IsParked
    <3>2. UNCHANGED row  BY <1>2 DEF Entry
    <3>3. \A k \in Loops : loop'[k].st = loop[k].st  BY <1>t, <2>2 DEF LoopRecs
    <3> QED  BY <3>1, <3>2, <3>3 DEF IsPaused, PausedIsIdle, NotMarked
  <2> QED  BY <1>2, <2>1, <2>2 DEF Entry
<1>3. CASE Pull(l)
  BY <1>3, <1>s, <1>p DEF Pull
<1>4. CASE SubCommit(l)
  <2>1. loop'[l].st = loop[l].st /\ loop[l].pc \in PullPcs /\ \A k \in Loops \ {l} : loop'[k] = loop[k]
    BY <1>4, <1>t DEF SubCommit, LoopRecs, PullPcs
  <2>2. row'.status # "paused"
    BY <1>4, <1>c DEF SubCommit
  <2> QED  BY <1>m, <1>u, <2>1, <2>2
<1>5. CASE Settle(l)
  BY <1>5, <1>s, <1>f, <1>p DEF Settle
<1>6. CASE LiveRead(l) \/ ErrRead(l)
  <2>1. ASSUME NEW from, NEW to, ReadCursor(l, from, to), to \in PullPcs => from \in PullPcs
        PROVE  (PausedIsIdle /\ NotMarked)'
    <3>1. loop'[l].pc = to /\ loop'[l].st = loop[l].st /\ \A k \in Loops \ {l} : loop'[k] = loop[k]
      BY <1>t, <2>1 DEF ReadCursor, LoopRecs
    <3> QED  BY <1>m, <1>u, <2>1, <3>1 DEF ReadCursor
  <2> QED  BY <1>6, <2>1, <1>p DEF LiveRead, ErrRead
<1>7. CASE LiveCommit(l)
  BY <1>7, <1>f, <1>c DEF LiveCommit
<1>8. CASE CallFailed(l)
  BY <1>8, <1>s, <1>c, <1>p DEF CallFailed
<1>9. CASE Caught(l)
  <2>1. ASSUME NEW s, s # "paused", loop' = [loop EXCEPT ![l].pc = "errRead", ![l].st = s]
        PROVE  (PausedIsIdle /\ NotMarked)'
    <3>1. loop'[l].pc = "errRead" /\ loop'[l].st = s /\ \A k \in Loops \ {l} : loop'[k] = loop[k]
      BY <1>t, <2>1 DEF LoopRecs
    <3> QED  BY <1>9, <1>m, <1>p, <2>1, <3>1 DEF Caught
  <2>2. ASSUME NEW n, loop' = [loop EXCEPT ![l].pc = "sleep", ![l].retries = n]
        PROVE  (PausedIsIdle /\ NotMarked)'
    <3>1. loop'[l].pc = "sleep" /\ loop'[l].st = loop[l].st /\ \A k \in Loops \ {l} : loop'[k] = loop[k]
      BY <1>t, <2>2 DEF LoopRecs
    <3> QED  BY <1>9, <1>m, <1>p, <1>u, <3>1 DEF Caught
  <2> QED  BY <1>9, <1>f, <2>1, <2>2 DEF Caught, Retry
<1>10. CASE ErrCommit(l)
  BY <1>10, <1>f, <1>c, <1>u DEF ErrCommit
<1>11. CASE Sleep(l)
  BY <1>11, <1>s, <1>f, <1>p DEF Sleep
<1>12. CASE Drain(l)
  BY <1>12, <1>f DEF Drain
<1>13. CASE PassEnds(l)
  <2>1. loop'[l].pc = loop[l].pc /\ loop'[l].st = loop[l].st /\ \A k \in Loops \ {l} : loop'[k] = loop[k]
    BY <1>13, <1>t DEF PassEnds, LoopRecs
  <2> QED  BY <1>13, <1>m, <1>u, <2>1 DEF PassEnds
<1> QED
  BY <1>1, <1>2, <1>3, <1>4, <1>5, <1>6, <1>7, <1>8, <1>9, <1>10, <1>11, <1>12, <1>13 DEF LoopNext

PauseInv == LoopInv /\ PauseOK /\ PausedIsIdle /\ NotMarked

(* PauseInv is inductive.                                                  *)
LEMMA PauseInvNext ==
  ASSUME "respawn" \notin Kinds, PauseInv, [Next]_vars PROVE PauseInv'
<1> USE DEF PauseInv
<1>1. LoopInv' /\ PauseOK' /\ Types  BY LoopInvNext, PauseNext DEF LoopInv
<1>2. CASE UNCHANGED <<row, loop>>
  BY <1>1, <1>2, AbortBeginsNone, NoneBeginsKeeps DEF IsPaused
<1>3. CASE UNCHANGED vars \/ Respawn \/ \E p \in Procs : Watchdog(p)
  BY <1>2, <1>3 DEF vars, Respawn, Watchdog
<1>4. ASSUME NEW p \in Procs, Crash(p) PROVE (PausedIsIdle /\ NotMarked)'
  <2>1. NoneBegins  BY <1>4 DEF Crash, NoLoop, NoneBegins, PullPcs
  <2> QED  BY <1>4, <2>1, NoneBeginsKeeps DEF IsPaused, Crash
<1> QED  BY <1>1, <1>3, <1>4, PausedStart, PausedOp, PausedLoop DEF Next

(* Nothing runs at the start.                                              *)
LEMMA PauseInvInit == Init => PauseInv
<1> SUFFICES ASSUME Init PROVE PauseInv  OBVIOUS
<1>1. \A p \in Procs : op[p].kind = "none" /\ op[p].pc = "idle"  BY DEF Init, Idle
<1>2. PauseOK  BY <1>1 DEF PauseOK, Pausing, Kind, PausePcs
<1>3. \A l \in Loops : loop[l].pc = "unused" /\ loop[l].st = "connecting"  BY DEF Init, NoLoop
<1>4. PausedIsIdle /\ NotMarked  BY <1>3 DEF PausedIsIdle, NotMarked, PullPcs
<1> QED  BY <1>2, <1>4, LoopInvInit DEF PauseInv

(* engine.pause: while 'paused' is committed no loop is pulling, so that   *)
(* no batch and no end-of-stream commit overwrites it, however the pause   *)
(* interleaves with ticks, saves, transitions, removals and crashes.       *)
THEOREM PausedStaysIdle ==
  ASSUME "respawn" \notin Kinds PROVE Spec => []PausedIsIdle
<1>1. PauseInv /\ [Next]_vars => PauseInv'  BY PauseInvNext
<1>2. PauseInv => PausedIsIdle  BY DEF PauseInv
<1> QED  BY <1>1, <1>2, PauseInvInit, PTL DEF Spec

----------------------------------------------------------------------------
(***************************************************************************)
(* A transition that claims its account holds the flow slot until it ends; *)
(* from the return of its stop() to the end of its writes its intent is up *)
(* and no loop is alive.                                                   *)
(***************************************************************************)
Flows == {"manage", "reconnect"}
FlowPcs == {"tx", "after", "setStatus", "restore"}
Transiting(p) ==
  /\ Kind(p) # "ensure"
  /\ op[p].pc \in FlowPcs => Kind(p) \in Flows
  /\ op[p].pc = "create" => Kind(p) \notin Flows
  /\ Kind(p) \in Flows =>
       /\ flow = p
       /\ op[p].pc = "waitStop" => transIntent /\ Held(op[p].h)
       /\ op[p].pc \in TransitionPcs => transIntent /\ Calm
TransOK == \A p \in Procs : Transiting(p)

\* A step of p does not touch the flow another process holds, nor its intent.
Apart(p) ==
  /\ \A q \in Procs \ {p} : op'[q] = op[q] /\ (flow = q => flow' = q)
  /\ flow = p \/ transIntent' \in {TRUE, transIntent}
  /\ flow # p /\ transIntent => Kept

(* What another process does leaves a transition as it was.                *)
LEMMA ApartKeeps ==
  ASSUME TransOK, NEW p \in Procs, Apart(p), Transiting(p)' PROVE TransOK'
<1>1. ASSUME NEW q \in Procs \ {p} PROVE Transiting(q)'
  <2>1. Transiting(q) /\ op'[q] = op[q] /\ (flow = q => flow' = q /\ flow # p)
    BY DEF TransOK, Apart
  <2>2. CASE Kind(q) \notin Flows  BY <2>1, <2>2 DEF Transiting, Kind
  <2>3. CASE Kind(q) \in Flows
    <3>1. flow = q /\ flow' = q /\ (transIntent => transIntent' /\ Kept)
      BY <2>1, <2>3 DEF Transiting, Apart
    <3>2. transIntent /\ Calm => Calm'  BY <3>1 DEF Kept
    <3>3. transIntent /\ Held(op[q].h) => (op[q].h = running \/ Calm)'  BY <2>1, <3>1 DEF Kept, Held
    <3> QED  BY <2>1, <2>3, <3>1, <3>2, <3>3 DEF Transiting, Kind, Held
  <2> QED  BY <2>2, <2>3
<1> QED  BY <1>1 DEF TransOK

(* An operation that is no transition, or not yet or no longer one that    *)
(* writes.                                                                 *)
LEMMA OutsideTransits ==
  ASSUME Types, NEW p \in Procs, NEW o, op' = [op EXCEPT ![p] = o], o.kind # "ensure",
         o.pc \notin FlowPcs, o.kind \in Flows => o.pc \notin {"waitStop", "vault", "create"} /\ flow' = p
  PROVE  Transiting(p)'
<1>1. op'[p] = o  BY DEF Types
<1> QED  BY <1>1 DEF Transiting, Kind, FlowPcs, TransitionPcs

(* Other processes' records stay, and their flow.                          *)
LEMMA Slots ==
  ASSUME Types, NEW p \in Procs, NEW o, op' = [op EXCEPT ![p] = o],
         UNCHANGED flow \/ Release(p) \/ (flow = None /\ flow' = p)
  PROVE  \A q \in Procs \ {p} : op'[q] = op[q] /\ (flow = q => flow' = q)
BY ProcsAssumption DEF Types, Release

(* An operation begins: a flow claims a free slot (runAccountFlow).        *)
LEMMA TransStart ==
  ASSUME LoopInv, TransOK, "ensure" \notin Kinds, NEW p \in Procs, OpStart(p) PROVE TransOK'
<1>t. Types  BY DEF LoopInv
<1>k. UNCHANGED <<running, transIntent>> /\ (loop' = loop \/ loop' = Abort(running))
  BY DEF OpStart, Tick, SyncNow, SetCadence, UpdateConfig, SetOption, UpdateOutbound, Pause,
     Resume, Installed, StartFlow, EnsureRoot, Connect, Remove, BeginStop
<1>l. Kept  BY <1>t, <1>k, QuietKeeps
<1>e. ASSUME NEW o, op' = [op EXCEPT ![p] = o], o.kind # "ensure", o.pc \notin FlowPcs,
             o.kind \in Flows => o.pc \notin {"waitStop", "vault", "create"} /\ flow' = p,
             UNCHANGED flow \/ (flow = None /\ flow' = p)
      PROVE  TransOK'
  <2>1. Apart(p)  BY <1>t, <1>k, <1>l, <1>e, Slots DEF Apart
  <2> QED  BY <1>t, <1>e, <2>1, OutsideTransits, ApartKeeps
<1>c. ASSUME NEW k, k # "ensure", NEW pc \in DbPcs \ (FlowPcs \cup {"vault", "create"}),
             Call(p, [Idle EXCEPT !.kind = k, !.pc = pc], dbq),
             \/ k \notin Flows /\ UNCHANGED flow
             \/ flow = None /\ flow' = p
      PROVE  TransOK'
  <2> DEFINE o == [Idle EXCEPT !.kind = k, !.pc = pc]
  <2>1. o.kind = k /\ o.pc = pc  BY DEF Idle
  <2>2. op' = [op EXCEPT ![p] = o]  BY <1>c DEF Call
  <2> HIDE DEF o
  <2>3. pc # "waitStop"  BY DEF DbPcs
  <2> QED  BY <1>c, <1>e, <2>1, <2>2, <2>3
<1>s. ASSUME NEW k \in {"pause", "remove"}, UNCHANGED flow, BeginStop(p, [Idle EXCEPT !.kind = k], dbq)
      PROVE  TransOK'
  <2> DEFINE o == [[Idle EXCEPT !.kind = k] EXCEPT !.pc = "waitStop", !.h = running, !.was = IsRunning]
  <2>1. o.kind = k /\ o.pc = "waitStop"  BY DEF Idle
  <2>2. op' = [op EXCEPT ![p] = o]  BY <1>s DEF BeginStop
  <2> HIDE DEF o
  <2> QED  BY <1>e, <1>s, <2>1, <2>2 DEF FlowPcs, Flows
<1>4. {"readRun", "cadence", "readCfg", "readResume", "readOpen"}
        \subseteq DbPcs \ (FlowPcs \cup {"vault", "create"})
  BY DEF DbPcs, FlowPcs
<1>f. {"tick", "syncNow", "setCadence", "updateConfig", "setOption", "outbound", "resume", "installed", "connect"}
        \cap Flows = {}
  BY DEF Flows
<1>5. CASE Tick(p) \/ SyncNow(p) \/ SetCadence(p)
  BY <1>c, <1>4, <1>5, <1>f DEF Tick, SyncNow, SetCadence
<1>6. CASE UpdateConfig(p) \/ SetOption(p) \/ UpdateOutbound(p)
  BY <1>c, <1>4, <1>6, <1>f DEF UpdateConfig, SetOption, UpdateOutbound
<1>7. CASE Resume(p) \/ Installed(p)
  BY <1>c, <1>4, <1>7, <1>f DEF Resume, Installed
<1>8. CASE Connect(p)
  BY <1>c, <1>4, <1>8, <1>f DEF Connect
<1>9. CASE StartFlow(p, "manage") \/ StartFlow(p, "reconnect")
  BY <1>c, <1>4, <1>9 DEF StartFlow
<1>10. CASE Pause(p) \/ Remove(p)
  BY <1>s, <1>10 DEF Pause, Remove
<1> QED  BY <1>5, <1>6, <1>7, <1>8, <1>9, <1>10 DEF OpStart, EnsureRoot, Begin

(* The user answers: a sign-in that came through begins the transition.    *)
LEMMA TransUser ==
  ASSUME LoopInv, TransOK, NEW p \in Procs, UserStep(p) PROVE TransOK'
<1>t. Types /\ Transiting(p) /\ op[p] \in OpRecs  BY DEF LoopInv, TransOK, Types
<1>l. Kept
  <2>1. UNCHANGED running /\ (loop' = loop \/ loop' = Abort(running))
    BY DEF UserStep, Picked, SignedIn, FlowAbandoned, Quiesce, BeginStop
  <2> QED  BY <1>t, <2>1, QuietKeeps
<1>1. CASE Picked(p)
  <2> DEFINE o == [op[p] EXCEPT !.pc = "recheck"]
  <2>1. o.kind = "manage" /\ o.pc = "recheck" /\ flow = p /\ UNCHANGED <<flow, transIntent>>
    BY <1>1, <1>t DEF Picked, Doing, OpRecs, Transiting, Flows, Kind
  <2>2. op' = [op EXCEPT ![p] = o]  BY <1>1 DEF Picked, Call
  <2> HIDE DEF o
  <2>3. Apart(p)  BY <1>t, <1>l, <2>1, <2>2, Slots DEF Apart
  <2> QED  BY <1>t, <2>1, <2>2, <2>3, OutsideTransits, ApartKeeps DEF FlowPcs
<1>2. CASE SignedIn(p)
  <2> DEFINE o == [op[p] EXCEPT !.pc = "waitStop", !.h = running, !.was = IsRunning]
  <2>1. /\ o.kind = "reconnect" /\ o.pc = "waitStop" /\ o.h = running
        /\ flow = p /\ UNCHANGED <<flow, running>> /\ transIntent'
    BY <1>2, <1>t DEF SignedIn, Doing, Quiesce, OpRecs, Transiting, Flows, Kind
  <2>2. op' = [op EXCEPT ![p] = o]  BY <1>2 DEF SignedIn, Quiesce, BeginStop
  <2> HIDE DEF o
  <2>3. Apart(p)  BY <1>t, <1>l, <2>1, <2>2, Slots DEF Apart
  <2>4. op'[p] = o  BY <1>t, <2>2 DEF Types
  <2>5. Transiting(p)'
    BY <2>1, <2>4 DEF Transiting, Kind, Held, FlowPcs, TransitionPcs, Flows
  <2> QED  BY <2>3, <2>5, ApartKeeps
<1>3. CASE FlowAbandoned(p)
  <2>1. op' = [op EXCEPT ![p] = Idle] /\ Release(p) /\ UNCHANGED transIntent
    BY <1>3 DEF FlowAbandoned, Return
  <2>2. Idle.kind = "none" /\ Idle.pc = "idle"  BY DEF Idle
  <2>3. Apart(p)  BY <1>t, <1>l, <2>1, Slots DEF Apart
  <2> QED  BY <1>t, <2>1, <2>2, <2>3, OutsideTransits, ApartKeeps DEF FlowPcs, Flows
<1> QED  BY <1>1, <1>2, <1>3 DEF UserStep

(* An operation moves on: a transition's writes come after its stop() has  *)
(* returned, and its catch takes down its own intent.                      *)
LEMMA TransOp ==
  ASSUME LoopInv, TransOK, NEW p \in Procs, OpNext(p) PROVE TransOK'
<1>t. Types /\ Transiting(p) /\ op[p] \in OpRecs /\ Kind(p) # "ensure"
  BY DEF LoopInv, TransOK, Types, Transiting
<1>i. Idle.kind = "none" /\ Idle.pc = "idle"  BY DEF Idle
<1>s. ASSUME NEW pc, NEW r
      PROVE  /\ [op[p] EXCEPT !.pc = pc].kind = Kind(p)
             /\ [op[p] EXCEPT !.pc = pc].pc = pc
             /\ [op[p] EXCEPT !.pc = pc, !.snap = r].kind = Kind(p)
             /\ [op[p] EXCEPT !.pc = pc, !.snap = r].pc = pc
  BY <1>t DEF OpRecs, Kind
<1>m. op[p].pc = "after" => flow = p  BY <1>t DEF Transiting, FlowPcs
\* Only the end of a transition takes the intent down, and it holds the flow.
<1>a. ASSUME NEW o, op' = [op EXCEPT ![p] = o], UNCHANGED flow \/ Release(p),
             flow = p \/ transIntent' \in {TRUE, transIntent}
      PROVE  Apart(p)
  <2>1. flow # p /\ transIntent => Kept  BY <1>m, OpKeeps
  <2> QED  BY <1>t, <1>a, <2>1, Slots DEF Apart
<1>h. Kind(p) \in Flows => flow = p  BY <1>t DEF Transiting
<1>e. ASSUME NEW o, op' = [op EXCEPT ![p] = o], o.kind # "ensure", o.pc \notin FlowPcs,
             o.kind \in Flows => o.pc \notin {"waitStop", "vault", "create"} /\ flow' = p,
             UNCHANGED flow \/ Release(p), transIntent' = transIntent \/ flow = p
      PROVE  TransOK'
  <2>1. Apart(p)  BY <1>a, <1>e
  <2> QED  BY <1>t, <1>e, <2>1, OutsideTransits, ApartKeeps
<1>c. ASSUME NEW pc \in DbPcs \ (FlowPcs \cup {"vault", "create"}), NEW q,
             UNCHANGED flow, transIntent' = transIntent \/ flow = p,
             \/ Call(p, [op[p] EXCEPT !.pc = pc], q)
             \/ Call(p, [op[p] EXCEPT !.pc = pc, !.snap = row], q)
      PROVE  TransOK'
  <2>1. PICK o \in {[op[p] EXCEPT !.pc = pc], [op[p] EXCEPT !.pc = pc, !.snap = row]} :
          op' = [op EXCEPT ![p] = o]
    BY <1>c DEF Call
  <2>2. o.kind = Kind(p) /\ o.pc = pc  BY <1>t DEF OpRecs, Kind
  <2>3. pc # "waitStop"  BY DEF DbPcs
  <2> QED  BY <1>t, <1>c, <1>e, <1>h, <2>1, <2>2, <2>3
<1>r. ASSUME NEW q, UNCHANGED flow \/ Release(p), transIntent' = transIntent \/ flow = p, Return(p, q)
      PROVE  TransOK'
  BY <1>r, <1>e, <1>i DEF Return, FlowPcs, Flows
\* The stop of a transition, and that of an operation that is none.
<1>b. ASSUME NEW o \in OpRecs, NEW q, UNCHANGED <<flow, running>>, BeginStop(p, o, q),
             o.kind # "ensure", o.kind \in Flows => flow = p /\ transIntent' = TRUE,
             transIntent' \in {TRUE, transIntent}
      PROVE  TransOK'
  <2> DEFINE u == [o EXCEPT !.pc = "waitStop", !.h = running, !.was = IsRunning]
  <2>1. u.kind = o.kind /\ u.pc = "waitStop" /\ u.h = running  BY DEF OpRecs
  <2>2. op' = [op EXCEPT ![p] = u]  BY <1>b DEF BeginStop
  <2> HIDE DEF u
  <2>3. Apart(p)  BY <1>a, <1>b, <2>2
  <2>4. op'[p] = u  BY <1>t, <2>2 DEF Types
  <2>5. Transiting(p)'
    BY <1>b, <2>1, <2>4 DEF Transiting, Kind, Held, FlowPcs, TransitionPcs
  <2> QED  BY <2>3, <2>5, ApartKeeps
\* A transition goes on to its next write, the loops still at rest.
<1>w. ASSUME Kind(p) \in Flows, transIntent, Calm, UNCHANGED <<loop, flow, transIntent>>, NEW q,
             NEW pc \in TransitionPcs, Call(p, [op[p] EXCEPT !.pc = pc], q)
      PROVE  TransOK'
  <2> DEFINE o == [op[p] EXCEPT !.pc = pc]
  <2>1. o.kind = Kind(p) /\ o.pc = pc /\ op' = [op EXCEPT ![p] = o]  BY <1>s, <1>w DEF Call
  <2> HIDE DEF o
  <2>2. op'[p] = o /\ Calm'  BY <1>t, <1>w, <2>1 DEF Types, Calm, Live
  <2>3. Apart(p)  BY <1>a, <1>h, <1>w, <2>1
  <2>4. pc \notin {"create", "waitStop"}  BY DEF TransitionPcs
  <2>5. Transiting(p)'
    BY <1>t, <1>h, <1>w, <2>1, <2>2, <2>4 DEF Transiting, Kind
  <2> QED  BY <2>3, <2>5, ApartKeeps
<1>x. ASSUME Kind(p) \in Flows, CatchTransition(p) PROVE TransOK'
  <2>1. flow = p  BY <1>h, <1>x
  <2>2. CASE Call(p, [op[p] EXCEPT !.pc = "restore"], Tail(dbq)) /\ UNCHANGED flow
    <3> DEFINE o == [op[p] EXCEPT !.pc = "restore"]
    <3>1. o.kind = Kind(p) /\ o.pc = "restore" /\ op' = [op EXCEPT ![p] = o]  BY <1>s, <2>2 DEF Call
    <3> HIDE DEF o
    <3>2. op'[p] = o  BY <1>t, <3>1 DEF Types
    <3>3. Apart(p)  BY <1>a, <2>1, <2>2, <3>1
    <3>4. Transiting(p)'
      BY <1>t, <1>x, <2>1, <2>2, <3>1, <3>2 DEF Transiting, Kind, FlowPcs, TransitionPcs
    <3> QED  BY <3>3, <3>4, ApartKeeps
  <2>3. CASE Return(p, Tail(dbq)) /\ Release(p)
    BY <1>r, <2>1, <2>3
  <2> QED  BY <1>x, <2>2, <2>3 DEF CatchTransition
<1>1. CASE StopDone(p)
  <2>1. op[p].pc = "waitStop" /\ UNCHANGED <<loop, flow, transIntent>>
        /\ Call(p, [op[p] EXCEPT !.pc = AfterStop(Kind(p))], dbq)
    BY <1>1 DEF StopDone
  <2>2. CASE Kind(p) \in Flows
    <3>1. transIntent /\ Calm  BY <1>1, <1>t, <2>1, <2>2, StopFindsCalm DEF Transiting
    <3>2. AfterStop(Kind(p)) \in TransitionPcs  BY <2>2 DEF AfterStop, Flows, TransitionPcs
    <3> QED  BY <1>w, <2>1, <2>2, <3>1, <3>2
  <2>3. CASE Kind(p) \notin Flows
    <3> DEFINE o == [op[p] EXCEPT !.pc = AfterStop(Kind(p))]
    <3>1. o.kind = Kind(p) /\ o.pc = AfterStop(Kind(p)) /\ op' = [op EXCEPT ![p] = o]
      BY <1>s, <2>1 DEF Call
    <3> HIDE DEF o
    <3>2. AfterStop(Kind(p)) \notin FlowPcs
      BY <1>t, <2>3 DEF AfterStop, FlowPcs, Flows
    <3> QED  BY <1>t, <1>e, <2>1, <2>3, <3>1, <3>2
  <2> QED  BY <2>2, <2>3
<1>2. CASE CadenceSaved(p) \/ ConfigRead(p) \/ WriteConfig(p)
  BY <1>2, <1>c, <1>r DEF CadenceSaved, ConfigRead, WriteConfig, DbPcs, FlowPcs
<1>3. CASE ReadThenRun(p)
  BY <1>3, <1>r DEF ReadThenRun
<1>4. CASE PauseRead(p) \/ PauseCommit(p) \/ ResumeRead(p) \/ ResumeCommit(p)
  BY <1>4, <1>c, <1>r DEF PauseRead, PauseCommit, ResumeRead, ResumeCommit, DbPcs, FlowPcs
<1>10. CASE Opened(p)
  <2> DEFINE o == [op[p] EXCEPT !.snap = row]
  <2>1. UNCHANGED flow \/ Release(p)  BY <1>10 DEF Opened
  <2>2. o.kind = Kind(p) /\ [o EXCEPT !.pc = "create"].kind = Kind(p) /\ [o EXCEPT !.pc = "create"].pc = "create"
        /\ [o EXCEPT !.pc = "user"].kind = Kind(p) /\ [o EXCEPT !.pc = "user"].pc = "user"
    BY <1>t DEF OpRecs, Kind
  <2>3. CASE Kind(p) = "connect" /\ Call(p, [o EXCEPT !.pc = "create"], Tail(dbq))
             /\ UNCHANGED <<transIntent, flow>>
    <3>1. op' = [op EXCEPT ![p] = [o EXCEPT !.pc = "create"]]  BY <2>3 DEF Call
    <3> QED  BY <1>e, <2>2, <2>3, <3>1 DEF FlowPcs, Flows
  <2>4. CASE op' = [op EXCEPT ![p] = [o EXCEPT !.pc = "user"]] /\ UNCHANGED <<transIntent, flow>>
    BY <1>e, <1>h, <1>t, <2>2, <2>4 DEF FlowPcs
  <2>5. CASE Return(p, Tail(dbq)) /\ UNCHANGED transIntent
    BY <1>r, <2>1, <2>5
  <2> QED  BY <1>10, <1>t, <2>3, <2>4, <2>5 DEF Opened
<1>11. CASE Rechecked(p)
  <2>1. UNCHANGED running /\ op[p].kind = Kind(p)  BY <1>11 DEF Rechecked, Kind
  <2>2. CASE Quiesce(p, op[p], Tail(dbq)) /\ UNCHANGED flow
    BY <1>b, <1>h, <1>t, <2>1, <2>2 DEF Quiesce
  <2>3. CASE Return(p, Tail(dbq)) /\ Release(p) /\ UNCHANGED transIntent
    BY <1>r, <2>3
  <2> QED  BY <1>11, <2>2, <2>3 DEF Rechecked
<1>12. CASE ScopeTx(p)
  <2>1. Kind(p) \in Flows /\ transIntent /\ Calm /\ UNCHANGED loop
    BY <1>12, <1>t DEF ScopeTx, At, Transiting, FlowPcs, TransitionPcs
  <2>2. "after" \in TransitionPcs  BY DEF TransitionPcs
  <2> QED  BY <1>12, <1>w, <1>x, <2>1, <2>2 DEF ScopeTx
<1>13. CASE ScopeRestart(p) \/ Restore(p)
  <2>1. flow = p /\ Kind(p) \in Flows
    BY <1>13, <1>h, <1>t DEF ScopeRestart, Restore, At, Transiting, FlowPcs
  <2> QED  BY <1>13, <1>r, <1>x, <2>1 DEF ScopeRestart, Restore
<1>15. CASE VaultSaved(p)
  <2>1. CASE Kind(p) = "reconnect" /\ Call(p, [op[p] EXCEPT !.pc = "setStatus"], Tail(dbq))
             /\ UNCHANGED <<loop, transIntent, flow>>
    <3>1. Kind(p) \in Flows /\ transIntent /\ Calm
      BY <1>15, <1>t, <2>1 DEF VaultSaved, At, Transiting, TransitionPcs, Flows
    <3>2. "setStatus" \in TransitionPcs  BY DEF TransitionPcs
    <3> QED  BY <1>w, <2>1, <3>1, <3>2
  <2>2. CASE Kind(p) = "reconnect" /\ CatchTransition(p)
    BY <1>x, <2>2 DEF Flows
  <2>3. CASE Return(p, Tail(dbq)) /\ UNCHANGED <<transIntent, flow>>
    BY <1>r, <2>3
  <2>4. CASE BeginStop(p, [op[p] EXCEPT !.kind = "cancel"], Tail(dbq))
             /\ UNCHANGED <<running, transIntent, flow>>
    <3>1. [op[p] EXCEPT !.kind = "cancel"] \in OpRecs /\ [op[p] EXCEPT !.kind = "cancel"].kind = "cancel"
      BY <1>t DEF OpRecs, AllKinds
    <3> QED  BY <1>b, <2>4, <3>1 DEF Flows
  <2> QED  BY <1>15, <2>1, <2>2, <2>3, <2>4 DEF VaultSaved
<1>16. CASE StatusSet(p)
  <2>1. Kind(p) \in Flows  BY <1>16, <1>t DEF StatusSet, Reconnected, At, Transiting, FlowPcs
  <2> QED  BY <1>16, <1>c, <1>h, <1>x, <2>1 DEF StatusSet, Reconnected, DbPcs, FlowPcs
<1>17. CASE CreateAccount(p)
  <2>1. Types'  BY <1>17, TypesNext DEF LoopInv, OpNext, Next
  <2> DEFINE o == [op[p] EXCEPT !.snap = row', !.own = ~row.exists]
  <2>2. o \in OpRecs /\ o.kind = Kind(p)
    BY <1>t, <2>1 DEF OpRecs, Types, Rows, Kind
  <2>3. UNCHANGED <<running, flow, transIntent>> /\ BeginStop(p, o, Tail(dbq))
    BY <1>17 DEF CreateAccount
  <2>4. Kind(p) \notin Flows  BY <1>17, <1>t DEF CreateAccount, At, Transiting
  <2> HIDE DEF o
  <2> QED  BY <1>b, <1>t, <2>2, <2>3, <2>4
<1>18. CASE RemoveAccount(p) \/ RootCreated(p)
  BY <1>18, <1>r DEF RemoveAccount, RootCreated
<1> QED
  BY <1>1, <1>2, <1>3, <1>4, <1>10, <1>11, <1>12, <1>13, <1>15, <1>16, <1>17, <1>18 DEF OpNext

(* TransOK is inductive.                                                   *)
LEMMA TransNext ==
  ASSUME Kinds \cap {"respawn", "ensure", "watchdog"} = {}, LoopInv, TransOK, [Next]_vars
  PROVE  TransOK'
<1>q. ASSUME UNCHANGED <<op, flow, transIntent>>, Kept PROVE TransOK'
  <2>1. \A h : Held(h) => (h = running \/ Calm)'  BY <1>q DEF Kept, Held
  <2>2. ASSUME NEW p \in Procs PROVE Transiting(p)'
    BY <1>q, <2>1 DEF TransOK, Transiting, Kind, Held, Kept
  <2> QED  BY <2>2 DEF TransOK
<1>1. CASE UNCHANGED vars  BY <1>1, <1>q, QuietKeeps DEF vars, LoopInv
<1>2. CASE Respawn \/ \E p \in Procs : Watchdog(p)
  BY <1>2 DEF Respawn, Watchdog
<1>3. ASSUME NEW l \in Loops, LoopNext(l) PROVE TransOK'
  <2>1. UNCHANGED <<op, flow, transIntent>>
    BY <1>3 DEF LoopNext, PrevStopped, Entry, Pull, SubCommit, Settle, LiveRead, ErrRead,
       ReadCursor, LiveCommit, CallFailed, Caught, ErrCommit, Sleep, Drain, PassEnds, Quiet
  <2> QED  BY <1>3, <1>q, <2>1, LoopKeeps
<1>4. ASSUME NEW p \in Procs, Crash(p) PROVE TransOK'
  <2>1. \A q \in Procs : op'[q].kind \in {"boot", "none"} /\ op'[q].pc \in {"readRun", "idle"}
    BY <1>4 DEF Crash, Idle
  <2> QED  BY <2>1 DEF TransOK, Transiting, Kind, Flows, FlowPcs
<1> QED  BY <1>1, <1>2, <1>3, <1>4, TransStart, TransUser, TransOp DEF Next

(***************************************************************************)
(* A reconcile pass runs only within its loop's cycle: every way out of    *)
(* the cycle waits for it.                                                 *)
(***************************************************************************)
RecPcs == {"pull", "commit", "settle", "caught", "rejected", "drain"}
PassInside == \A l \in Loops : loop[l].rec => loop[l].pc \in RecPcs
\* No loop that has no pass begins one, and those that have one stay put.
SamePasses ==
  \A l \in Loops : loop'[l].rec => loop[l].rec /\ loop'[l].pc = loop[l].pc

(* A step that starts no pass and moves no loop that has one.              *)
LEMMA SamePassesKeep == ASSUME PassInside, SamePasses PROVE PassInside'
BY DEF PassInside, SamePasses

(* An abort ends no pass and starts none.                                  *)
LEMMA AbortPasses ==
  ASSUME Types, loop' = loop \/ loop' = Abort(running) PROVE SamePasses
<1>1. \A l \in Loops : loop'[l].pc = loop[l].pc /\ loop'[l].rec = loop[l].rec
  BY DEF Abort, Types, LoopRecs
<1> QED  BY <1>1 DEF SamePasses

(* A loop is born without a pass.                                          *)
LEMMA RunPasses ==
  ASSUME Types, NEW acc, NEW pi, NEW ti, Run(acc, pi, ti) \/ NoRun PROVE SamePasses
<1>1. CASE UNCHANGED loop  BY <1>1, AbortPasses
<1>2. ASSUME NEW f \in [Loops -> LoopRecs], NEW r, ~r.rec, loop' = [f EXCEPT ![runs + 1] = r],
             \A l \in Loops : f[l].pc = loop[l].pc /\ f[l].rec = loop[l].rec
      PROVE  SamePasses
  BY <1>2 DEF SamePasses
<1>3. CASE Install(acc)
  <2>1. Abort(running) \in [Loops -> LoopRecs]
        /\ \A l \in Loops : Abort(running)[l].pc = loop[l].pc /\ Abort(running)[l].rec = loop[l].rec
    BY AbortType DEF Abort, Types, LoopRecs
  <2>2. ~NewLoop(acc).rec  BY DEF NewLoop, NoLoop
  <2> QED  BY <1>2, <1>3, <2>1, <2>2 DEF Install
<1>4. CASE InstallSettled
  <2>1. ~[NoLoop EXCEPT !.pc = "done"].rec  BY DEF NoLoop
  <2> QED  BY <1>2, <1>4, <2>1 DEF InstallSettled, Types
<1> QED  BY <1>1, <1>3, <1>4 DEF Run, NoRun

(* The operations start no pass.                                           *)
LEMMA OpPasses ==
  ASSUME Types, NEW p \in Procs, OpStart(p) \/ UserStep(p) \/ OpNext(p) PROVE SamePasses
<1>1. CASE OpStart(p) \/ UserStep(p)
  <2>1. loop' = loop \/ loop' = Abort(running)
    BY <1>1 DEF OpStart, UserStep, Tick, SyncNow, SetCadence, UpdateConfig, SetOption, UpdateOutbound, Pause,
       Resume, Installed, StartFlow, EnsureRoot, Connect, Remove, Picked, SignedIn,
       FlowAbandoned, Quiesce, BeginStop
  <2> QED  BY <2>1, AbortPasses
<1>2. CASE ReadThenRun(p) \/ ScopeRestart(p) \/ Restore(p) \/ ResumeCommit(p) \/ RootCreated(p)
  BY <1>2, RunPasses DEF ReadThenRun, ScopeRestart, Restore, ResumeCommit, RootCreated
<1>3. CASE VaultSaved(p)
  <2>1. \/ loop' = loop \/ loop' = Abort(running)
        \/ Run(op[p].snap, pauseIntent, transIntent)
    BY <1>3 DEF VaultSaved, BeginStop
  <2> QED  BY <2>1, AbortPasses, RunPasses
<1>4. CASE StopDone(p) \/ CadenceSaved(p) \/ ConfigRead(p) \/ WriteConfig(p) \/ PauseRead(p)
           \/ PauseCommit(p) \/ ResumeRead(p) \/ ScopeTx(p) \/ StatusSet(p) \/ RemoveAccount(p)
  BY <1>4, AbortPasses DEF StopDone, CadenceSaved, ConfigRead, WriteConfig, PauseRead,
     PauseCommit, ResumeRead, ScopeTx, StatusSet, RemoveAccount
<1>5. CASE Opened(p) \/ Rechecked(p) \/ CreateAccount(p)
  BY <1>5, AbortPasses DEF Opened, Rechecked, CreateAccount, Quiesce, BeginStop
<1> QED  BY <1>1, <1>2, <1>3, <1>4, <1>5 DEF OpNext

(* A cycle starts its pass at the entry, and is left when the pass is      *)
(* over.                                                                   *)
LEMMA LoopPasses ==
  ASSUME Types, PassInside, NEW l \in Loops, LoopNext(l) PROVE PassInside'
<1>t. loop \in [Loops -> LoopRecs]  BY DEF Types
<1>m. ASSUME NEW r, NEW pc, loop'[l].rec = r, loop'[l].pc = pc, r => pc \in RecPcs,
             \A k \in Loops \ {l} : loop'[k] = loop[k]
      PROVE  PassInside'
  BY <1>m DEF PassInside
<1>u. loop[l].rec => loop[l].pc \in RecPcs  BY DEF PassInside
<1>s. ASSUME NEW q, NEW pc, LoopStep(l, pc, q), loop[l].rec => pc \in RecPcs PROVE PassInside'
  <2>1. loop'[l].pc = pc /\ loop'[l].rec = loop[l].rec /\ \A k \in Loops \ {l} : loop'[k] = loop[k]
    BY <1>s, <1>t DEF LoopStep, LoopRecs
  <2> QED  BY <1>m, <1>s, <2>1
<1>f. ASSUME NEW q, Finish(l, q), ~loop[l].rec PROVE PassInside'
  <2>1. ~loop'[l].rec /\ loop'[l].pc = "done" /\ \A k \in Loops \ {l} : loop'[k] = loop[k]
    BY <1>f, <1>t DEF Finish, NoLoop
  <2> QED  BY <1>m, <2>1
<1>p. RecPcs = {"pull", "commit", "settle", "caught", "rejected", "drain"}  BY DEF RecPcs
<1>1. CASE PrevStopped(l)
  BY <1>1, <1>s, <1>f, <1>p, <1>u DEF PrevStopped
<1>2. CASE Entry(l)
  <2>1. CASE Finish(l, Tail(dbq))  BY <1>2, <1>f, <1>p, <1>u, <2>1 DEF Entry
  <2>2. ASSUME NEW rec, loop' = [loop EXCEPT ![l].pc = "pull", ![l].gen = Fresh(l).gen,
                                    ![l].pos = Fresh(l).pos, ![l].rec = rec]
        PROVE  PassInside'
    <3>1. loop'[l].pc = "pull" /\ \A k \in Loops \ {l} : loop'[k] = loop[k]
      BY <1>t, <2>2 DEF LoopRecs
    <3> QED  BY <1>p, <3>1 DEF PassInside
  <2> QED  BY <1>2, <2>1, <2>2 DEF Entry
<1>3. CASE Pull(l)
  BY <1>3, <1>s, <1>p DEF Pull
<1>4. CASE SubCommit(l)
  <2>1. loop'[l].pc \in {"commit", "pull", "caught"} /\ \A k \in Loops \ {l} : loop'[k] = loop[k]
    BY <1>4, <1>t DEF SubCommit, LoopRecs
  <2> QED  BY <1>p, <2>1 DEF PassInside
<1>5. CASE Settle(l)
  BY <1>5, <1>s, <1>f DEF Settle
<1>6. CASE LiveRead(l) \/ ErrRead(l)
  <2>1. ASSUME NEW from, NEW to, ReadCursor(l, from, to), from \notin RecPcs PROVE PassInside'
    <3>1. loop'[l].rec = loop[l].rec /\ loop'[l].pc = to /\ \A k \in Loops \ {l} : loop'[k] = loop[k]
      BY <1>t, <2>1 DEF ReadCursor, LoopRecs
    <3>2. ~loop[l].rec  BY <1>u, <2>1 DEF ReadCursor
    <3> QED  BY <1>m, <3>1, <3>2
  <2> QED  BY <1>6, <2>1, <1>p DEF LiveRead, ErrRead
<1>7. CASE LiveCommit(l) \/ ErrCommit(l)
  BY <1>7, <1>f, <1>p, <1>u DEF LiveCommit, ErrCommit
<1>8. CASE CallFailed(l)
  BY <1>8, <1>s, <1>p DEF CallFailed
<1>9. CASE Caught(l)
  <2>1. ~loop[l].rec  BY <1>9 DEF Caught
  <2>2. ASSUME NEW s, loop' = [loop EXCEPT ![l].pc = "errRead", ![l].st = s] PROVE PassInside'
    <3>1. loop'[l].pc = "errRead" /\ loop'[l].rec = loop[l].rec /\ \A k \in Loops \ {l} : loop'[k] = loop[k]
      BY <1>t, <2>2 DEF LoopRecs
    <3> QED  BY <1>m, <2>1, <3>1
  <2>3. ASSUME NEW n, loop' = [loop EXCEPT ![l].pc = "sleep", ![l].retries = n] PROVE PassInside'
    <3>1. loop'[l].pc = "sleep" /\ loop'[l].rec = loop[l].rec /\ \A k \in Loops \ {l} : loop'[k] = loop[k]
      BY <1>t, <2>3 DEF LoopRecs
    <3> QED  BY <1>m, <2>1, <3>1
  <2> QED  BY <1>9, <1>f, <2>1, <2>2, <2>3 DEF Caught, Retry
<1>10. CASE Sleep(l)
  BY <1>10, <1>s, <1>f, <1>p, <1>u DEF Sleep
<1>11. CASE Drain(l)
  BY <1>11, <1>f DEF Drain
<1>12. CASE PassEnds(l)
  <2>1. ~loop'[l].rec /\ \A k \in Loops \ {l} : loop'[k] = loop[k]
    BY <1>12, <1>t DEF PassEnds
  <2> QED  BY <1>m, <2>1
<1> QED
  BY <1>1, <1>2, <1>3, <1>4, <1>5, <1>6, <1>7, <1>8, <1>9, <1>10, <1>11, <1>12 DEF LoopNext

TransInv == LoopInv /\ TransOK /\ PassInside

(* TransInv is inductive.                                                  *)
LEMMA TransInvNext ==
  ASSUME Kinds \cap {"respawn", "ensure", "watchdog"} = {}, TransInv, [Next]_vars
  PROVE  TransInv'
<1> USE DEF TransInv
<1>1. LoopInv' /\ TransOK' /\ Types  BY LoopInvNext, TransNext DEF LoopInv
<1>2. CASE UNCHANGED vars \/ Respawn \/ \E p \in Procs : Watchdog(p)
  <2>1. UNCHANGED loop  BY <1>2 DEF vars, Respawn, Watchdog
  <2> QED  BY <1>1, <2>1 DEF PassInside
<1>3. ASSUME NEW p \in Procs, Crash(p) PROVE PassInside'
  BY <1>3 DEF Crash, NoLoop, PassInside
<1> QED  BY <1>1, <1>2, <1>3, OpPasses, SamePassesKeep, LoopPasses DEF Next

(* Nothing runs at the start.                                              *)
LEMMA TransInvInit == Init => TransInv
<1> SUFFICES ASSUME Init PROVE TransInv  OBVIOUS
<1>1. \A p \in Procs : op[p].kind = "none" /\ op[p].pc = "idle"  BY DEF Init, Idle
<1>2. TransOK  BY <1>1 DEF TransOK, Transiting, Kind, Flows, FlowPcs
<1>3. PassInside  BY DEF Init, NoLoop, PassInside
<1> QED  BY <1>2, <1>3, LoopInvInit DEF TransInv

(* With no loop alive there is no pass either.                             *)
LEMMA TransInvQuiesces == TransInv => TransitionQuiesced
<1> SUFFICES ASSUME TransInv, NEW p \in Procs, InTransition(p), NEW l \in Loops
             PROVE  ~Live(l) /\ ~loop[l].rec
  BY DEF TransitionQuiesced
<1>1. ~Live(l)
  BY DEF TransInv, TransOK, Transiting, InTransition, Flows, Calm
<1>2. loop[l].pc \notin RecPcs  BY <1>1 DEF Live, Ended, RecPcs
<1> QED  BY <1>1, <1>2 DEF TransInv, PassInside

(* engine.applyScope, reconnect: a scope save, new credentials and the     *)
(* status of a reconnect are written with no loop and no reconcile pass of *)
(* the account under way, whatever else happens to it.  ensureRoot, which  *)
(* does not claim the account, and a watchdog that frees a slot in use are *)
(* left out: each lets two transitions share one intent.                   *)
THEOREM TransitionsWriteAlone ==
  ASSUME Kinds \cap {"respawn", "ensure", "watchdog"} = {}
  PROVE  Spec => []TransitionQuiesced
<1>1. TransInv /\ [Next]_vars => TransInv'  BY TransInvNext
<1> QED  BY <1>1, TransInvInit, TransInvQuiesces, PTL DEF Spec

----------------------------------------------------------------------------
(***************************************************************************)
(* runAccountFlow: a flow holds the account's slot from its claim to the   *)
(* end of its body, whatever else runs, unless the watchdog frees it.      *)
(***************************************************************************)
FlowHeld == \A p \in Procs : Kind(p) # "ensure" /\ (Kind(p) \in Flows => flow = p)

\* What a step of p does to the slot and to the kinds of the others.
FlowStep(p) ==
  /\ \A q \in Procs \ {p} : op'[q] = op[q]
  /\ \/ flow' = flow /\ op'[p].kind \in {Kind(p), "none", "cancel"}
     \/ Release(p) /\ op'[p].kind = "none"
     \/ flow' = flow /\ op'[p].kind \notin Flows \cup {"ensure"}
     \/ flow = None /\ flow' = p /\ op'[p].kind \in Flows

(* Such a step takes no slot from a flow that holds it.                    *)
LEMMA FlowStepKeeps == ASSUME FlowHeld, NEW p \in Procs, FlowStep(p) PROVE FlowHeld'
<1>1. ASSUME NEW q \in Procs, q # p PROVE op'[q].kind # "ensure" /\ (op'[q].kind \in Flows => flow' = q)
  <2>1. op'[q] = op[q] /\ q # None  BY <1>1, ProcsAssumption DEF FlowStep
  <2>2. flow = q => flow' = q  BY <1>1, <2>1 DEF FlowStep, Release
  <2> QED  BY <2>1, <2>2 DEF FlowHeld, Kind
<1>2. op'[p].kind # "ensure" /\ (op'[p].kind \in Flows => flow' = p)
  BY DEF FlowStep, FlowHeld, Kind, Flows
<1> QED  BY <1>1, <1>2 DEF FlowHeld, Kind

(* An operation under way keeps its kind until it returns; only a return   *)
(* releases the slot.                                                      *)
LEMMA OpKeepsFlow == ASSUME Types, NEW p \in Procs, OpNext(p) \/ UserStep(p) PROVE FlowStep(p)
<1>t. op \in [Procs -> OpRecs] /\ op[p] \in OpRecs  BY DEF Types
<1>c. ASSUME NEW o, op' = [op EXCEPT ![p] = o], flow' = flow, o.kind \in {Kind(p), "cancel"}
      PROVE  FlowStep(p)
  BY <1>t, <1>c DEF FlowStep
<1>m. ASSUME NEW pc, NEW q, Call(p, [op[p] EXCEPT !.pc = pc], q), flow' = flow PROVE FlowStep(p)
  <2> DEFINE o == [op[p] EXCEPT !.pc = pc]
  <2>1. o.kind = Kind(p) /\ op' = [op EXCEPT ![p] = o]  BY <1>t, <1>m DEF Call, OpRecs, Kind
  <2> HIDE DEF o
  <2> QED  BY <1>c, <1>m, <2>1
<1>r. ASSUME NEW q, Return(p, q), flow' = flow \/ Release(p) PROVE FlowStep(p)
  <2>1. op' = [op EXCEPT ![p] = Idle] /\ Idle.kind = "none"  BY <1>r DEF Return, Idle
  <2> QED  BY <1>t, <1>r, <2>1 DEF FlowStep
<1>s. ASSUME NEW pc, NEW q, Call(p, [op[p] EXCEPT !.pc = pc, !.snap = row], q), flow' = flow PROVE FlowStep(p)
  <2> DEFINE o == [op[p] EXCEPT !.pc = pc, !.snap = row]
  <2>1. o.kind = Kind(p) /\ op' = [op EXCEPT ![p] = o]  BY <1>t, <1>s DEF Call, OpRecs, Kind
  <2> HIDE DEF o
  <2> QED  BY <1>c, <1>s, <2>1
<1>b. ASSUME NEW o \in OpRecs, NEW q, BeginStop(p, o, q), flow' = flow, o.kind \in {Kind(p), "cancel"}
      PROVE  FlowStep(p)
  <2> DEFINE u == [o EXCEPT !.pc = "waitStop", !.h = running, !.was = IsRunning]
  <2>1. u.kind = o.kind /\ op' = [op EXCEPT ![p] = u]  BY <1>b DEF BeginStop, OpRecs
  <2> HIDE DEF u
  <2> QED  BY <1>b, <1>c, <2>1
<1>x. ASSUME CatchTransition(p) PROVE FlowStep(p)
  BY <1>x, <1>m, <1>r DEF CatchTransition
<1>1. CASE StopDone(p) \/ CadenceSaved(p)  BY <1>1, <1>m DEF StopDone, CadenceSaved
<1>2. CASE ReadThenRun(p) \/ ScopeRestart(p) \/ Restore(p) \/ FlowAbandoned(p)
  BY <1>2, <1>r, <1>x DEF ReadThenRun, ScopeRestart, Restore, FlowAbandoned
<1>3. CASE ConfigRead(p) \/ PauseRead(p) \/ ResumeRead(p)
  BY <1>3, <1>s, <1>r DEF ConfigRead, PauseRead, ResumeRead
<1>4. CASE WriteConfig(p)  BY <1>4, <1>m, <1>r DEF WriteConfig
<1>5. CASE PauseCommit(p) \/ ResumeCommit(p) \/ RemoveAccount(p) \/ RootCreated(p)
  BY <1>5, <1>r DEF PauseCommit, ResumeCommit, RemoveAccount, RootCreated
<1>6. CASE Opened(p)
  <2> DEFINE o(pc) == [[op[p] EXCEPT !.snap = row] EXCEPT !.pc = pc]
  <2> DEFINE n == [op[p] EXCEPT !.snap = row]
  <2>1. ASSUME NEW pc PROVE o(pc).kind = Kind(p)  BY <1>t DEF OpRecs, Kind
  <2>2. n \in OpRecs /\ n.kind = Kind(p)  BY <1>t DEF OpRecs, Kind, Types
  <2>3. \/ op' = [op EXCEPT ![p] = o("create")] /\ flow' = flow
        \/ op' = [op EXCEPT ![p] = o("createRoot")] /\ flow' = flow
        \/ BeginStop(p, n, Tail(dbq)) /\ flow' = flow
        \/ op' = [op EXCEPT ![p] = o("user")] /\ flow' = flow
        \/ Return(p, Tail(dbq)) /\ Release(p)
    BY <1>6 DEF Opened, Call, Quiesce
  <2> HIDE DEF o, n
  <2> QED  BY <1>c, <1>b, <1>r, <2>1, <2>2, <2>3
<1>7. CASE Rechecked(p) \/ SignedIn(p)
  <2>1. \/ BeginStop(p, op[p], Tail(dbq)) /\ flow' = flow
        \/ BeginStop(p, op[p], dbq) /\ flow' = flow
        \/ Return(p, Tail(dbq)) /\ Release(p)
    BY <1>7 DEF Rechecked, SignedIn, Quiesce
  <2> QED  BY <1>t, <1>b, <1>r, <2>1 DEF Kind
<1>8. CASE Picked(p)  BY <1>8, <1>m DEF Picked
<1>9. CASE ScopeTx(p) \/ StatusSet(p)  BY <1>9, <1>m, <1>x DEF ScopeTx, StatusSet
<1>10. CASE VaultSaved(p)
  <2> DEFINE n == [op[p] EXCEPT !.kind = "cancel"]
  <2>1. n \in OpRecs /\ n.kind = "cancel"  BY <1>t DEF OpRecs, AllKinds
  <2>2. \/ Call(p, [op[p] EXCEPT !.pc = "setStatus"], Tail(dbq)) /\ flow' = flow
        \/ CatchTransition(p)
        \/ Return(p, Tail(dbq)) /\ flow' = flow
        \/ BeginStop(p, n, Tail(dbq)) /\ flow' = flow
    BY <1>10 DEF VaultSaved
  <2> HIDE DEF n
  <2> QED  BY <1>m, <1>x, <1>r, <1>b, <2>1, <2>2
<1>11. CASE CreateAccount(p)
  <2> DEFINE n == [op[p] EXCEPT !.snap = row', !.own = ~row.exists]
  <2> DEFINE u == [n EXCEPT !.pc = "waitStop", !.h = running, !.was = IsRunning]
  <2>1. u.kind = Kind(p)  BY <1>t DEF OpRecs, Kind
  <2>2. op' = [op EXCEPT ![p] = u] /\ flow' = flow  BY <1>11 DEF CreateAccount, BeginStop
  <2> HIDE DEF u
  <2> QED  BY <1>c, <2>1, <2>2
<1> QED  BY <1>1, <1>2, <1>3, <1>4, <1>5, <1>6, <1>7, <1>8, <1>9, <1>10, <1>11 DEF OpNext, UserStep

(* A flow claims a free slot as it starts; nothing else touches it then.   *)
LEMMA StartKeepsFlow ==
  ASSUME Types, "ensure" \notin Kinds, NEW p \in Procs, OpStart(p) PROVE FlowStep(p)
<1>t. op \in [Procs -> OpRecs]  BY DEF Types
<1>c. ASSUME NEW o, op' = [op EXCEPT ![p] = o],
             \/ flow' = flow /\ o.kind \notin Flows \cup {"ensure"}
             \/ flow = None /\ flow' = p /\ o.kind \in Flows
      PROVE  FlowStep(p)
  BY <1>t, <1>c DEF FlowStep
<1>m. ASSUME NEW k, NEW pc, Call(p, [Idle EXCEPT !.kind = k, !.pc = pc], dbq),
             \/ flow' = flow /\ k \notin Flows \cup {"ensure"}
             \/ flow = None /\ flow' = p /\ k \in Flows
      PROVE  FlowStep(p)
  <2> DEFINE o == [Idle EXCEPT !.kind = k, !.pc = pc]
  <2>1. o.kind = k /\ op' = [op EXCEPT ![p] = o]  BY <1>m DEF Call, Idle
  <2> HIDE DEF o
  <2> QED  BY <1>c, <1>m, <2>1
<1>1. CASE Tick(p) \/ SyncNow(p) \/ SetCadence(p)
  BY <1>1, <1>m DEF Tick, SyncNow, SetCadence, Flows
<1>2. CASE UpdateConfig(p) \/ SetOption(p) \/ UpdateOutbound(p)
  BY <1>2, <1>m DEF UpdateConfig, SetOption, UpdateOutbound, Flows
<1>3. CASE Resume(p) \/ Installed(p) \/ Connect(p)
  BY <1>3, <1>m DEF Resume, Installed, Connect, Flows
<1>4. CASE StartFlow(p, "manage") \/ StartFlow(p, "reconnect")
  BY <1>4, <1>m DEF StartFlow, Flows
<1>5. CASE Pause(p) \/ Remove(p)
  <2>1. PICK k \in {"pause", "remove"} : BeginStop(p, [Idle EXCEPT !.kind = k], dbq) /\ flow' = flow
    BY <1>5 DEF Pause, Remove
  <2> DEFINE o == [[Idle EXCEPT !.kind = k] EXCEPT !.pc = "waitStop", !.h = running, !.was = IsRunning]
  <2>2. o.kind = k /\ op' = [op EXCEPT ![p] = o]  BY <2>1 DEF BeginStop, Idle
  <2> HIDE DEF o
  <2> QED  BY <1>c, <2>1, <2>2 DEF Flows
<1> QED  BY <1>1, <1>2, <1>3, <1>4, <1>5 DEF OpStart, EnsureRoot, Begin

(* Without an ensureRoot and the watchdog the slot stays with its flow.    *)
LEMMA FlowNext ==
  ASSUME Types, Kinds \cap {"ensure", "watchdog"} = {}, FlowHeld, [Next]_vars PROVE FlowHeld'
<1>1. CASE UNCHANGED <<op, flow>>  BY <1>1 DEF FlowHeld, Kind
<1>2. ASSUME NEW p \in Procs, OpStart(p) \/ UserStep(p) \/ OpNext(p) PROVE FlowHeld'
  BY <1>2, StartKeepsFlow, OpKeepsFlow, FlowStepKeeps
<1>3. ASSUME NEW p \in Procs, Crash(p) PROVE FlowHeld'
  <2>1. \A q \in Procs : op'[q].kind \in {"boot", "none"}  BY <1>3 DEF Crash, Idle
  <2> QED  BY <2>1 DEF FlowHeld, Kind, Flows
<1>4. ASSUME NEW l \in Loops, LoopNext(l) PROVE UNCHANGED <<op, flow>>
  BY <1>4 DEF LoopNext, PrevStopped, Entry, Pull, SubCommit, Settle, LiveRead, ErrRead,
     ReadCursor, LiveCommit, CallFailed, Caught, ErrCommit, Sleep, Drain, PassEnds, Quiet
<1> QED  BY <1>1, <1>2, <1>3, <1>4 DEF Next, vars, Respawn, Watchdog

(* No flow is under way at the start.                                      *)
LEMMA FlowInit == Init => FlowHeld
  BY DEF Init, Idle, FlowHeld, Kind, Flows

----------------------------------------------------------------------------
(***************************************************************************)
(* A config write completes the folder scope from an earlier read.  It is  *)
(* refused while a flow holds the account, and the store serves calls in   *)
(* order: a scope save that begins later cannot commit before it.          *)
(***************************************************************************)
Before(a, b) == \E i, j \in 1..Len(dbq) : i < j /\ dbq[i] = a /\ dbq[j] = b
\* What a step of actor a does to the queue.
Shift(a) ==
  \/ dbq' = dbq \/ dbq' = Append(dbq, a)
  \/ /\ Served(a)
     /\ dbq' = Tail(dbq) \/ dbq' = Append(Tail(dbq), a)

(* Who stands before another is served first.                              *)
LEMMA BeforeKept ==
  ASSUME Types, NEW a, NEW b, NEW c, a # c, Shift(c), Before(a, b)
  PROVE  Before(a, b)'
<1>q. dbq \in Seq(Procs \cup Loops)  BY DEF Types
<1>p. PICK i, j \in 1..Len(dbq) : i < j /\ dbq[i] = a /\ dbq[j] = b  BY DEF Before
<1>1. CASE dbq' = dbq \/ dbq' = Append(dbq, c)
  <2>1. i \in 1..Len(dbq') /\ j \in 1..Len(dbq') /\ dbq'[i] = a /\ dbq'[j] = b
    BY <1>q, <1>p, <1>1
  <2> QED  BY <1>p, <2>1 DEF Before
<1>2. CASE Served(c) /\ (dbq' = Tail(dbq) \/ dbq' = Append(Tail(dbq), c))
  <2>1. dbq # <<>> /\ dbq[1] = c  BY <1>q, <1>2 DEF Served
  <2>2. i # 1 /\ i - 1 \in 1..(Len(dbq) - 1) /\ j - 1 \in 1..(Len(dbq) - 1)
    BY <1>q, <1>p, <2>1
  <2>3. \A k \in 1..(Len(dbq) - 1) : k \in 1..Len(dbq') /\ dbq'[k] = dbq[k + 1]
    BY <1>q, <1>2, <2>1
  <2>4. i - 1 < j - 1 /\ dbq'[i - 1] = a /\ dbq'[j - 1] = b
    BY <1>q, <1>p, <2>2, <2>3
  <2> QED  BY <2>2, <2>3, <2>4 DEF Before
<1> QED  BY <1>1, <1>2 DEF Shift

(* One who joins the queue stands behind those who are in it.              *)
LEMMA JoinsBehind ==
  ASSUME QueueInv, NEW a \in Actors, Waits(a), NEW b, dbq' = Append(dbq, b)
  PROVE  Before(a, b)'
<1>q. dbq \in Seq(Procs \cup Loops)  BY DEF QueueInv, Types
<1>1. PICK i \in 1..Len(dbq) : dbq[i] = a  BY DEF QueueInv, QueueOK, Queued
<1>2. /\ i \in 1..Len(dbq') /\ Len(dbq) + 1 \in 1..Len(dbq') /\ i < Len(dbq) + 1
      /\ dbq'[i] = a /\ dbq'[Len(dbq) + 1] = b
  BY <1>q, <1>1
<1> QED  BY <1>2 DEF Before

(* Who is served stands behind nobody.                                     *)
LEMMA ServedIsFirst ==
  ASSUME QueueInv, NEW a, NEW b, Served(b) PROVE ~Before(a, b)
<1>q. dbq \in Seq(Procs \cup Loops) /\ Once(dbq)  BY DEF QueueInv, Types, QueueOK
<1>1. dbq # <<>> /\ dbq[1] = b /\ 1 \in 1..Len(dbq)  BY <1>q DEF Served
<1> QED  BY <1>q, <1>1 DEF Before, Once

(* What the operations do to the queue.                                    *)
LEMMA OpShifts ==
  ASSUME NEW p \in Procs, OpStart(p) \/ UserStep(p) \/ OpNext(p) PROVE Shift(p)
<1> USE DEF Call, Return, BeginStop, Quiesce, CatchTransition, At
<1>1. CASE OpStart(p) \/ UserStep(p)
  BY <1>1 DEF OpStart, UserStep, Tick, SyncNow, SetCadence, UpdateConfig, SetOption, UpdateOutbound, Pause,
     Resume, Installed, StartFlow, EnsureRoot, Connect, Remove, Picked, SignedIn,
     FlowAbandoned, Shift
<1>2. CASE StopDone(p) \/ CadenceSaved(p) \/ ReadThenRun(p) \/ ConfigRead(p) \/ WriteConfig(p)
  BY <1>2 DEF StopDone, CadenceSaved, ReadThenRun, ConfigRead, WriteConfig, Shift
<1>3. CASE PauseRead(p) \/ PauseCommit(p) \/ ResumeRead(p) \/ ResumeCommit(p) \/ Opened(p)
  BY <1>3 DEF PauseRead, PauseCommit, ResumeRead, ResumeCommit, Opened, Shift
<1>4. CASE Rechecked(p) \/ ScopeTx(p) \/ ScopeRestart(p) \/ Restore(p) \/ VaultSaved(p)
  BY <1>4 DEF Rechecked, ScopeTx, ScopeRestart, Restore, VaultSaved, Shift
<1>5. CASE StatusSet(p) \/ CreateAccount(p) \/ RootCreated(p) \/ RemoveAccount(p)
  BY <1>5 DEF StatusSet, CreateAccount, RootCreated, RemoveAccount, Shift
<1> QED  BY <1>1, <1>2, <1>3, <1>4, <1>5 DEF OpNext

(* What a loop does to the queue.                                          *)
LEMMA LoopShifts == ASSUME NEW l \in Loops, LoopNext(l) PROVE Shift(l)
<1> USE DEF LoopStep, Finish, Shift
<1>1. CASE PrevStopped(l) \/ Entry(l) \/ Pull(l) \/ SubCommit(l) \/ Settle(l)
  BY <1>1 DEF PrevStopped, Entry, Pull, SubCommit, Settle
<1>2. CASE LiveRead(l) \/ LiveCommit(l) \/ CallFailed(l) \/ ErrRead(l) \/ ErrCommit(l)
  BY <1>2 DEF LiveRead, ReadCursor, LiveCommit, CallFailed, ErrRead, ErrCommit
<1>3. CASE Caught(l) \/ Sleep(l) \/ Drain(l) \/ PassEnds(l)
  BY <1>3 DEF Caught, Retry, Sleep, Drain, PassEnds
<1> QED  BY <1>1, <1>2, <1>3 DEF LoopNext

ConfigPcs == {"readCfg", "writeCfg"}
PickerPcs == {"readOpen", "user", "recheck"}
\* A config write in flight, and a folder flow that may overtake it.
Ahead(p, q) ==
  Kind(q) = "manage" =>
    /\ op[p].pc = "readCfg" => op[q].pc = "readOpen" /\ Before(p, q)
    /\ op[p].pc = "writeCfg" =>
         /\ op[q].pc \in PickerPcs
         /\ op[q].pc = "recheck" => Before(p, q)
RootsRead(p) ==
  op[p].pc = "writeCfg" /\ op[p].snap.exists => op[p].snap.roots = row.roots
NoConnect(p) ==
  /\ Kind(p) # "connect" /\ op[p].pc \notin {"create", "createRoot"}
  /\ op[p].pc = "tx" => Kind(p) = "manage"
ConfigOK ==
  /\ \A p \in Procs : RootsRead(p) /\ NoConnect(p)
  /\ \A p, q \in Procs : p # q => Ahead(p, q)

\* What a step of caller r means to the config writes and the folder flows.
ConfigStep(r) ==
  /\ \A s \in Procs \ {r} : op'[s] = op[s]
  /\ op'[r].pc = "readCfg" => flow = None
  /\ op'[r].pc = "writeCfg" => op[r].pc = "readCfg" /\ op'[r].snap = row
  /\ op'[r].kind = "manage" =>
       \/ op'[r].pc = "readOpen" /\ dbq' = Append(dbq, r)
       \/ op'[r].pc = "user" /\ Kind(r) = "manage" /\ op[r].pc = "readOpen" /\ Served(r)
       \/ op'[r].pc = "recheck" /\ Kind(r) = "manage" /\ op[r].pc = "user" /\ dbq' = Append(dbq, r)
       \/ Kind(r) = "manage" /\ op[r].pc = "recheck" /\ Served(r)
       \/ Kind(r) = "manage" /\ op[r].pc \notin PickerPcs
  /\ row'.roots = row.roots \/ op[r].pc = "tx"

LEMMA ConfigStepKeeps ==
  ASSUME QueueInv, FlowHeld, ConfigOK, NEW r \in Procs, Shift(r), ConfigStep(r), NoConnect(r)'
  PROVE  ConfigOK'
<1>t. Types  BY DEF QueueInv
<1>1. ASSUME NEW p \in Procs PROVE NoConnect(p)'
  BY <1>1 DEF ConfigStep, ConfigOK, NoConnect, Kind
<1>w. ASSUME NEW p \in Procs, p # r, op[p].pc = "writeCfg" PROVE row'.roots = row.roots
  <2>1. op[r].pc # "tx"
    BY <1>w DEF ConfigOK, NoConnect, Ahead, PickerPcs
  <2> QED  BY <2>1 DEF ConfigStep
<1>2. ASSUME NEW p \in Procs PROVE RootsRead(p)'
  <2>1. CASE p = r  BY <2>1 DEF ConfigStep, RootsRead
  <2>2. CASE p # r  BY <1>w, <2>2 DEF ConfigStep, RootsRead, ConfigOK
  <2> QED  BY <2>1, <2>2
<1>3. ASSUME NEW p \in Procs, NEW q \in Procs, p # q PROVE Ahead(p, q)'
  <2> SUFFICES ASSUME op'[q].kind = "manage", op'[p].pc \in ConfigPcs
               PROVE  /\ op'[p].pc = "readCfg" => op'[q].pc = "readOpen" /\ Before(p, q)'
                      /\ op'[p].pc = "writeCfg" =>
                           /\ op'[q].pc \in PickerPcs
                           /\ op'[q].pc = "recheck" => Before(p, q)'
    BY DEF Ahead, Kind, ConfigPcs
  <2>a. Ahead(p, q)  BY <1>3 DEF ConfigOK
  <2>1. CASE p = r
    <3>1. op'[q] = op[q] /\ Kind(q) = "manage"  BY <1>3, <2>1 DEF ConfigStep, Kind
    <3>2. op'[p].pc # "readCfg"
      <4>1. flow = q  BY <3>1 DEF FlowHeld, Flows
      <4> QED  BY <2>1, <4>1, ProcsAssumption DEF ConfigStep
    <3>3. op[p].pc = "readCfg"  BY <2>1, <3>2 DEF ConfigStep, ConfigPcs
    <3> QED  BY <2>a, <3>1, <3>2, <3>3 DEF Ahead, PickerPcs
  <2>2. CASE p # r /\ q # r
    <3>1. op'[p] = op[p] /\ op'[q] = op[q] /\ Kind(q) = "manage"  BY <2>2 DEF ConfigStep, Kind
    <3>2. Before(p, q) => Before(p, q)'  BY <1>t, <2>2, BeforeKept
    <3> QED  BY <2>a, <3>1, <3>2 DEF Ahead
  <2>3. CASE p # r /\ q = r
    <3>1. op'[p] = op[p] /\ op[p].pc \in ConfigPcs  BY <2>3 DEF ConfigStep
    <3>2. p \in Actors /\ Waits(p)  BY <3>1 DEF Actors, Waits, ConfigPcs, DbPcs
    <3>3. dbq' = Append(dbq, q) => Before(p, q)'  BY <3>2, JoinsBehind
    <3>4. Served(q) => ~Before(p, q)  BY ServedIsFirst
    <3>5. CASE op'[q].pc = "readOpen" /\ dbq' = Append(dbq, q)
      BY <3>3, <3>5 DEF PickerPcs
    <3>6. CASE op'[q].pc = "user" /\ Kind(q) = "manage" /\ op[q].pc = "readOpen" /\ Served(q)
      BY <2>a, <3>1, <3>4, <3>6 DEF Ahead, PickerPcs
    <3>7. CASE op'[q].pc = "recheck" /\ Kind(q) = "manage" /\ op[q].pc = "user" /\ dbq' = Append(dbq, q)
      BY <2>a, <3>1, <3>3, <3>7 DEF Ahead, PickerPcs
    <3>8. CASE Kind(q) = "manage" /\ op[q].pc = "recheck" /\ Served(q)
      BY <2>a, <3>1, <3>4, <3>8 DEF Ahead, ConfigPcs
    <3>9. CASE Kind(q) = "manage" /\ op[q].pc \notin PickerPcs
      BY <2>a, <3>1, <3>9 DEF Ahead, ConfigPcs, PickerPcs
    <3> QED  BY <2>3, <3>5, <3>6, <3>7, <3>8, <3>9 DEF ConfigStep
  <2> QED  BY <2>1, <2>2, <2>3
<1> QED  BY <1>1, <1>2, <1>3 DEF ConfigOK

(* What p's new record must look like.                                     *)
LEMMA StepIs ==
  ASSUME Types, NEW p \in Procs, NEW o, op' = [op EXCEPT ![p] = o],
         o.pc = "readCfg" => flow = None,
         o.pc = "writeCfg" => op[p].pc = "readCfg" /\ o.snap = row,
         o.kind = "manage" =>
           \/ o.pc = "readOpen" /\ dbq' = Append(dbq, p)
           \/ o.pc = "user" /\ Kind(p) = "manage" /\ op[p].pc = "readOpen" /\ Served(p)
           \/ o.pc = "recheck" /\ Kind(p) = "manage" /\ op[p].pc = "user" /\ dbq' = Append(dbq, p)
           \/ Kind(p) = "manage" /\ op[p].pc = "recheck" /\ Served(p)
           \/ Kind(p) = "manage" /\ op[p].pc \notin PickerPcs,
         row'.roots = row.roots \/ op[p].pc = "tx",
         o.kind # "connect", o.pc \notin {"create", "createRoot"}, o.pc = "tx" => o.kind = "manage"
  PROVE  ConfigStep(p) /\ NoConnect(p)'
<1>1. op'[p] = o /\ \A s \in Procs \ {p} : op'[s] = op[s]  BY DEF Types
<1> QED  BY <1>1 DEF ConfigStep, NoConnect, Kind

(* An operation begins; a config write only where no flow has the account. *)
LEMMA ConfigStart ==
  ASSUME Kinds \cap {"ensure", "connect", "outbound"} = {}, Types, NEW p \in Procs, OpStart(p)
  PROVE  ConfigStep(p) /\ NoConnect(p)'
<1>r. row' = row
  BY DEF OpStart, Tick, SyncNow, SetCadence, UpdateConfig, SetOption, UpdateOutbound, Pause,
     Resume, Installed, StartFlow, EnsureRoot, Connect, Remove
<1>c. ASSUME NEW o, o.kind # "connect", o.pc \in {"readRun", "cadence", "readCfg", "readResume", "readOpen"},
             o.pc = "readCfg" => flow = None, o.kind = "manage" => o.pc = "readOpen", Call(p, o, dbq)
      PROVE  ConfigStep(p) /\ NoConnect(p)'
  <2>1. op' = [op EXCEPT ![p] = o] /\ dbq' = Append(dbq, p)  BY <1>c DEF Call
  <2> QED  BY <1>r, <1>c, <2>1, StepIs
<1>1a. CASE Tick(p)
  <2> DEFINE o == [Idle EXCEPT !.kind = "tick", !.pc = "readRun"]
  <2>1. Call(p, o, dbq)  BY <1>1a DEF Tick
  <2>2. o.kind = "tick" /\ o.pc = "readRun"  BY DEF Idle
  <2> HIDE DEF o
  <2> QED  BY <2>1, <2>2, <1>c
<1>1b. CASE SyncNow(p)
  <2> DEFINE o == [Idle EXCEPT !.kind = "syncNow", !.pc = "readRun"]
  <2>1. Call(p, o, dbq)  BY <1>1b DEF SyncNow
  <2>2. o.kind = "syncNow" /\ o.pc = "readRun"  BY DEF Idle
  <2> HIDE DEF o
  <2> QED  BY <2>1, <2>2, <1>c
<1>1c. CASE SetCadence(p)
  <2> DEFINE o == [Idle EXCEPT !.kind = "setCadence", !.pc = "cadence"]
  <2>1. Call(p, o, dbq)  BY <1>1c DEF SetCadence
  <2>2. o.kind = "setCadence" /\ o.pc = "cadence"  BY DEF Idle
  <2> HIDE DEF o
  <2> QED  BY <2>1, <2>2, <1>c
<1>2a. CASE UpdateConfig(p)
  <2> DEFINE o == [Idle EXCEPT !.kind = "updateConfig", !.pc = "readCfg"]
  <2>1. Call(p, o, dbq) /\ flow = None  BY <1>2a DEF UpdateConfig, Uncontended
  <2>2. o.kind = "updateConfig" /\ o.pc = "readCfg"  BY DEF Idle
  <2> HIDE DEF o
  <2> QED  BY <2>1, <2>2, <1>c
<1>2b. CASE SetOption(p)
  <2> DEFINE o == [Idle EXCEPT !.kind = "setOption", !.pc = "readCfg"]
  <2>1. Call(p, o, dbq) /\ flow = None  BY <1>2b DEF SetOption, Uncontended
  <2>2. o.kind = "setOption" /\ o.pc = "readCfg"  BY DEF Idle
  <2> HIDE DEF o
  <2> QED  BY <2>1, <2>2, <1>c
<1>3a. CASE Resume(p)
  <2> DEFINE o == [Idle EXCEPT !.kind = "resume", !.pc = "readResume"]
  <2>1. Call(p, o, dbq)  BY <1>3a DEF Resume
  <2>2. o.kind = "resume" /\ o.pc = "readResume"  BY DEF Idle
  <2> HIDE DEF o
  <2> QED  BY <2>1, <2>2, <1>c
<1>3b. CASE Installed(p)
  <2> DEFINE o == [Idle EXCEPT !.kind = "installed", !.pc = "readResume"]
  <2>1. Call(p, o, dbq)  BY <1>3b DEF Installed
  <2>2. o.kind = "installed" /\ o.pc = "readResume"  BY DEF Idle
  <2> HIDE DEF o
  <2> QED  BY <2>1, <2>2, <1>c
<1>4. ASSUME NEW k \in {"manage", "reconnect"}, StartFlow(p, k) PROVE ConfigStep(p) /\ NoConnect(p)'
  <2> DEFINE o == [Idle EXCEPT !.kind = k, !.pc = "readOpen"]
  <2>1. Call(p, o, dbq)  BY <1>4 DEF StartFlow
  <2>2. o.kind = k /\ o.pc = "readOpen"  BY DEF Idle
  <2> HIDE DEF o
  <2> QED  BY <1>4, <2>1, <2>2, <1>c
<1>5. CASE Pause(p) \/ Remove(p)
  <2>1. PICK k \in {"pause", "remove"} : BeginStop(p, [Idle EXCEPT !.kind = k], dbq)
    BY <1>5 DEF Pause, Remove
  <2> DEFINE o == [[Idle EXCEPT !.kind = k] EXCEPT !.pc = "waitStop", !.h = running, !.was = IsRunning]
  <2>2. o.kind = k /\ o.pc = "waitStop"  BY DEF Idle
  <2>3. op' = [op EXCEPT ![p] = o]  BY <2>1 DEF BeginStop
  <2> HIDE DEF o
  <2> QED  BY <1>r, <2>2, <2>3, StepIs
<1> QED
  BY <1>1a, <1>1b, <1>1c, <1>2a, <1>2b, <1>3a, <1>3b, <1>4, <1>5 DEF OpStart, EnsureRoot, Connect, UpdateOutbound, Begin

(* The user answers; a picked scope joins the queue to be checked again.   *)
LEMMA ConfigUser ==
  ASSUME Types, ConfigOK, NEW p \in Procs, UserStep(p) PROVE ConfigStep(p) /\ NoConnect(p)'
<1>t. op[p] \in OpRecs /\ NoConnect(p)  BY DEF Types, ConfigOK
<1>r. row' = row  BY DEF UserStep, Picked, SignedIn, FlowAbandoned
<1>1. CASE Picked(p)
  <2> DEFINE o == [op[p] EXCEPT !.pc = "recheck"]
  <2>1. /\ o.kind = Kind(p) /\ o.pc = "recheck" /\ Kind(p) = "manage" /\ op[p].pc = "user"
        /\ op' = [op EXCEPT ![p] = o] /\ dbq' = Append(dbq, p)
    BY <1>1, <1>t DEF Picked, Doing, Call, OpRecs, Kind
  <2> HIDE DEF o
  <2> QED  BY <1>r, <2>1, StepIs
<1>2. CASE SignedIn(p)
  <2> DEFINE o == [op[p] EXCEPT !.pc = "waitStop", !.h = running, !.was = IsRunning]
  <2>1. o.kind = "reconnect" /\ o.pc = "waitStop" /\ op' = [op EXCEPT ![p] = o]
    BY <1>2, <1>t DEF SignedIn, Doing, Quiesce, BeginStop, OpRecs
  <2> HIDE DEF o
  <2> QED  BY <1>r, <2>1, StepIs
<1>3. CASE FlowAbandoned(p)
  <2>1. Idle.kind = "none" /\ Idle.pc = "idle" /\ op' = [op EXCEPT ![p] = Idle]
    BY <1>3 DEF FlowAbandoned, Return, Idle
  <2> QED  BY <1>r, <2>1, StepIs
<1> QED  BY <1>1, <1>2, <1>3 DEF UserStep

(* An operation moves on; only applyFolderScopeTx moves the scope.         *)
LEMMA ConfigOp ==
  ASSUME Types, FlowHeld, ConfigOK, NEW p \in Procs, OpNext(p) PROVE ConfigStep(p) /\ NoConnect(p)'
<1>t. /\ op[p] \in OpRecs /\ NoConnect(p) /\ RootsRead(p) /\ row \in Rows
      /\ Kind(p) \notin {"ensure", "connect"}
  BY DEF Types, ConfigOK, NoConnect, FlowHeld
<1>s. ASSUME NEW pc, NEW r
      PROVE  /\ [op[p] EXCEPT !.pc = pc].kind = Kind(p)
             /\ [op[p] EXCEPT !.pc = pc].pc = pc
             /\ [op[p] EXCEPT !.pc = pc, !.snap = r].kind = Kind(p)
             /\ [op[p] EXCEPT !.pc = pc, !.snap = r].pc = pc
             /\ [op[p] EXCEPT !.pc = pc, !.snap = r].snap = r
  BY <1>t DEF OpRecs, Kind
\* An operation that has passed the picker, or never was at one.
<1>e. ASSUME NEW o, op' = [op EXCEPT ![p] = o], o.kind # "manage" \/ o.kind = Kind(p),
             o.kind # "connect", o.pc \notin ConfigPcs \cup {"create", "createRoot", "tx"},
             row'.roots = row.roots \/ op[p].pc = "tx",
             op[p].pc \notin {"readOpen", "user"}, op[p].pc = "recheck" => Served(p)
      PROVE  ConfigStep(p) /\ NoConnect(p)'
  BY <1>e, StepIs DEF ConfigPcs, PickerPcs
<1>c. ASSUME NEW pc, pc \notin ConfigPcs \cup {"create", "createRoot", "tx"}, NEW q,
             \/ Call(p, [op[p] EXCEPT !.pc = pc], q)
             \/ Call(p, [op[p] EXCEPT !.pc = pc, !.snap = row], q),
             row'.roots = row.roots \/ op[p].pc = "tx",
             op[p].pc \notin PickerPcs
      PROVE  ConfigStep(p) /\ NoConnect(p)'
  <2>1. PICK o \in {[op[p] EXCEPT !.pc = pc], [op[p] EXCEPT !.pc = pc, !.snap = row]} :
          op' = [op EXCEPT ![p] = o]
    BY <1>c DEF Call
  <2>2. o.kind = Kind(p) /\ o.pc = pc  BY <1>t DEF OpRecs, Kind
  <2> QED  BY <1>t, <1>c, <2>1, <2>2, <1>e DEF PickerPcs
<1>r. ASSUME NEW q, Return(p, q), row'.roots = row.roots \/ op[p].pc = "tx"
      PROVE  ConfigStep(p) /\ NoConnect(p)'
  <2>1. Idle.kind = "none" /\ Idle.pc = "idle" /\ op' = [op EXCEPT ![p] = Idle]
    BY <1>r DEF Return, Idle
  <2> QED  BY <1>r, <2>1, StepIs
<1>b. ASSUME NEW o \in OpRecs, NEW q, BeginStop(p, o, q), row' = row,
             o.kind # "manage" \/ o.kind = Kind(p), o.kind # "connect",
             op[p].pc \notin {"readOpen", "user"}, op[p].pc = "recheck" => Served(p)
      PROVE  ConfigStep(p) /\ NoConnect(p)'
  <2> DEFINE u == [o EXCEPT !.pc = "waitStop", !.h = running, !.was = IsRunning]
  <2>1. u.kind = o.kind /\ u.pc = "waitStop" /\ op' = [op EXCEPT ![p] = u]
    BY <1>b DEF BeginStop, OpRecs
  <2> HIDE DEF u
  <2> QED  BY <1>b, <1>e, <2>1 DEF ConfigPcs
<1>x. ASSUME CatchTransition(p), op[p].pc \notin PickerPcs,
             row'.roots = row.roots \/ op[p].pc = "tx"
      PROVE  ConfigStep(p) /\ NoConnect(p)'
  BY <1>x, <1>c, <1>r DEF CatchTransition, ConfigPcs
<1>1. CASE StopDone(p)
  <2> DEFINE o == [op[p] EXCEPT !.pc = AfterStop(Kind(p))]
  <2>1. o.kind = Kind(p) /\ o.pc = AfterStop(Kind(p)) /\ op' = [op EXCEPT ![p] = o] /\ row' = row
        /\ op[p].pc = "waitStop"
    BY <1>1, <1>s DEF StopDone, Call
  <2> HIDE DEF o
  <2>2. o.pc \notin {"readCfg", "writeCfg", "create", "createRoot"} /\ (o.pc = "tx" => o.kind = "manage")
    BY <1>t, <2>1 DEF AfterStop
  <2> QED  BY <1>t, <2>1, <2>2, StepIs DEF PickerPcs
<1>2. CASE CadenceSaved(p)
  BY <1>2, <1>c DEF CadenceSaved, At, ConfigPcs, PickerPcs
<1>3. CASE ReadThenRun(p) \/ PauseCommit(p) \/ ResumeCommit(p) \/ RemoveAccount(p)
  <2>1. row'.roots = row.roots
    BY <1>3, <1>t DEF ReadThenRun, PauseCommit, ResumeCommit, RemoveAccount, StatusCommit, Rows
  <2> QED  BY <1>3, <1>r, <2>1 DEF ReadThenRun, PauseCommit, ResumeCommit, RemoveAccount
<1>4. CASE ConfigRead(p)
  <2>1. CASE Call(p, [op[p] EXCEPT !.pc = "writeCfg", !.snap = row], Tail(dbq))
    <3> DEFINE o == [op[p] EXCEPT !.pc = "writeCfg", !.snap = row]
    <3>1. o.kind = Kind(p) /\ o.pc = "writeCfg" /\ o.snap = row /\ op' = [op EXCEPT ![p] = o]
      BY <1>s, <2>1 DEF Call
    <3> HIDE DEF o
    <3>2. op[p].pc = "readCfg" /\ row' = row  BY <1>4 DEF ConfigRead, At
    <3> QED  BY <1>t, <3>1, <3>2, StepIs DEF PickerPcs
  <2>2. CASE Return(p, Tail(dbq))  BY <1>4, <1>r, <2>2 DEF ConfigRead
  <2> QED  BY <1>4, <2>1, <2>2 DEF ConfigRead
<1>5. CASE WriteConfig(p)
  <2>1. row'.roots = row.roots
    BY <1>5, <1>t DEF WriteConfig, At, ConfigWritten, RootsRead, Rows
  <2> QED  BY <1>5, <1>c, <1>r, <2>1 DEF WriteConfig, At, ConfigPcs, PickerPcs
<1>6. CASE PauseRead(p) \/ ResumeRead(p)
  BY <1>6, <1>c, <1>r DEF PauseRead, ResumeRead, At, ConfigPcs, PickerPcs
<1>10. CASE Opened(p)
  <2> DEFINE o == [op[p] EXCEPT !.snap = row]
  <2>1. row' = row /\ op[p].pc = "readOpen" /\ Served(p)  BY <1>10 DEF Opened, At
  <2>2. [o EXCEPT !.pc = "user"].kind = Kind(p) /\ [o EXCEPT !.pc = "user"].pc = "user"
    BY <1>t DEF OpRecs, Kind
  <2>3. CASE op' = [op EXCEPT ![p] = [o EXCEPT !.pc = "user"]]
    BY <1>t, <2>1, <2>2, <2>3, StepIs
  <2>4. CASE Return(p, Tail(dbq))  BY <1>r, <2>1, <2>4
  <2> QED  BY <1>10, <1>t, <2>3, <2>4 DEF Opened
<1>11. CASE Rechecked(p)
  BY <1>11, <1>b, <1>r, <1>t DEF Rechecked, At, Quiesce, Kind
<1>12. CASE ScopeTx(p)
  BY <1>12, <1>c, <1>x DEF ScopeTx, At, ConfigPcs, PickerPcs
<1>13. CASE ScopeRestart(p) \/ Restore(p)
  BY <1>13, <1>r, <1>x DEF ScopeRestart, Restore, At, PickerPcs
<1>15. CASE VaultSaved(p)
  BY <1>15, <1>c, <1>x, <1>t DEF VaultSaved, At, ConfigPcs, PickerPcs
<1>16. CASE StatusSet(p)
  <2>1. row'.roots = row.roots  BY <1>16, <1>t DEF StatusSet, Reconnected, Rows
  <2> QED  BY <1>16, <1>c, <1>x, <2>1 DEF StatusSet, Reconnected, At, ConfigPcs, PickerPcs
<1>17. CASE CreateAccount(p) \/ RootCreated(p)
  BY <1>17, <1>t DEF CreateAccount, RootCreated, At, NoConnect
<1> QED
  BY <1>1, <1>2, <1>3, <1>4, <1>5, <1>6, <1>10, <1>11, <1>12, <1>13, <1>15, <1>16, <1>17 DEF OpNext

(* The batches, and what else the loops commit, keep the scope.            *)
LEMMA LoopKeepsRoots == ASSUME Types, NEW l \in Loops, LoopNext(l) PROVE row'.roots = row.roots
<1>c. ASSUME NEW s, NEW g, NEW n PROVE StatusCommit(s, g, n).roots = row.roots
  BY DEF StatusCommit, Rows, Types
<1>1. CASE SubCommit(l)  BY <1>1, <1>c DEF SubCommit
<1>2. CASE LiveCommit(l) \/ CallFailed(l) \/ ErrCommit(l)
  BY <1>2, <1>c DEF LiveCommit, CallFailed, ErrCommit
<1>3. CASE UNCHANGED row  BY <1>3
<1> QED
  BY <1>1, <1>2, <1>3 DEF LoopNext, PrevStopped, Entry, Pull, Settle, LiveRead, ErrRead, ReadCursor,
     Caught, Sleep, Drain, PassEnds

ScopeInv == QueueInv /\ FlowHeld /\ ConfigOK

(* ScopeInv is inductive.                                                  *)
LEMMA ScopeInvNext ==
  ASSUME Kinds \cap {"ensure", "watchdog", "connect", "outbound"} = {}, ScopeInv, [Next]_vars
  PROVE  ScopeInv'
<1> USE DEF ScopeInv
<1>1. QueueInv' /\ FlowHeld' /\ Types
  BY QueueNext, FlowNext DEF QueueInv
<1>2. CASE UNCHANGED <<op, dbq, row>>
  <2>1. \A p, q \in Procs : Before(p, q) => Before(p, q)'  BY <1>2 DEF Before
  <2>2. ASSUME NEW p \in Procs PROVE RootsRead(p)' /\ NoConnect(p)'
    BY <1>2 DEF ConfigOK, RootsRead, NoConnect, Kind
  <2>3. ASSUME NEW p \in Procs, NEW q \in Procs, p # q PROVE Ahead(p, q)'
    <3>1. Ahead(p, q)  BY <2>3 DEF ConfigOK
    <3> QED  BY <1>2, <2>1, <3>1 DEF Ahead, Kind
  <2>4. ConfigOK'  BY <2>2, <2>3 DEF ConfigOK
  <2> QED  BY <1>1, <2>4
<1>3. CASE UNCHANGED vars \/ Respawn \/ \E p \in Procs : Watchdog(p)
  BY <1>2, <1>3 DEF vars, Respawn, Watchdog
<1>4. ASSUME NEW p \in Procs, OpStart(p) \/ UserStep(p) \/ OpNext(p) PROVE ConfigOK'
  <2>1. ConfigStep(p) /\ NoConnect(p)'  BY <1>1, <1>4, ConfigStart, ConfigUser, ConfigOp
  <2> QED  BY <1>4, <2>1, OpShifts, ConfigStepKeeps
<1>5. ASSUME NEW l \in Loops, LoopNext(l) PROVE ConfigOK'
  <2>1. UNCHANGED op
    BY <1>5 DEF LoopNext, PrevStopped, Entry, Pull, SubCommit, Settle, LiveRead, ErrRead,
       ReadCursor, LiveCommit, CallFailed, Caught, ErrCommit, Sleep, Drain, PassEnds, Quiet
  <2>2. \A p \in Procs : p # l  BY LoopsAreNats, ProcsAssumption
  <2>3. \A p, q \in Procs : Before(p, q) => Before(p, q)'
    BY <1>1, <1>5, <2>2, LoopShifts, BeforeKept
  <2>4. row'.roots = row.roots  BY <1>1, <1>5, LoopKeepsRoots
  <2> QED  BY <2>1, <2>3, <2>4 DEF ConfigOK, RootsRead, NoConnect, Ahead, Kind
<1>6. ASSUME NEW p \in Procs, Crash(p) PROVE ConfigOK'
  <2>1. \A q \in Procs : op'[q].kind \in {"boot", "none"} /\ op'[q].pc \in {"readRun", "idle"}
    BY <1>6 DEF Crash, Idle
  <2> QED  BY <2>1 DEF ConfigOK, RootsRead, NoConnect, Ahead, Kind
<1> QED  BY <1>1, <1>3, <1>4, <1>5, <1>6 DEF Next

(* Nothing is under way at the start.                                      *)
LEMMA ScopeInvInit == Init => ScopeInv
<1> SUFFICES ASSUME Init PROVE ScopeInv  OBVIOUS
<1>1. \A p \in Procs : op[p].kind = "none" /\ op[p].pc = "idle"  BY DEF Init, Idle
<1>2. ConfigOK  BY <1>1 DEF ConfigOK, RootsRead, NoConnect, Ahead, Kind
<1> QED  BY <1>2, QueueInit, FlowInit DEF ScopeInv

(* No step puts an older scope back.                                       *)
LEMMA ScopeStep ==
  ASSUME Kinds \cap {"ensure", "watchdog", "connect", "outbound"} = {}, ScopeInv, [Next]_vars
  PROVE  row'.roots >= row.roots
<1> USE DEF ScopeInv
<1>t. Types /\ row.roots \in Nat  BY DEF QueueInv, Types, Rows
<1>1. CASE row'.roots = row.roots  BY <1>t, <1>1
<1>2. ASSUME NEW p \in Procs, OpStart(p) \/ UserStep(p) \/ OpNext(p) PROVE row'.roots >= row.roots
  <2>1. row'.roots = row.roots \/ op[p].pc = "tx"
    BY <1>t, <1>2, ConfigStart, ConfigUser, ConfigOp DEF ConfigStep
  <2>2. CASE op[p].pc = "tx"
    <3>1. UNCHANGED row \/ ScopeTx(p)
      BY <1>2, <2>2 DEF OpNext, StopDone, CadenceSaved, ReadThenRun, ConfigRead, WriteConfig,
         PauseRead, PauseCommit, ResumeRead, ResumeCommit, Opened, Rechecked, ScopeRestart,
         Restore, VaultSaved, StatusSet, CreateAccount, RootCreated, RemoveAccount, At, OpStart, Tick, SyncNow,
         SetCadence, UpdateConfig, SetOption, UpdateOutbound, Pause, Resume, Installed, StartFlow, EnsureRoot,
         Connect, Remove, UserStep, Picked, SignedIn, FlowAbandoned
    <3>2. ScopeTx(p) => row'.roots \in {row.roots, row.roots + 1}
      BY <1>t DEF ScopeTx, ScopeSaved, Types, Rows
    <3> QED  BY <1>t, <3>1, <3>2
  <2> QED  BY <1>1, <2>1, <2>2
<1>3. CASE UNCHANGED row  BY <1>1, <1>3
<1> QED
  BY <1>t, <1>1, <1>2, <1>3, LoopKeepsRoots DEF Next, vars, Respawn, Watchdog, Crash

(* updateConfig, applyFolderScopeTx: a saved folder scope is never         *)
(* replaced by an older one, though a config write carries the scope of an *)
(* earlier read.  A connect, an ensureRoot and a slot the watchdog frees   *)
(* while in use are left out: the check that refuses the write sees none   *)
(* of them.  So is update-outbound, which writes past that check and does  *)
(* put an older scope back.                                                *)
THEOREM ScopeIsNotLost ==
  ASSUME Kinds \cap {"ensure", "watchdog", "connect", "outbound"} = {}
  PROVE  Spec => ScopeNotLost
<1>1. ScopeInv /\ [Next]_vars => ScopeInv'  BY ScopeInvNext
<1>2. ScopeInv /\ [Next]_vars => [row'.roots >= row.roots]_row  BY ScopeStep
<1> QED  BY <1>1, <1>2, ScopeInvInit, PTL DEF Spec, ScopeNotLost

----------------------------------------------------------------------------
(***************************************************************************)
(* restoreLoopAfterFailure: a flow that has stopped an active loop comes   *)
(* to its end through a run() that its own intent no longer refuses.       *)
(***************************************************************************)
FlowLine == PickerPcs \cup FlowPcs \cup {"waitStop", "vault", "readRun"}
FlowShape(o, ti) ==
  /\ o.pc \in {"user", "recheck"} => o.kind \in Flows
  /\ o.kind \in Flows => o.pc \in FlowLine
  /\ o.kind \in Flows /\ o.pc \in PickerPcs => ~o.was
  /\ o.kind \in Flows /\ o.pc \in {"restore", "readRun"} => ~ti
Shaped == \A p \in Procs : FlowShape(op[p], transIntent)

(* Only the flow that holds the slot raises the intent.                    *)
LEMMA ShapeStep ==
  ASSUME FlowHeld, Shaped, NEW p \in Procs, \A q \in Procs \ {p} : op'[q] = op[q],
         transIntent' => transIntent \/ flow = p, FlowShape(op'[p], transIntent')
  PROVE  Shaped'
<1>1. ASSUME NEW q \in Procs, q # p PROVE FlowShape(op'[q], transIntent')
  <2>1. op'[q] = op[q] /\ FlowShape(op[q], transIntent)  BY <1>1 DEF Shaped
  <2>2. op[q].kind \in Flows => flow = q  BY DEF FlowHeld, Kind
  <2> QED  BY <1>1, <2>1, <2>2 DEF FlowShape
<1> QED  BY <1>1 DEF Shaped

(* An operation starts with no loop stopped.                               *)
LEMMA ShapeStart ==
  ASSUME Types, "ensure" \notin Kinds, NEW p \in Procs, OpStart(p)
  PROVE  FlowShape(op'[p], transIntent') /\ transIntent' = transIntent
<1>t. op \in [Procs -> OpRecs]  BY DEF Types
<1>i. transIntent' = transIntent
  BY DEF OpStart, Tick, SyncNow, SetCadence, UpdateConfig, SetOption, UpdateOutbound, Pause, Resume, Installed,
     StartFlow, EnsureRoot, Connect, Remove, Begin
<1>m. ASSUME NEW o, Call(p, o, dbq), o.was = FALSE, o.pc \notin {"user", "recheck"},
             o.kind \in Flows => o.pc = "readOpen"
      PROVE  FlowShape(op'[p], transIntent')
  <2>1. op'[p] = o  BY <1>t, <1>m DEF Call
  <2> QED  BY <1>m, <2>1 DEF FlowShape, FlowLine, PickerPcs
<1>1a. CASE Tick(p)
  <2> DEFINE o == [Idle EXCEPT !.kind = "tick", !.pc = "readRun"]
  <2>1. Call(p, o, dbq)  BY <1>1a DEF Tick
  <2>2. o.kind = "tick" /\ o.pc = "readRun" /\ o.was = FALSE  BY DEF Idle
  <2> HIDE DEF o
  <2> QED  BY <1>i, <1>m, <2>1, <2>2 DEF Flows
<1>1b. CASE SyncNow(p)
  <2> DEFINE o == [Idle EXCEPT !.kind = "syncNow", !.pc = "readRun"]
  <2>1. Call(p, o, dbq)  BY <1>1b DEF SyncNow
  <2>2. o.kind = "syncNow" /\ o.pc = "readRun" /\ o.was = FALSE  BY DEF Idle
  <2> HIDE DEF o
  <2> QED  BY <1>i, <1>m, <2>1, <2>2 DEF Flows
<1>1c. CASE SetCadence(p)
  <2> DEFINE o == [Idle EXCEPT !.kind = "setCadence", !.pc = "cadence"]
  <2>1. Call(p, o, dbq)  BY <1>1c DEF SetCadence
  <2>2. o.kind = "setCadence" /\ o.pc = "cadence" /\ o.was = FALSE  BY DEF Idle
  <2> HIDE DEF o
  <2> QED  BY <1>i, <1>m, <2>1, <2>2 DEF Flows
<1>2a. CASE UpdateConfig(p)
  <2> DEFINE o == [Idle EXCEPT !.kind = "updateConfig", !.pc = "readCfg"]
  <2>1. Call(p, o, dbq)  BY <1>2a DEF UpdateConfig
  <2>2. o.kind = "updateConfig" /\ o.pc = "readCfg" /\ o.was = FALSE  BY DEF Idle
  <2> HIDE DEF o
  <2> QED  BY <1>i, <1>m, <2>1, <2>2 DEF Flows
<1>2b. CASE SetOption(p)
  <2> DEFINE o == [Idle EXCEPT !.kind = "setOption", !.pc = "readCfg"]
  <2>1. Call(p, o, dbq)  BY <1>2b DEF SetOption
  <2>2. o.kind = "setOption" /\ o.pc = "readCfg" /\ o.was = FALSE  BY DEF Idle
  <2> HIDE DEF o
  <2> QED  BY <1>i, <1>m, <2>1, <2>2 DEF Flows
<1>6. CASE UpdateOutbound(p)
  <2> DEFINE o == [Idle EXCEPT !.kind = "outbound", !.pc = "readCfg"]
  <2>1. Call(p, o, dbq)  BY <1>6 DEF UpdateOutbound
  <2>2. o.kind = "outbound" /\ o.pc = "readCfg" /\ o.was = FALSE  BY DEF Idle
  <2> HIDE DEF o
  <2> QED  BY <1>i, <1>m, <2>1, <2>2 DEF Flows
<1>3a. CASE Resume(p)
  <2> DEFINE o == [Idle EXCEPT !.kind = "resume", !.pc = "readResume"]
  <2>1. Call(p, o, dbq)  BY <1>3a DEF Resume
  <2>2. o.kind = "resume" /\ o.pc = "readResume" /\ o.was = FALSE  BY DEF Idle
  <2> HIDE DEF o
  <2> QED  BY <1>i, <1>m, <2>1, <2>2 DEF Flows
<1>3b. CASE Installed(p)
  <2> DEFINE o == [Idle EXCEPT !.kind = "installed", !.pc = "readResume"]
  <2>1. Call(p, o, dbq)  BY <1>3b DEF Installed
  <2>2. o.kind = "installed" /\ o.pc = "readResume" /\ o.was = FALSE  BY DEF Idle
  <2> HIDE DEF o
  <2> QED  BY <1>i, <1>m, <2>1, <2>2 DEF Flows
<1>3c. CASE Connect(p)
  <2> DEFINE o == [Idle EXCEPT !.kind = "connect", !.pc = "readOpen"]
  <2>1. Call(p, o, dbq)  BY <1>3c DEF Connect
  <2>2. o.kind = "connect" /\ o.pc = "readOpen" /\ o.was = FALSE  BY DEF Idle
  <2> HIDE DEF o
  <2> QED  BY <1>i, <1>m, <2>1, <2>2 DEF Flows
<1>4. ASSUME NEW k \in Flows, StartFlow(p, k)
      PROVE  FlowShape(op'[p], transIntent') /\ transIntent' = transIntent
  <2> DEFINE o == [Idle EXCEPT !.kind = k, !.pc = "readOpen"]
  <2>1. Call(p, o, dbq)  BY <1>4 DEF StartFlow
  <2>2. o.kind = k /\ o.pc = "readOpen" /\ o.was = FALSE  BY DEF Idle
  <2> HIDE DEF o
  <2> QED  BY <1>i, <1>m, <2>1, <2>2
<1>5. CASE Pause(p) \/ Remove(p)
  <2>1. PICK k \in {"pause", "remove"} : BeginStop(p, [Idle EXCEPT !.kind = k], dbq)
    BY <1>5 DEF Pause, Remove
  <2> DEFINE o == [[Idle EXCEPT !.kind = k] EXCEPT !.pc = "waitStop", !.h = running, !.was = IsRunning]
  <2>2. o.kind = k /\ o.pc = "waitStop" /\ op'[p] = o  BY <1>t, <2>1 DEF BeginStop, Idle
  <2> HIDE DEF o
  <2> QED  BY <1>i, <2>2 DEF FlowShape, Flows, FlowLine, PickerPcs
<1> QED  BY <1>i, <1>1a, <1>1b, <1>1c, <1>2a, <1>2b, <1>3a, <1>3b, <1>3c, <1>4, <1>5, <1>6 DEF Flows, OpStart, EnsureRoot, Begin

(* It moves on; a flow that leaves keeps no stopped loop in mind.          *)
LEMMA ShapeNext ==
  ASSUME Types, FlowHeld, Shaped, NEW p \in Procs, OpNext(p) \/ UserStep(p)
  PROVE  FlowShape(op'[p], transIntent') /\ (transIntent' => transIntent \/ flow = p)
<1>t. op \in [Procs -> OpRecs] /\ op[p] \in OpRecs /\ FlowShape(op[p], transIntent)
  BY DEF Types, Shaped
<1>f. Kind(p) # "ensure" /\ (Kind(p) \in Flows => flow = p)  BY DEF FlowHeld
<1> DEFINE Goal == FlowShape(op'[p], transIntent') /\ (transIntent' => transIntent \/ flow = p)
\* Past the picker.
<1>c. ASSUME NEW o, op' = [op EXCEPT ![p] = o], o.kind \in {Kind(p), "cancel"},
             o.pc \notin PickerPcs, o.kind \in Flows => o.pc \in FlowLine,
             o.pc \in {"restore", "readRun"} /\ o.kind \in Flows => ~transIntent',
             transIntent' => transIntent \/ flow = p
      PROVE  Goal
  BY <1>t, <1>c DEF FlowShape, PickerPcs
<1>m. ASSUME NEW pc, NEW q, Call(p, [op[p] EXCEPT !.pc = pc], q), pc \notin PickerPcs,
             Kind(p) \in Flows => pc \in FlowLine,
             pc \in {"restore", "readRun"} /\ Kind(p) \in Flows => ~transIntent',
             transIntent' => transIntent \/ flow = p
      PROVE  Goal
  <2> DEFINE o == [op[p] EXCEPT !.pc = pc]
  <2>1. o.kind = Kind(p) /\ o.pc = pc /\ op' = [op EXCEPT ![p] = o]
    BY <1>t, <1>m DEF Call, OpRecs, Kind
  <2> HIDE DEF o, Goal
  <2> QED  BY <1>c, <1>m, <2>1
<1>r. ASSUME NEW q, Return(p, q), transIntent' => transIntent PROVE Goal
  <2>1. op'[p] = Idle  BY <1>t, <1>r DEF Return
  <2> QED  BY <1>r, <2>1 DEF Idle, FlowShape, Flows
<1>b. ASSUME NEW o \in OpRecs, NEW q, BeginStop(p, o, q), o.kind \in {Kind(p), "cancel"},
             transIntent' => transIntent \/ flow = p
      PROVE  Goal
  <2> DEFINE u == [o EXCEPT !.pc = "waitStop", !.h = running, !.was = IsRunning]
  <2>1. u.kind = o.kind /\ u.pc = "waitStop" /\ op' = [op EXCEPT ![p] = u]
    BY <1>b DEF BeginStop, OpRecs
  <2> HIDE DEF u, Goal
  <2> QED  BY <1>b, <1>c, <2>1 DEF FlowLine, PickerPcs
<1>x. ASSUME CatchTransition(p) PROVE Goal
  <2> HIDE DEF Goal
  <2>1. ~transIntent'  BY <1>x DEF CatchTransition
  <2> QED  BY <1>x, <2>1, <1>m, <1>r DEF CatchTransition, FlowLine, FlowPcs, PickerPcs
<1>q. ASSUME NEW pcs, Kind(p) \in Flows, op[p].pc \in pcs, pcs \cap FlowLine = {} PROVE FALSE
  BY <1>t, <1>q DEF FlowShape, Kind
<1>g. SUFFICES Goal  OBVIOUS
<1> HIDE DEF Goal
<1>1. CASE StopDone(p)
  <2>1. AfterStop(Kind(p)) \notin PickerPcs \cup {"restore", "readRun"}
    BY DEF AfterStop, PickerPcs
  <2>2. Kind(p) \in Flows => AfterStop(Kind(p)) \in FlowLine
    BY DEF AfterStop, Flows, FlowLine, FlowPcs
  <2> QED  BY <1>1, <1>m, <2>1, <2>2 DEF StopDone
<1>2. CASE CadenceSaved(p)
  <2>1. Kind(p) \notin Flows  BY <1>2, <1>q DEF CadenceSaved, At, FlowLine, FlowPcs, PickerPcs
  <2> QED  BY <1>2, <1>m, <2>1 DEF CadenceSaved, PickerPcs
<1>3. CASE ReadThenRun(p) \/ ScopeRestart(p)
  <2>1. CASE ReadThenRun(p)
    <3>1. Return(p, Tail(dbq)) /\ transIntent' = transIntent  BY <2>1 DEF ReadThenRun
    <3> QED  BY <1>r, <3>1
  <2>2. CASE ScopeRestart(p)
    <3>1. (Return(p, Tail(dbq)) /\ ~transIntent') \/ CatchTransition(p)  BY <2>2 DEF ScopeRestart
    <3> QED  BY <1>r, <1>x, <3>1
  <2> QED  BY <1>3, <2>1, <2>2
<1>4. CASE Restore(p) \/ FlowAbandoned(p)
  BY <1>4, <1>r DEF Restore, FlowAbandoned
<1>5. CASE PauseCommit(p) \/ ResumeCommit(p) \/ RemoveAccount(p) \/ RootCreated(p)
  BY <1>5, <1>r DEF PauseCommit, ResumeCommit, RemoveAccount, RootCreated
<1>6. CASE ConfigRead(p) \/ PauseRead(p) \/ ResumeRead(p) \/ CreateAccount(p)
  <2>1. Kind(p) \notin Flows
    BY <1>6, <1>t DEF ConfigRead, PauseRead, ResumeRead, CreateAccount, At, FlowShape, Kind, FlowLine,
       FlowPcs, PickerPcs
  <2>2. CASE \E q \in {Tail(dbq)} : Return(p, q)  BY <1>6, <1>r, <2>2
         DEF ConfigRead, PauseRead, ResumeRead, CreateAccount
  <2>3. CASE CreateAccount(p)
    <3> DEFINE n == [op[p] EXCEPT !.snap = row', !.own = ~row.exists]
    <3> DEFINE u == [n EXCEPT !.pc = "waitStop", !.h = running, !.was = IsRunning]
    <3>1. u.kind = Kind(p) /\ u.pc = "waitStop"  BY <1>t DEF OpRecs, Kind
    <3>2. op' = [op EXCEPT ![p] = u] /\ transIntent' = transIntent  BY <2>3 DEF CreateAccount, BeginStop
    <3> HIDE DEF u
    <3> QED  BY <1>c, <2>1, <3>1, <3>2 DEF PickerPcs
  <2>4. ASSUME NEW pc \in {"writeCfg", "commitPause", "commitConnecting"},
               Call(p, [op[p] EXCEPT !.pc = pc, !.snap = row], Tail(dbq)), transIntent' = transIntent
        PROVE  Goal
    <3> DEFINE o == [op[p] EXCEPT !.pc = pc, !.snap = row]
    <3>1. o.kind = Kind(p) /\ o.pc = pc /\ op' = [op EXCEPT ![p] = o]
      BY <1>t, <2>4 DEF Call, OpRecs, Kind
    <3> HIDE DEF o
    <3> QED  BY <1>c, <2>1, <2>4, <3>1 DEF PickerPcs
  <2> QED  BY <1>6, <2>2, <2>3, <2>4 DEF ConfigRead, PauseRead, ResumeRead
<1>7. CASE WriteConfig(p)
  <2>1. Kind(p) \notin Flows
    BY <1>7, <1>t DEF WriteConfig, At, FlowShape, Kind, FlowLine, FlowPcs, PickerPcs
  <2> QED  BY <1>7, <1>m, <1>r, <2>1 DEF WriteConfig, PickerPcs
<1>8. CASE Opened(p)
  <2> DEFINE n == [op[p] EXCEPT !.snap = row]
  <2> DEFINE o(pc) == [n EXCEPT !.pc = pc]
  <2>1. ASSUME NEW pc PROVE o(pc).kind = Kind(p) /\ o(pc).pc = pc /\ o(pc).was = op[p].was
    BY <1>t DEF OpRecs, Kind
  <2>2. n \in OpRecs /\ n.kind = Kind(p)  BY <1>t DEF OpRecs, Kind, Types
  <2>3. \/ op' = [op EXCEPT ![p] = o("create")] /\ Kind(p) = "connect" /\ transIntent' = transIntent
        \/ Kind(p) = "ensure"
        \/ op' = [op EXCEPT ![p] = o("user")] /\ Kind(p) \in Flows /\ transIntent' = transIntent
        \/ Return(p, Tail(dbq)) /\ transIntent' = transIntent
    BY <1>8 DEF Opened, Call, Flows
  <2> HIDE DEF o, n
  <2>4. CASE op' = [op EXCEPT ![p] = o("create")] /\ Kind(p) = "connect" /\ transIntent' = transIntent
    BY <1>c, <2>1, <2>4 DEF PickerPcs, Flows
  <2>5. CASE op' = [op EXCEPT ![p] = o("user")] /\ Kind(p) \in Flows /\ transIntent' = transIntent
    <3>1. op'[p] = o("user") /\ ~op[p].was
      BY <1>t, <1>8, <2>5 DEF Opened, At, FlowShape, Kind, PickerPcs
    <3> QED  BY <2>1, <2>5, <3>1 DEF FlowShape, FlowLine, PickerPcs, Goal
  <2> QED  BY <1>f, <1>r, <2>3, <2>4, <2>5
<1>9. CASE Rechecked(p) \/ SignedIn(p)
  <2>1. Kind(p) \in Flows
    BY <1>9, <1>t DEF Rechecked, SignedIn, At, Doing, FlowShape, Kind, Flows
  <2>2. \/ BeginStop(p, op[p], Tail(dbq))
        \/ BeginStop(p, op[p], dbq)
        \/ Return(p, Tail(dbq)) /\ transIntent' = transIntent
    BY <1>9 DEF Rechecked, SignedIn, Quiesce
  <2> QED  BY <1>t, <1>f, <1>b, <1>r, <2>1, <2>2 DEF Kind
<1>10. CASE Picked(p)
  <2> DEFINE o == [op[p] EXCEPT !.pc = "recheck"]
  <2>1. o.kind = Kind(p) /\ o.pc = "recheck" /\ o.was = op[p].was /\ op'[p] = o /\ Kind(p) \in Flows
        /\ op[p].pc = "user" /\ transIntent' = transIntent
    BY <1>10, <1>t DEF Picked, Doing, Call, OpRecs, Kind, Flows
  <2> HIDE DEF o
  <2> QED  BY <1>t, <2>1 DEF FlowShape, FlowLine, PickerPcs, Kind, Goal
<1>11. CASE ScopeTx(p) \/ StatusSet(p)
  BY <1>11, <1>m, <1>x DEF ScopeTx, StatusSet, FlowLine, FlowPcs, PickerPcs
<1>12. CASE VaultSaved(p)
  <2> DEFINE n == [op[p] EXCEPT !.kind = "cancel"]
  <2>1. n \in OpRecs /\ n.kind = "cancel"  BY <1>t DEF OpRecs, AllKinds
  <2>2. \/ Call(p, [op[p] EXCEPT !.pc = "setStatus"], Tail(dbq)) /\ transIntent' = transIntent
        \/ CatchTransition(p)
        \/ Return(p, Tail(dbq)) /\ transIntent' = transIntent
        \/ BeginStop(p, n, Tail(dbq)) /\ transIntent' = transIntent
    BY <1>12 DEF VaultSaved
  <2> HIDE DEF n
  <2>3. CASE Call(p, [op[p] EXCEPT !.pc = "setStatus"], Tail(dbq)) /\ transIntent' = transIntent
    BY <2>3, <1>m DEF FlowLine, FlowPcs, PickerPcs
  <2> QED  BY <1>x, <1>r, <1>b, <2>1, <2>2, <2>3
<1> QED  BY <1>1, <1>2, <1>3, <1>4, <1>5, <1>6, <1>7, <1>8, <1>9, <1>10, <1>11, <1>12 DEF OpNext, UserStep

(* A run() that nothing refuses leaves the account a loop.                 *)
LEMMA RunLeavesLoop ==
  ASSUME Types, NEW acc, NEW pi, NEW ti, Run(acc, pi, ti), ~pi, ~ti, registered
  PROVE  running' # None /\ loop'[running'].pc \notin Ended
<1>1. runs \in Nat /\ runs < MaxRuns /\ running' = runs + 1
      /\ loop' = [Abort(running) EXCEPT ![runs + 1] = NewLoop(acc)]
  BY DEF Run, Install, Types
<1>2. runs + 1 \in Loops  BY <1>1, BoundsAssumption DEF Loops
<1>3. DOMAIN Abort(running) = Loops  BY DEF Abort, Types
<1>4. loop'[runs + 1] = NewLoop(acc)  BY <1>1, <1>2, <1>3
<1>5. NewLoop(acc).pc = "waitPrev"  BY DEF NewLoop, NoLoop
<1> QED  BY <1>1, <1>2, <1>4, <1>5, LoopsAreNats DEF Ended

StrandInv == Types /\ FlowHeld /\ Shaped

(* StrandInv is inductive.                                                 *)
LEMMA StrandInvNext ==
  ASSUME Kinds \cap {"ensure", "watchdog"} = {}, StrandInv, [Next]_vars PROVE StrandInv'
<1> USE DEF StrandInv
<1>1. Types' /\ FlowHeld'  BY TypesNext, FlowNext
<1>2. CASE UNCHANGED <<op, transIntent>>  BY <1>1, <1>2 DEF Shaped, FlowShape
<1>3. ASSUME NEW p \in Procs, OpStart(p) \/ UserStep(p) \/ OpNext(p) PROVE Shaped'
  <2>1. FlowShape(op'[p], transIntent') /\ (transIntent' => transIntent \/ flow = p)
    BY <1>3, ShapeStart, ShapeNext
  <2>2. \A q \in Procs \ {p} : op'[q] = op[q]  BY <1>3, StartKeepsFlow, OpKeepsFlow DEF FlowStep
  <2> QED  BY <2>1, <2>2, ShapeStep
<1>4. ASSUME NEW p \in Procs, Crash(p) PROVE Shaped'
  <2>1. \A q \in Procs : op'[q].kind \in {"boot", "none"} /\ op'[q].pc \in {"readRun", "idle"}
    BY <1>4 DEF Crash, Idle
  <2> QED  BY <2>1 DEF Shaped, FlowShape, Flows
<1>5. ASSUME NEW l \in Loops, LoopNext(l) PROVE UNCHANGED <<op, transIntent>>
  BY <1>5 DEF LoopNext, PrevStopped, Entry, Pull, SubCommit, Settle, LiveRead, ErrRead,
     ReadCursor, LiveCommit, CallFailed, Caught, ErrCommit, Sleep, Drain, PassEnds, Quiet
<1> QED  BY <1>1, <1>2, <1>3, <1>4, <1>5 DEF Next, vars, Respawn, Watchdog

(* No flow is under way at the start.                                      *)
LEMMA StrandInvInit == Init => StrandInv
<1>1. Init => Shaped  BY DEF Init, Idle, Shaped, FlowShape, Flows
<1> QED  BY <1>1, TypesInit, FlowInit DEF StrandInv

\* What the end of flow p owes the account.
Restarted(p) ==
  row'.exists /\ ~IsResting(row'.status) /\ registered /\ ~pauseIntent
    => running' # None /\ loop'[running'].pc \notin Ended

(* The flow that stopped an active loop returns only after a run().        *)
LEMMA FlowReturns ==
  ASSUME StrandInv, NEW p \in Procs, OpNext(p) \/ UserStep(p), Kind(p) \in Flows, op[p].was,
         op'[p].pc = "idle", "failedReads" \notin Kinds
  PROVE  Restarted(p)
<1>t. Types /\ op[p] \in OpRecs /\ op \in [Procs -> OpRecs] /\ FlowShape(op[p], transIntent)
  BY DEF StrandInv, Types, Shaped
<1>l. op[p].pc \in FlowLine \ PickerPcs  BY <1>t DEF FlowShape, Kind
<1>c. ASSUME NEW pc, NEW q, Call(p, [op[p] EXCEPT !.pc = pc], q) PROVE op'[p].pc = pc
  BY <1>t, <1>c DEF Call, OpRecs
<1>x. ~CatchTransition(p)
  <2>1. CatchTransition(p) => op'[p].pc = "restore"  BY <1>c DEF CatchTransition
  <2> QED  BY <2>1
<1>1. CASE ReadThenRun(p)
  <2>1. row' = row /\ ~transIntent  BY <1>1, <1>t DEF ReadThenRun, At, FlowShape, Kind
  <2>2. row.exists /\ ~IsResting(row.status) => MayStart(Kind(p), row.status)
    BY DEF MayStart, Flows
  <2>3. row.exists /\ ~IsResting(row.status) => Run(row, pauseIntent, transIntent)
    BY <1>1, <2>2 DEF ReadThenRun, ReadFails, Flows
  <2> QED  BY <1>t, <2>1, <2>3, RunLeavesLoop DEF Restarted
<1>2. CASE ScopeRestart(p)
  <2>1. row' = row /\ (row.exists /\ ~IsResting(row.status) => Run(row, pauseIntent, FALSE))
    BY <1>2, <1>x DEF ScopeRestart
  <2> DEFINE ti == FALSE
  <2>2. ~ti  OBVIOUS
  <2> HIDE DEF ti
  <2>3. Run(row, pauseIntent, FALSE) => Run(row, pauseIntent, ti)  BY DEF ti
  <2> QED  BY <1>t, <2>1, <2>2, <2>3, RunLeavesLoop DEF Restarted
<1>3. CASE Restore(p)
  <2>1. row' = row /\ (row.exists /\ ~IsResting(row.status) => Run(row, pauseIntent, transIntent))
    BY <1>3 DEF Restore, ReadFails, Flows
  <2>2. ~transIntent  BY <1>3, <1>t DEF Restore, At, FlowShape, Kind
  <2> QED  BY <1>t, <2>1, <2>2, RunLeavesLoop DEF Restarted
<1>4. CASE StopDone(p)
  <2>1. op'[p].pc = AfterStop(Kind(p))  BY <1>4, <1>c DEF StopDone
  <2> QED  BY <2>1 DEF AfterStop, Flows
<1>5. CASE ScopeTx(p) \/ StatusSet(p)
  BY <1>5, <1>c, <1>x DEF ScopeTx, StatusSet
<1>6. CASE VaultSaved(p)
  BY <1>6, <1>c, <1>x DEF VaultSaved, Flows
<1>7. CASE SignedIn(p) \/ Picked(p) \/ FlowAbandoned(p) \/ Rechecked(p) \/ Opened(p)
  BY <1>7, <1>l DEF SignedIn, Picked, FlowAbandoned, Rechecked, Opened, At, Doing, PickerPcs
<1>8. CASE \/ CadenceSaved(p) \/ ConfigRead(p) \/ WriteConfig(p) \/ PauseRead(p) \/ PauseCommit(p)
            \/ ResumeRead(p) \/ ResumeCommit(p) \/ CreateAccount(p) \/ RootCreated(p)
            \/ RemoveAccount(p)
  BY <1>8, <1>l DEF CadenceSaved, ConfigRead, WriteConfig, PauseRead, PauseCommit, ResumeRead,
     ResumeCommit, CreateAccount, RootCreated, RemoveAccount, At, FlowLine, FlowPcs, PickerPcs
<1> QED  BY <1>1, <1>2, <1>3, <1>4, <1>5, <1>6, <1>7, <1>8 DEF OpNext, UserStep

(* No step strands the account.                                            *)
LEMMA StrandStep ==
  ASSUME Kinds \cap {"ensure", "watchdog", "failedReads"} = {}, StrandInv, [Next]_vars,
         NEW p \in Procs, op[p].was, Kind(p) \in {"manage", "ensure", "reconnect"},
         op'[p].pc = "idle", "boot" \notin {op'[q].kind : q \in Procs}
  PROVE  Restarted(p)
<1>t. Types /\ Kind(p) \in Flows /\ op[p].pc \in FlowLine
  BY DEF StrandInv, FlowHeld, Shaped, FlowShape, Kind, Flows
<1>1. op'[p] # op[p] /\ op[p].pc # "idle"  BY <1>t DEF FlowLine, FlowPcs, PickerPcs
<1>2. CASE OpNext(p) \/ UserStep(p)  BY <1>t, <1>2, FlowReturns
<1>3. ~OpStart(p)
  BY <1>1 DEF OpStart, Tick, SyncNow, SetCadence, UpdateConfig, SetOption, UpdateOutbound, Pause, Resume, Installed,
     StartFlow, EnsureRoot, Connect, Remove, Begin
<1>4. ASSUME NEW r \in Procs, r # p, OpStart(r) \/ UserStep(r) \/ OpNext(r) PROVE FALSE
  BY <1>1, <1>t, <1>4, StartKeepsFlow, OpKeepsFlow DEF FlowStep
<1>5. ASSUME NEW r \in Procs, Crash(r) PROVE FALSE
  <2>1. op'[r].kind = "boot"  BY <1>5 DEF Crash, Idle
  <2> QED  BY <2>1
<1>6. ASSUME NEW l \in Loops, LoopNext(l) PROVE FALSE
  BY <1>1, <1>6 DEF LoopNext, PrevStopped, Entry, Pull, SubCommit, Settle, LiveRead, ErrRead,
     ReadCursor, LiveCommit, CallFailed, Caught, ErrCommit, Sleep, Drain, PassEnds, Quiet
<1> QED  BY <1>1, <1>2, <1>3, <1>4, <1>5, <1>6 DEF Next, vars, Respawn, Watchdog

(* restoreLoopAfterFailure, the restarts of applyScope and reconnect: a    *)
(* flow that stopped an active loop ends with a loop in its place if the   *)
(* account is to sync, also when its write failed or its reply was lost.   *)
(* The read that starts applyScope's loop again may fail: the catch reads  *)
(* once more.  When that read, or the one after a reconnect, fails too     *)
(* ("failedReads") the account is left without a loop.  Two transitions at *)
(* once, by ensureRoot or a freed slot, are left out as well: the intent   *)
(* of the one refuses the restart of the other.                            *)
THEOREM FlowsLeaveALoop ==
  ASSUME Kinds \cap {"ensure", "watchdog", "failedReads"} = {}
  PROVE  Spec => NoStranding
<1>1. StrandInv /\ [Next]_vars => StrandInv'  BY StrandInvNext
<1>2. StrandInv /\ [Next]_vars =>
        [\A p \in Procs :
           /\ op[p].was /\ Kind(p) \in {"manage", "ensure", "reconnect"}
           /\ op'[p].pc = "idle" /\ "boot" \notin {op'[q].kind : q \in Procs}
           /\ row'.exists /\ ~IsResting(row'.status)
           /\ registered /\ ~pauseIntent
           => running' # None /\ loop'[running'].pc \notin Ended]_vars
  BY StrandStep DEF Restarted
<1> QED  BY <1>1, <1>2, StrandInvInit, PTL DEF Spec, NoStranding

----------------------------------------------------------------------------
(***************************************************************************)
(* The stored cursor.  Three kinds of actor carry a cursor across an await *)
(* and write it back: a loop, a pause, and whoever commits 'connecting'.   *)
(* Each of them still carries the stored one when it writes: a pause has   *)
(* stopped the loops; 'connecting' was queued before any batch could be;   *)
(* and only one loop pulls at a time.                                      *)
(***************************************************************************)
\* The source stays registered, no transition goes without the slot of a flow, no
\* row is created again, a scope save meets nobody who carries a cursor but loops,
\* and 'connecting' is committed by resumes or for late connectors, not by both.
CursorKinds ==
  /\ Kinds \cap {"respawn", "ensure", "watchdog", "cancel"} = {}
  /\ "connect" \in Kinds => "remove" \notin Kinds
  /\ "manage" \in Kinds => Kinds \cap {"pause", "resume", "installed"} = {}
  /\ "resume" \in Kinds => "installed" \notin Kinds

CursorPcs == {"commitPause", "commitConnecting"}
Fits(o) ==
  /\ o.kind \in Kinds \cup {"none", "boot"}
  /\ o.pc \in {"readResume", "commitConnecting"} => o.kind \in {"resume", "installed"}
  /\ o.pc = "tx" => o.kind = "manage"
  /\ o.pc = "create" => o.kind = "connect"
  /\ o.pc = "createRoot" => o.kind = "ensure"
  /\ o.pc = "removeTx" => o.kind = "remove"
RarePcs == {"tx", "create", "createRoot", "removeTx"}
Fitting == \A p \in Procs : Fits(op[p])

\* A resume has taken the pause intent down, and the menu offers no pause yet, nor
\* another resume.
ResumeOK ==
  /\ \A p \in Procs : Kind(p) = "resume" => ~pauseIntent
  /\ \A p, q \in Procs : Kind(p) = "resume" /\ Kind(q) = "resume" => p = q

\* What a step of p means to those who carry a cursor.
CarryStep(p) ==
  /\ \A q \in Procs \ {p} : op'[q] = op[q]
  /\ Fits(op'[p])
  /\ op'[p].kind = "resume" => Kind(p) = "resume" \/ (~pauseIntent' /\ MenuFree)
  /\ pauseIntent' => pauseIntent \/ MenuFree
  /\ op'[p].kind = "resume" /\ op'[p].pc = "readResume" =>
       row.status = "paused" /\ UNCHANGED <<row, loop>>
  /\ op'[p].pc \in CursorPcs =>
       /\ op'[p].snap = row /\ row.exists /\ UNCHANGED <<row, loop>> /\ Served(p)
       /\ op'[p].pc = "commitConnecting" =>
            /\ op[p].pc = "readResume"
            /\ Kind(p) = "resume" \/ row.status = "needs-connector"

(* A step that takes up no cursor.                                         *)
LEMMA CarriesNone ==
  ASSUME Types, NEW p \in Procs, NEW o, op' = [op EXCEPT ![p] = o], Fits(o),
         o.kind = "resume" => Kind(p) = "resume" /\ o.pc # "readResume",
         o.pc \notin CursorPcs, pauseIntent' => pauseIntent \/ MenuFree
  PROVE  CarryStep(p)
<1>1. op'[p] = o /\ \A q \in Procs \ {p} : op'[q] = op[q]  BY DEF Types
<1> QED  BY <1>1 DEF CarryStep

(* An operation begins; a resume only where 'paused' is committed.         *)
LEMMA CarryStart ==
  ASSUME CursorKinds, Types, NEW p \in Procs, OpStart(p) PROVE CarryStep(p)
<1>c. ASSUME NEW k \in Kinds, k # "resume", NEW pc, pc \notin CursorPcs \cup RarePcs,
             pc = "readResume" => k = "installed",
             Call(p, [Idle EXCEPT !.kind = k, !.pc = pc], dbq), UNCHANGED pauseIntent
      PROVE  CarryStep(p)
  <2> DEFINE o == [Idle EXCEPT !.kind = k, !.pc = pc]
  <2>1. o.kind = k /\ o.pc = pc /\ op' = [op EXCEPT ![p] = o]  BY <1>c DEF Call, Idle
  <2> HIDE DEF o
  <2>2. Fits(o)  BY <1>c, <2>1 DEF Fits, CursorPcs, RarePcs
  <2> QED  BY <1>c, <2>1, <2>2, CarriesNone
<1>1. CASE Tick(p) \/ SyncNow(p) \/ SetCadence(p)
  BY <1>1, <1>c DEF Tick, SyncNow, SetCadence, Begin, CursorPcs, RarePcs
<1>2. CASE UpdateConfig(p) \/ SetOption(p) \/ UpdateOutbound(p)
  BY <1>2, <1>c DEF UpdateConfig, SetOption, UpdateOutbound, Begin, CursorPcs, RarePcs
<1>3. CASE Installed(p) \/ Connect(p)
  BY <1>3, <1>c DEF Installed, Connect, Begin, CursorPcs, RarePcs
<1>4. CASE StartFlow(p, "manage") \/ StartFlow(p, "reconnect")
  BY <1>4, <1>c DEF StartFlow, Begin, CursorPcs, RarePcs
<1>5. CASE Resume(p)
  <2> DEFINE o == [Idle EXCEPT !.kind = "resume", !.pc = "readResume"]
  <2>1. o.kind = "resume" /\ o.pc = "readResume" /\ op' = [op EXCEPT ![p] = o]
    BY <1>5 DEF Resume, Call, Idle
  <2> HIDE DEF o
  <2>2. op'[p] = o /\ \A q \in Procs \ {p} : op'[q] = op[q]  BY <2>1 DEF Types
  <2>3. "resume" \in Kinds /\ row.status = "paused" /\ ~pauseIntent' /\ MenuFree /\ UNCHANGED <<row, loop>>
    BY <1>5 DEF Resume, Begin
  <2> QED  BY <2>1, <2>2, <2>3 DEF CarryStep, Fits, CursorPcs
<1>6. CASE Pause(p) \/ Remove(p)
  <2>1. PICK k \in Kinds \cap {"pause", "remove"} :
          /\ BeginStop(p, [Idle EXCEPT !.kind = k], dbq)
          /\ pauseIntent' => pauseIntent \/ MenuFree
    BY <1>6 DEF Pause, Remove, Begin
  <2> DEFINE o == [[Idle EXCEPT !.kind = k] EXCEPT !.pc = "waitStop", !.h = running, !.was = IsRunning]
  <2>2. o.kind = k /\ o.pc = "waitStop" /\ op' = [op EXCEPT ![p] = o]
    BY <2>1 DEF BeginStop, Idle
  <2> HIDE DEF o
  <2>3. Fits(o)  BY <2>1, <2>2 DEF Fits
  <2>4. o.kind # "resume" /\ o.pc \notin CursorPcs  BY <2>1, <2>2 DEF CursorPcs
  <2> QED  BY <2>1, <2>2, <2>3, <2>4, CarriesNone
<1>7. ~EnsureRoot(p)  BY DEF EnsureRoot, Begin, CursorKinds
<1> QED  BY <1>1, <1>2, <1>3, <1>4, <1>5, <1>6, <1>7 DEF OpStart

(* An operation moves on; a cursor is taken up where the row is read.      *)
LEMMA CarryOp ==
  ASSUME CursorKinds, Types, Fitting, NEW p \in Procs, OpNext(p) \/ UserStep(p) PROVE CarryStep(p)
<1>t. op \in [Procs -> OpRecs] /\ op[p] \in OpRecs /\ Fits(op[p])  BY DEF Types, Fitting
<1>k. Kind(p) \notin {"ensure", "cancel"} /\ "cancel" \notin Kinds
  BY <1>t DEF Fits, CursorKinds, Kind
<1>o. ASSUME NEW o, op' = [op EXCEPT ![p] = o], o.kind = Kind(p),
             o.pc \notin CursorPcs \cup {"readResume"}, Fits(o) \/ o.pc \notin RarePcs,
             pauseIntent' => pauseIntent
      PROVE  CarryStep(p)
  <2>1. Fits(o)  BY <1>t, <1>o DEF Fits, CursorPcs, RarePcs, Kind
  <2> QED  BY <1>o, <2>1, CarriesNone
<1>c. ASSUME NEW pc, pc \notin CursorPcs \cup {"readResume"} \cup RarePcs, NEW q,
             \/ Call(p, [op[p] EXCEPT !.pc = pc], q)
             \/ Call(p, [op[p] EXCEPT !.pc = pc, !.snap = row], q),
             pauseIntent' => pauseIntent
      PROVE  CarryStep(p)
  <2>1. PICK o \in {[op[p] EXCEPT !.pc = pc], [op[p] EXCEPT !.pc = pc, !.snap = row]} :
          op' = [op EXCEPT ![p] = o]
    BY <1>c DEF Call
  <2>2. o.kind = Kind(p) /\ o.pc = pc  BY <1>t DEF OpRecs, Kind
  <2> QED  BY <1>c, <2>1, <2>2, <1>o
<1>r. ASSUME NEW q, Return(p, q), pauseIntent' => pauseIntent PROVE CarryStep(p)
  <2>1. op' = [op EXCEPT ![p] = Idle] /\ Idle.kind = "none" /\ Idle.pc = "idle"
    BY <1>r DEF Return, Idle
  <2>2. Fits(Idle)  BY <2>1 DEF Fits
  <2> QED  BY <1>r, <2>1, <2>2, CarriesNone DEF CursorPcs
<1>b. ASSUME NEW o \in OpRecs, o.kind = Kind(p), NEW q, BeginStop(p, o, q), UNCHANGED pauseIntent
      PROVE  CarryStep(p)
  <2> DEFINE u == [o EXCEPT !.pc = "waitStop", !.h = running, !.was = IsRunning]
  <2>1. u.kind = Kind(p) /\ u.pc = "waitStop" /\ op' = [op EXCEPT ![p] = u]
    BY <1>b DEF BeginStop, OpRecs
  <2> HIDE DEF u
  <2> QED  BY <1>b, <2>1, <1>o DEF CursorPcs, RarePcs
<1>x. ASSUME CatchTransition(p), UNCHANGED pauseIntent PROVE CarryStep(p)
  BY <1>x, <1>c, <1>r DEF CatchTransition, CursorPcs, RarePcs
\* The row is read for a status commit.
<1>s. ASSUME NEW pc \in CursorPcs, NEW q, Call(p, [op[p] EXCEPT !.pc = pc, !.snap = row], q),
             row.exists, UNCHANGED <<row, loop, pauseIntent>>, Served(p),
             pc = "commitConnecting" =>
               op[p].pc = "readResume" /\ (Kind(p) = "resume" \/ row.status = "needs-connector")
      PROVE  CarryStep(p)
  <2> DEFINE o == [op[p] EXCEPT !.pc = pc, !.snap = row]
  <2>1. o.kind = Kind(p) /\ o.pc = pc /\ o.snap = row /\ op' = [op EXCEPT ![p] = o]
    BY <1>s, <1>t DEF Call, OpRecs, Kind
  <2> HIDE DEF o
  <2>2. op'[p] = o /\ \A z \in Procs \ {p} : op'[z] = op[z]  BY <1>t, <2>1
  <2>3. Fits(o)  BY <1>s, <1>t, <2>1 DEF Fits, CursorPcs, Kind
  <2>4. pc # "readResume"  BY <1>s DEF CursorPcs
  <2> QED  BY <1>s, <2>1, <2>2, <2>3, <2>4 DEF CarryStep
<1>1. CASE StopDone(p)
  <2> DEFINE o == [op[p] EXCEPT !.pc = AfterStop(Kind(p))]
  <2>1. o.kind = Kind(p) /\ o.pc = AfterStop(Kind(p)) /\ op' = [op EXCEPT ![p] = o]
        /\ UNCHANGED pauseIntent
    BY <1>1, <1>t DEF StopDone, Call, OpRecs, Kind
  <2> HIDE DEF o
  <2>2. /\ o.pc \in {"readCur", "tx", "vault", "removeTx", "idle"}
        /\ o.pc = "tx" => Kind(p) = "manage"
        /\ o.pc = "removeTx" => Kind(p) = "remove"
    BY <1>k, <2>1 DEF AfterStop
  <2>3. Fits(o)  BY <1>t, <2>1, <2>2 DEF Fits, Kind
  <2> QED  BY <1>o, <2>1, <2>2, <2>3 DEF CursorPcs
<1>2. CASE CadenceSaved(p) \/ WriteConfig(p)
  <2>1. UNCHANGED pauseIntent  BY <1>2 DEF CadenceSaved, WriteConfig
  <2>2. Call(p, [op[p] EXCEPT !.pc = "readRun"], Tail(dbq)) \/ Return(p, Tail(dbq))
    BY <1>2 DEF CadenceSaved, WriteConfig
  <2> QED  BY <2>1, <2>2, <1>c, <1>r DEF CursorPcs, RarePcs
<1>3. CASE ReadThenRun(p) \/ ResumeCommit(p) \/ ScopeRestart(p) \/ Restore(p) \/ FlowAbandoned(p)
  <2>1. UNCHANGED pauseIntent
    BY <1>3 DEF ReadThenRun, ResumeCommit, ScopeRestart, Restore, FlowAbandoned
  <2>2. Return(p, Tail(dbq)) \/ Return(p, dbq) \/ CatchTransition(p)
    BY <1>3 DEF ReadThenRun, ResumeCommit, ScopeRestart, Restore, FlowAbandoned
  <2> QED  BY <2>1, <2>2, <1>r, <1>x
<1>4. CASE PauseCommit(p)
  BY <1>4, <1>r DEF PauseCommit
<1>5. CASE ConfigRead(p)
  BY <1>5, <1>c, <1>r DEF ConfigRead, CursorPcs, RarePcs
<1>6. CASE PauseRead(p)
  <2>1. Served(p)  BY <1>6 DEF PauseRead, At
  <2>2. CASE row.exists  BY <1>6, <2>1, <2>2, <1>s DEF PauseRead, CursorPcs
  <2>3. CASE ~row.exists  BY <1>6, <2>3, <1>r DEF PauseRead
  <2> QED  BY <2>2, <2>3
<1>7. CASE ResumeRead(p)
  <2>1. Served(p) /\ op[p].pc = "readResume"  BY <1>7 DEF ResumeRead, At
  <2> QED  BY <1>7, <2>1, <1>s, <1>r DEF ResumeRead, CursorPcs
<1>8. CASE Opened(p)
  <2> DEFINE o == [op[p] EXCEPT !.snap = row]
  <2> DEFINE u == [o EXCEPT !.pc = "user"]
  <2> DEFINE v == [o EXCEPT !.pc = "create"]
  <2>1. u.kind = Kind(p) /\ u.pc = "user" /\ v.kind = Kind(p) /\ v.pc = "create"
    BY <1>t DEF OpRecs, Kind
  <2>2. \/ op' = [op EXCEPT ![p] = u]
        \/ Kind(p) = "connect" /\ op' = [op EXCEPT ![p] = v]
        \/ Return(p, Tail(dbq))
    BY <1>8, <1>k DEF Opened, Call
  <2>3. UNCHANGED pauseIntent  BY <1>8 DEF Opened
  <2> HIDE DEF u, v
  <2>4. Kind(p) = "connect" => Fits(v)  BY <1>t, <2>1 DEF Fits, Kind
  <2> QED  BY <2>1, <2>2, <2>3, <2>4, <1>o, <1>r DEF CursorPcs, RarePcs
<1>9. CASE Rechecked(p) \/ SignedIn(p)
  <2>1. \/ BeginStop(p, op[p], Tail(dbq))
        \/ BeginStop(p, op[p], dbq)
        \/ Return(p, Tail(dbq))
    BY <1>9 DEF Rechecked, SignedIn, Quiesce
  <2>2. UNCHANGED pauseIntent  BY <1>9 DEF Rechecked, SignedIn
  <2> QED  BY <1>t, <1>b, <1>r, <2>1, <2>2 DEF Kind
<1>10. CASE Picked(p)  BY <1>10, <1>c DEF Picked, CursorPcs, RarePcs
<1>11. CASE ScopeTx(p) \/ StatusSet(p)
  <2>1. UNCHANGED pauseIntent  BY <1>11 DEF ScopeTx, StatusSet
  <2>2. \/ Call(p, [op[p] EXCEPT !.pc = "after"], Tail(dbq))
        \/ Call(p, [op[p] EXCEPT !.pc = "readRun"], Tail(dbq))
        \/ CatchTransition(p)
    BY <1>11 DEF ScopeTx, StatusSet
  <2> QED  BY <2>1, <2>2, <1>c, <1>x DEF CursorPcs, RarePcs
<1>12. CASE VaultSaved(p)
  <2>1. UNCHANGED pauseIntent  BY <1>12 DEF VaultSaved
  <2>2. \/ Call(p, [op[p] EXCEPT !.pc = "setStatus"], Tail(dbq))
        \/ Return(p, Tail(dbq)) \/ CatchTransition(p)
    BY <1>12, <1>k DEF VaultSaved
  <2> QED  BY <2>1, <2>2, <1>c, <1>r, <1>x DEF CursorPcs, RarePcs
<1>13. CASE CreateAccount(p)
  <2> DEFINE n == [op[p] EXCEPT !.snap = row', !.own = ~row.exists]
  <2> DEFINE u == [n EXCEPT !.pc = "waitStop", !.h = running, !.was = IsRunning]
  <2>1. u.kind = Kind(p) /\ u.pc = "waitStop"  BY <1>t DEF OpRecs, Kind
  <2>2. op' = [op EXCEPT ![p] = u] /\ UNCHANGED pauseIntent  BY <1>13 DEF CreateAccount, BeginStop
  <2> HIDE DEF u
  <2> QED  BY <1>o, <2>1, <2>2 DEF CursorPcs, RarePcs
<1>14. CASE RemoveAccount(p)
  BY <1>14, <1>r DEF RemoveAccount
<1>15. ~RootCreated(p)  BY <1>t, <1>k DEF RootCreated, At, Fits, Kind
<1> QED
  BY <1>1, <1>2, <1>3, <1>4, <1>5, <1>6, <1>7, <1>8, <1>9, <1>10, <1>11, <1>12, <1>13, <1>14, <1>15 DEF OpNext, UserStep

(* A pause waits for the menu, a resume has taken the intent down.         *)
LEMMA ResumeKept == ASSUME ResumeOK, NEW p \in Procs, CarryStep(p) PROVE ResumeOK'
<1>1. ASSUME NEW q \in Procs, op'[q].kind = "resume" PROVE ~pauseIntent'
  <2>1. CASE Kind(q) = "resume"
    <3>1. ~pauseIntent /\ ~MenuFree  BY <2>1 DEF ResumeOK, MenuFree, PauseOrResume
    <3> QED  BY <3>1 DEF CarryStep
  <2>2. CASE Kind(q) # "resume"  BY <1>1, <2>2 DEF CarryStep, Kind
  <2> QED  BY <2>1, <2>2
<1>2. ASSUME NEW q \in Procs, NEW z \in Procs, op'[q].kind = "resume", op'[z].kind = "resume"
      PROVE  q = z
  <2>1. MenuFree => \A r \in Procs : Kind(r) # "resume"  BY DEF MenuFree, PauseOrResume
  <2>2. \A r \in Procs \ {p} : op'[r].kind = "resume" => Kind(r) = "resume"
    BY DEF CarryStep, Kind
  <2>3. CASE Kind(p) = "resume"
    BY <1>2, <2>2, <2>3 DEF ResumeOK
  <2>4. CASE Kind(p) # "resume" /\ op'[p].kind = "resume"
    BY <1>2, <2>1, <2>2, <2>4 DEF CarryStep
  <2>5. CASE op'[p].kind # "resume"
    BY <1>2, <2>2, <2>5 DEF ResumeOK
  <2> QED  BY <2>3, <2>4, <2>5
<1> QED  BY <1>1, <1>2 DEF ResumeOK, Kind

(* Whoever takes up a step keeps to what its operation may do.             *)
LEMMA FittingKept == ASSUME Fitting, NEW p \in Procs, CarryStep(p) PROVE Fitting'
  BY DEF Fitting, CarryStep

\* Only the newest loop may still get on; under a transition's intent none may.
Aborting ==
  /\ \A l \in Loops : Live(l) /\ l # running => loop[l].aborted
  /\ transIntent => \A l \in Loops : Live(l) => loop[l].aborted

\* Callers move no loop: they abort it, or start one that waits.
Still(l) ==
  /\ loop'[l].pc = loop[l].pc /\ loop'[l].gen = loop[l].gen /\ loop'[l].pos = loop[l].pos
  /\ loop'[l].st = loop[l].st /\ (loop[l].aborted => loop'[l].aborted)
Starts(l) == loop'[l].pc = "waitPrev" /\ loop'[l].st = "connecting"
LoopsStay == \A l \in Loops : Still(l) \/ Starts(l)

(* An abort moves no loop (handle.stop).                                   *)
LEMMA StopStays ==
  ASSUME Types, loop' = loop \/ loop' = Abort(running) PROVE \A l \in Loops : Still(l)
<1> SUFFICES ASSUME NEW l \in Loops PROVE Still(l)  OBVIOUS
<1>1. loop \in [Loops -> LoopRecs]  BY DEF Types
<1>2. CASE loop' = loop  BY <1>2 DEF Still
<1>3. CASE loop' = Abort(running)  BY <1>1, <1>3 DEF Abort, Still, LoopRecs
<1> QED  BY <1>2, <1>3

(* run() aborts the loop of the map and starts one that waits for it.      *)
LEMMA RunDoes ==
  ASSUME LoopInv, NEW acc, NEW pi, NEW ti, Run(acc, pi, ti) \/ NoRun
  PROVE  \/ UNCHANGED <<runs, running, loop>>
         \/ /\ ~pi /\ ~ti
            /\ running' = runs + 1 /\ runs + 1 \in Loops /\ Starts(runs + 1)
            /\ \A l \in Loops \ {runs + 1} : loop'[l] = Abort(running)[l]
<1>1. CASE NoRun \/ UNCHANGED <<runs, running, loop>>  BY <1>1 DEF NoRun
<1>2. CASE Install(acc) /\ ~pi /\ ~ti
  <2>1. runs + 1 \in Loops  BY <1>2, LoopsAreNats, BoundsAssumption DEF Install, LoopInv, Types, Loops
  <2>2. Abort(running) \in [Loops -> LoopRecs]  BY AbortType DEF LoopInv
  <2>3. NewLoop(acc).pc = "waitPrev" /\ NewLoop(acc).st = "connecting"  BY DEF NewLoop, NoLoop
  <2>4. /\ running' = runs + 1
        /\ loop' = [Abort(running) EXCEPT ![runs + 1] = NewLoop(acc)]
    BY <1>2 DEF Install
  <2> QED  BY <1>2, <2>1, <2>2, <2>3, <2>4 DEF Starts
<1> QED  BY <1>1, <1>2 DEF Run, LoopInv

(* The loops after an abort of the map's.                                  *)
LEMMA AbortDoes ==
  ASSUME Types, NEW l \in Loops
  PROVE  /\ Abort(running)[l].pc = loop[l].pc
         /\ Abort(running)[l].gen = loop[l].gen /\ Abort(running)[l].pos = loop[l].pos
         /\ Abort(running)[l].st = loop[l].st
         /\ loop[l].aborted \/ l = running => Abort(running)[l].aborted
<1>1. loop \in [Loops -> LoopRecs] /\ l # None /\ running \in Loops \cup {None}
  BY LoopsAreNats DEF Types
<1>2. CASE running = None  BY <1>1, <1>2 DEF Abort
<1>3. CASE running # None /\ l # running  BY <1>1, <1>3 DEF Abort
<1>4. CASE l = running
  <2>1. Abort(running)[l] = [loop[l] EXCEPT !.aborted = TRUE]  BY <1>1, <1>4 DEF Abort
  <2> QED  BY <1>1, <2>1 DEF LoopRecs
<1> QED  BY <1>2, <1>3, <1>4

(* The loops there were are where they were.                               *)
LEMMA RunStays ==
  ASSUME LoopInv, NEW acc, NEW pi, NEW ti, Run(acc, pi, ti) \/ NoRun PROVE LoopsStay
<1>1. Types  BY DEF LoopInv
<1>2. CASE UNCHANGED loop  BY <1>1, <1>2, StopStays DEF LoopsStay
<1>3. CASE /\ Starts(runs + 1)
           /\ \A l \in Loops \ {runs + 1} : loop'[l] = Abort(running)[l]
  BY <1>1, <1>3, AbortDoes DEF LoopsStay, Still
<1> QED  BY <1>2, <1>3, RunDoes

(* A step of a caller, of whatever kind.                                   *)
LEMMA CallerStays ==
  ASSUME LoopInv, NEW p \in Procs, OpStart(p) \/ UserStep(p) \/ OpNext(p) PROVE LoopsStay
<1>t. Types  BY DEF LoopInv
<1>s. ASSUME loop' = loop \/ loop' = Abort(running) PROVE LoopsStay
  BY <1>t, <1>s, StopStays DEF LoopsStay
<1>n. NoRun => LoopsStay  BY <1>s DEF NoRun
<1>1. CASE OpStart(p) \/ UserStep(p)
  <2>1. loop' = loop \/ loop' = Abort(running)
    BY <1>1 DEF OpStart, UserStep, Tick, SyncNow, SetCadence, UpdateConfig, SetOption, UpdateOutbound, Pause,
       Resume, Installed, StartFlow, EnsureRoot, Connect, Remove, Picked, SignedIn,
       FlowAbandoned, Quiesce, BeginStop
  <2> QED  BY <2>1, <1>s
<1>2. CASE ReadThenRun(p) \/ Restore(p) \/ ResumeCommit(p) \/ RootCreated(p)
  BY <1>2, <1>n, RunStays DEF ReadThenRun, Restore, ResumeCommit, RootCreated
<1>3. CASE ScopeRestart(p)
  BY <1>3, <1>n, RunStays DEF ScopeRestart
<1>4. CASE VaultSaved(p)
  BY <1>4, <1>s, RunStays DEF VaultSaved, BeginStop
<1>5. CASE \/ StopDone(p) \/ CadenceSaved(p) \/ ConfigRead(p) \/ WriteConfig(p) \/ PauseRead(p)
           \/ PauseCommit(p) \/ ResumeRead(p) \/ ScopeTx(p) \/ StatusSet(p) \/ RemoveAccount(p)
  BY <1>5, <1>s DEF StopDone, CadenceSaved, ConfigRead, WriteConfig, PauseRead, PauseCommit,
     ResumeRead, ScopeTx, StatusSet, RemoveAccount
<1>6. CASE Opened(p) \/ Rechecked(p) \/ CreateAccount(p)
  BY <1>6, <1>s DEF Opened, Rechecked, CreateAccount, Quiesce, BeginStop
<1> QED  BY <1>1, <1>2, <1>3, <1>4, <1>5, <1>6 DEF OpNext

(* The loops stay, or the one of the map is aborted.                       *)
LEMMA StopAborts ==
  ASSUME LoopInv, Aborting, UNCHANGED running,
         \/ loop' = loop /\ (transIntent' => transIntent)
         \/ loop' = Abort(running)
  PROVE  Aborting'
<1>t. Types  BY DEF LoopInv
<1>1. CASE loop' = loop /\ (transIntent' => transIntent)
  BY <1>1 DEF Aborting, Live
<1>2. CASE loop' = Abort(running)
  <2>1. ASSUME NEW l \in Loops, Live(l)' PROVE loop'[l].aborted
    <3>1. Live(l)  BY <1>t, <1>2, <2>1, AbortDoes DEF Live
    <3> QED  BY <1>t, <1>2, <3>1, AbortDoes DEF Aborting
  <2> QED  BY <2>1 DEF Aborting
<1> QED  BY <1>1, <1>2

(* run() aborts the loop it replaces; under a transition's intent it       *)
(* starts none.                                                            *)
LEMMA RunAborts ==
  ASSUME LoopInv, Aborting, NEW acc, NEW pi, NEW ti, Run(acc, pi, ti) \/ NoRun,
         transIntent' => transIntent /\ ti
  PROVE  Aborting'
<1>t. Types  BY DEF LoopInv
<1>1. CASE UNCHANGED <<runs, running, loop>>  BY <1>1, StopAborts
<1>2. CASE /\ ~pi /\ ~ti
           /\ running' = runs + 1
           /\ \A l \in Loops \ {runs + 1} : loop'[l] = Abort(running)[l]
  <2>1. ASSUME NEW l \in Loops, Live(l)', l # running' PROVE loop'[l].aborted
    <3>1. loop'[l] = Abort(running)[l]  BY <1>2, <2>1
    <3>2. Live(l)  BY <1>t, <2>1, <3>1, AbortDoes DEF Live
    <3> QED  BY <1>t, <3>1, <3>2, AbortDoes DEF Aborting
  <2>2. ~transIntent'  BY <1>2
  <2> QED  BY <2>1, <2>2 DEF Aborting
<1> QED  BY <1>1, <1>2, RunDoes

(* A step of a caller leaves at most the newest loop to get on.            *)
LEMMA CallerAborts ==
  ASSUME LoopInv, Aborting, NEW p \in Procs, OpStart(p) \/ UserStep(p) \/ OpNext(p)
  PROVE  Aborting'
<1>n. NoRun /\ (transIntent' => transIntent) => Aborting'  BY StopAborts DEF NoRun
<1>1. CASE OpStart(p) \/ UserStep(p)
  <2>1. UNCHANGED running /\ \/ loop' = loop /\ (transIntent' => transIntent)
                             \/ loop' = Abort(running)
    BY <1>1 DEF OpStart, UserStep, Tick, SyncNow, SetCadence, UpdateConfig, SetOption, UpdateOutbound, Pause,
       Resume, Installed, StartFlow, EnsureRoot, Connect, Remove, Picked, SignedIn,
       FlowAbandoned, Quiesce, BeginStop
  <2> QED  BY <2>1, StopAborts
<1>2. CASE ReadThenRun(p) \/ ResumeCommit(p) \/ RootCreated(p)
  BY <1>2, <1>n, RunAborts DEF ReadThenRun, ResumeCommit, RootCreated
<1>3. CASE Restore(p)  BY <1>3, <1>n, RunAborts DEF Restore
<1>4. CASE ScopeRestart(p)  BY <1>4, <1>n, RunAborts DEF ScopeRestart, CatchTransition
<1>5. CASE StopDone(p)
  <2>1. CASE running' = running  BY <1>5, <2>1, StopAborts DEF StopDone
  <2>2. CASE running' # running
    <3>1. running # None /\ ~Live(running) /\ UNCHANGED loop  BY <1>5, <2>2 DEF StopDone, Settled
    <3>2. \A l \in Loops : ~Live(l)  BY <3>1 DEF LoopInv, LoopChain, NoOrphan
    <3> QED  BY <3>1, <3>2 DEF Aborting, Live
  <2> QED  BY <2>1, <2>2
<1>6. CASE \/ CadenceSaved(p) \/ ConfigRead(p) \/ WriteConfig(p) \/ PauseRead(p)
           \/ PauseCommit(p) \/ ResumeRead(p) \/ RemoveAccount(p)
  <2>1. UNCHANGED <<running, loop, transIntent>>
    BY <1>6 DEF CadenceSaved, ConfigRead, WriteConfig, PauseRead, PauseCommit, ResumeRead, RemoveAccount
  <2> QED  BY <2>1, StopAborts
<1>7. CASE ScopeTx(p) \/ StatusSet(p)
  <2>1. UNCHANGED <<running, loop>> /\ (transIntent' => transIntent)
    BY <1>7 DEF ScopeTx, StatusSet, CatchTransition
  <2> QED  BY <2>1, StopAborts
<1>8. CASE VaultSaved(p)
  <2>1. CASE UNCHANGED running /\ \/ loop' = loop /\ (transIntent' => transIntent)
                                  \/ loop' = Abort(running)
    BY <2>1, StopAborts
  <2>2. CASE Run(op[p].snap, pauseIntent, transIntent) /\ UNCHANGED transIntent
    BY <2>2, RunAborts
  <2> QED  BY <1>8, <2>1, <2>2 DEF VaultSaved, CatchTransition, BeginStop
<1>9. CASE Opened(p) \/ Rechecked(p)
  <2>1. UNCHANGED running /\ \/ loop' = loop /\ (transIntent' => transIntent)
                             \/ loop' = Abort(running)
    BY <1>9 DEF Opened, Rechecked, Quiesce, BeginStop
  <2> QED  BY <2>1, StopAborts
<1>10. CASE CreateAccount(p)
  BY <1>10, StopAborts DEF CreateAccount, BeginStop
<1> QED
  BY <1>1, <1>2, <1>3, <1>4, <1>5, <1>6, <1>7, <1>8, <1>9, <1>10 DEF OpNext

\* Whoever carries a cursor across an await carries the stored one.
Same(c) == c.gen = row.gen /\ c.pos = row.pos
CarrierPcs == {"pull", "commit", "liveCommit", "errCommit"}
Carried ==
  /\ \A l \in Loops : loop[l].pc \in CarrierPcs => Same(loop[l])
  /\ \A p \in Procs : op[p].pc \in CursorPcs => Same(op[p].snap)

ParkedIsIdle == IsParked(row.status) => \A l \in Loops : loop[l].pc \notin PullPcs
NotParked == \A l \in Loops : ~IsParked(loop[l].st)

\* A connect is of the account that is there: nobody removes it.
Known == "connect" \in Kinds => row.exists

\* What the callers do to the row: only a scope save moves the cursor, and who
\* takes an account out of its rest leaves no loop that would get on.
CallerRow(p) ==
  /\ row'.exists => row.exists
  /\ Known'
  /\ \/ row'.gen = row.gen /\ row'.pos = row.pos
     \/ op[p].pc = "tx" /\ row'.gen = row.gen + 1
  /\ row'.exists =>
       \/ row'.status = row.status
       \/ op[p].pc = "commitPause"
       \/ op[p].pc \in {"setStatus", "commitConnecting"} /\ ~IsParked(row'.status)
       \/ /\ ~IsParked(row'.status)
          /\ pauseIntent \/ \A l \in Loops : Live(l) => loop'[l].aborted

(* resume and startWhenInstalled commit 'connecting'.                      *)
LEMMA ResumeRow ==
  ASSUME LoopInv, Known, row.exists => Carried, NEW p \in Procs, ResumeCommit(p)
  PROVE  CallerRow(p)
<1>t. Types /\ row \in Rows /\ Known  BY DEF LoopInv, Types
<1>p. op[p].pc = "commitConnecting"  BY DEF ResumeCommit, At
<1>1. CASE row' = row  BY <1>t, <1>1 DEF CallerRow, Known
<1>2. CASE row.exists /\ row' = StatusCommit("connecting", op[p].snap.gen, op[p].snap.pos)
  <2>1. Same(op[p].snap)  BY <1>p, <1>2 DEF Carried, CursorPcs
  <2>2. /\ row'.exists = row.exists /\ row'.gen = row.gen /\ row'.pos = row.pos
        /\ row'.status = "connecting"
    BY <1>t, <1>2, <2>1 DEF StatusCommit, Same, Rows
  <2>3. ~IsParked(row'.status)  BY <2>2 DEF IsParked
  <2> QED  BY <1>p, <1>t, <2>2, <2>3 DEF CallerRow, Known
<1> QED  BY <1>1, <1>2 DEF ResumeCommit

(* A connect of an account that is there aborts the loop and updates the   *)
(* row; a removal takes the row away, and then nobody connects.            *)
LEMMA CreateRow ==
  ASSUME CursorKinds, LoopInv, Aborting, Fitting, Known, NEW p \in Procs,
         CreateAccount(p) \/ RemoveAccount(p)
  PROVE  CallerRow(p)
<1>t. Types /\ row \in Rows /\ Fits(op[p])  BY DEF LoopInv, Types, Fitting
<1>1. CASE CreateAccount(p)
  <2>1. "connect" \in Kinds /\ row.exists  BY <1>t, <1>1 DEF CreateAccount, At, Fits, Known
  <2>2. loop' = Abort(running) /\ Upsert(p)  BY <1>1, <2>1 DEF CreateAccount, BeginStop
  <2>3. PICK rt \in ConnectRoots(p), b \in BOOLEAN :
          row' = [row EXCEPT !.status = "connecting", !.roots = rt, !.rest = b]
    BY <2>2 DEF Upsert
  <2>4. /\ row'.exists = row.exists /\ row'.gen = row.gen /\ row'.pos = row.pos
        /\ row'.status = "connecting"
    BY <1>t, <2>3 DEF Rows
  <2>5. \A l \in Loops : Live(l) => loop'[l].aborted  BY <1>t, <2>2, AbortDoes DEF Aborting
  <2> QED  BY <2>1, <2>4, <2>5 DEF CallerRow, Known, IsParked
<1>2. CASE RemoveAccount(p)
  <2>1. "remove" \in Kinds  BY <1>t, <1>2 DEF RemoveAccount, At, Fits
  <2>2. row' = [row EXCEPT !.exists = FALSE]  BY <1>2 DEF RemoveAccount
  <2>3. ~row'.exists /\ row'.gen = row.gen /\ row'.pos = row.pos  BY <1>t, <2>2 DEF Rows
  <2> QED  BY <2>1, <2>3 DEF CallerRow, Known, CursorKinds
<1> QED  BY <1>1, <1>2

(* The rest.                                                               *)
LEMMA CallerWrites ==
  ASSUME CursorKinds, LoopInv, Aborting, Fitting, Known, row.exists => Carried, NEW p \in Procs,
         OpStart(p) \/ UserStep(p) \/ OpNext(p)
  PROVE  CallerRow(p)
<1>t. row \in Rows /\ Known  BY DEF LoopInv, Types
<1>k. UNCHANGED row => CallerRow(p)  BY <1>t DEF CallerRow, Known
<1>1. CASE OpStart(p) \/ UserStep(p)
  BY <1>1, <1>k DEF OpStart, UserStep, Tick, SyncNow, SetCadence, UpdateConfig, SetOption, UpdateOutbound, Pause,
       Resume, Installed, StartFlow, EnsureRoot, Connect, Remove, Picked, SignedIn, FlowAbandoned
<1>2. CASE \/ StopDone(p) \/ CadenceSaved(p) \/ ReadThenRun(p) \/ ConfigRead(p) \/ PauseRead(p)
           \/ ResumeRead(p) \/ Opened(p) \/ Rechecked(p) \/ ScopeRestart(p) \/ Restore(p) \/ VaultSaved(p)
  BY <1>2, <1>k DEF StopDone, CadenceSaved, ReadThenRun, ConfigRead, PauseRead, ResumeRead,
     Opened, Rechecked, ScopeRestart, Restore, VaultSaved
<1>3. CASE WriteConfig(p)
  <2>1. /\ row'.exists = row.exists /\ row'.gen = row.gen /\ row'.pos = row.pos
        /\ row'.status = row.status
    BY <1>3, <1>t DEF WriteConfig, ConfigWritten, Rows
  <2> QED  BY <1>t, <2>1 DEF CallerRow, Known
<1>4. CASE PauseCommit(p)
  <2>p. op[p].pc = "commitPause"  BY <1>4 DEF PauseCommit, At
  <2>1. row.exists => Same(op[p].snap)  BY <2>p DEF Carried, CursorPcs
  <2>2. row'.exists = row.exists /\ row'.gen = row.gen /\ row'.pos = row.pos
    BY <1>4, <1>t, <2>1 DEF PauseCommit, StatusCommit, Same, Rows
  <2> QED  BY <1>t, <2>p, <2>2 DEF CallerRow, Known
<1>5. CASE ResumeCommit(p)  BY <1>5, ResumeRow
<1>6. CASE ScopeTx(p)
  <2>1. op[p].pc = "tx"  BY <1>6 DEF ScopeTx, At
  <2>2. UNCHANGED row \/ row' \in ScopeSaved  BY <1>6 DEF ScopeTx
  <2>3. row' \in ScopeSaved => row'.exists = row.exists /\ row'.gen = row.gen + 1 /\ row'.status = row.status
    BY <1>t DEF ScopeSaved, Rows
  <2> QED  BY <1>k, <1>t, <2>1, <2>2, <2>3 DEF CallerRow, Known
<1>7. CASE StatusSet(p)
  <2>1. op[p].pc = "setStatus"  BY <1>7 DEF StatusSet, Reconnected, At
  <2>2. UNCHANGED row \/ row' = [row EXCEPT !.status = "connecting"]  BY <1>7, <1>t DEF StatusSet, Reconnected
  <2>3. CASE row' = [row EXCEPT !.status = "connecting"]
    <3>1. /\ row'.exists = row.exists /\ row'.gen = row.gen /\ row'.pos = row.pos
          /\ row'.status = "connecting"
      BY <1>t, <2>3 DEF Rows
    <3> QED  BY <1>t, <2>1, <3>1 DEF CallerRow, IsParked, Known
  <2> QED  BY <1>k, <2>2, <2>3
<1>8. CASE CreateAccount(p) \/ RemoveAccount(p)
  BY <1>8, CreateRow
<1>9. ~RootCreated(p)
  <2>1. Fits(op[p]) /\ "ensure" \notin Kinds  BY DEF Fitting, CursorKinds
  <2> QED  BY <2>1 DEF RootCreated, At, Fits
<1> QED  BY <1>1, <1>2, <1>3, <1>4, <1>5, <1>6, <1>7, <1>8, <1>9 DEF OpNext

----------------------------------------------------------------------------
\* While a resume waits to read the row, no loop is committing or will be; and
\* who has read the row for 'connecting' stands before every batch in the queue.
NoBatch(p) ==
  Kind(p) = "resume" /\ op[p].pc = "readResume" =>
    \A l \in Loops :
      /\ loop[l].pc # "commit"
      /\ loop[l].pc = "pull" => loop[l].aborted
      /\ loop[l].pc = "read" => IsParked(row.status) \/ loop[l].aborted \/ Before(p, l)
BatchBehind(p) ==
  op[p].pc = "commitConnecting" => \A l \in Loops : loop[l].pc = "commit" => Before(p, l)
NoBatches == \A p \in Procs : NoBatch(p) /\ BatchBehind(p)

Steady == ParkedIsIdle /\ NoBatches /\ Carried
CursorOK ==
  Fitting /\ ResumeOK /\ Aborting /\ NotParked /\ Known /\ (row.exists => Steady)
CursorInv == QueueInv /\ PauseInv /\ TransInv /\ CursorOK

(* What is parked stays so, but for a status commit that leaves no loop    *)
(* to get on, and for 'connecting'.                                        *)
LEMMA CallerParks ==
  ASSUME CursorInv, NEW p \in Procs, LoopsStay, CallerRow(p), row'.exists
  PROVE  /\ ParkedIsIdle'
         /\ \A l \in Loops : Live(l) /\ IsParked(row.status) =>
              IsParked(row'.status) \/ pauseIntent \/ loop'[l].aborted \/ op[p].pc = "commitConnecting"
<1>1. \A l \in Loops : loop'[l].pc \in PullPcs => loop[l].pc \in PullPcs
  BY DEF LoopsStay, Still, Starts, PullPcs
<1>2. ASSUME op[p].pc = "commitPause" \/ op[p].pc = "setStatus", NEW l \in Loops PROVE ~Live(l)
  <2>1. CASE op[p].pc = "commitPause"
    BY <2>1 DEF CursorInv, PauseInv, PauseOK, Pausing, PausePcs, Calm
  <2>2. CASE op[p].pc = "setStatus"
    BY <2>2 DEF CursorInv, TransInv, TransOK, Transiting, FlowPcs, TransitionPcs, Calm
  <2> QED  BY <1>2, <2>1, <2>2
<1>3. \A l \in Loops : loop[l].pc \in PullPcs => Live(l)  BY DEF PullPcs, Live, Ended
<1>4. ParkedIsIdle  BY DEF CursorInv, CursorOK, Steady, CallerRow
<1>5. CASE row'.status = row.status  BY <1>1, <1>4, <1>5 DEF ParkedIsIdle
<1>6. CASE op[p].pc = "commitPause" \/ op[p].pc = "setStatus"
  BY <1>1, <1>2, <1>3, <1>6 DEF ParkedIsIdle
<1>7. CASE ~IsParked(row'.status) /\ (pauseIntent \/ \A l \in Loops : Live(l) => loop'[l].aborted)
  BY <1>7 DEF ParkedIsIdle
<1>8. CASE ~IsParked(row'.status) /\ op[p].pc = "commitConnecting"
  BY <1>8 DEF ParkedIsIdle
<1> QED  BY <1>5, <1>6, <1>7, <1>8 DEF CallerRow

(* A caller that reads the row for 'connecting' finds no batch queued.     *)
LEMMA CallerNoBatch ==
  ASSUME CursorKinds, CursorInv, NEW p \in Procs, Shift(p), CarryStep(p), LoopsStay, CallerRow(p), row'.exists
  PROVE  NoBatches'
<1>t. Types /\ ParkedIsIdle /\ NoBatches /\ ResumeOK /\ Fits(op[p])
  BY DEF Fitting, CursorInv, CursorOK, Steady, CallerRow, PauseInv, LoopInv
<1>1. ASSUME NEW q \in Procs, q # p PROVE NoBatch(q)' /\ BatchBehind(q)'
  <2>1. op'[q] = op[q] /\ NoBatch(q) /\ BatchBehind(q)  BY <1>1, <1>t DEF CarryStep, NoBatches
  <2>2. \A l \in Loops : Before(q, l) => Before(q, l)'  BY <1>t, <1>1, BeforeKept
  <2>3. BatchBehind(q)'
    BY <2>1, <2>2 DEF BatchBehind, LoopsStay, Still, Starts
  <2>4. NoBatch(q)'
    <3> SUFFICES ASSUME Kind(q) = "resume", op[q].pc = "readResume", NEW l \in Loops
                 PROVE  /\ loop'[l].pc # "commit"
                        /\ loop'[l].pc = "pull" => loop'[l].aborted
                        /\ loop'[l].pc = "read" =>
                             IsParked(row'.status) \/ loop'[l].aborted \/ Before(q, l)'
      BY <2>1 DEF NoBatch, Kind
    <3>1. CASE Starts(l)  BY <3>1 DEF Starts
    <3>2. CASE Still(l)
      <4>1. ~pauseIntent  BY <1>t DEF ResumeOK
      <4>2. loop[l].pc = "read" => Live(l)  BY DEF Live, Ended
      <4>3. op[p].pc # "commitConnecting"
        <5>1. "resume" \in Kinds
          BY <1>1 DEF CursorInv, CursorOK, Fitting, Fits, Kind
        <5> QED  BY <1>1, <1>t, <5>1 DEF Fits, ResumeOK, Kind, CursorKinds
      <4> QED  BY <2>1, <2>2, <3>2, <4>1, <4>2, <4>3, CallerParks DEF NoBatch, Still
    <3> QED  BY <3>1, <3>2 DEF LoopsStay
  <2> QED  BY <2>3, <2>4
<1>2. NoBatch(p)'
  <2> SUFFICES ASSUME op'[p].kind = "resume", op'[p].pc = "readResume" PROVE NoBatch(p)'
    BY DEF NoBatch, Kind
  <2>1. row.status = "paused" /\ UNCHANGED <<row, loop>>  BY DEF CarryStep
  <2>2. IsParked(row.status)  BY <2>1 DEF IsParked
  <2>3. \A l \in Loops : loop[l].pc \notin {"pull", "commit"}
    BY <1>t, <2>2 DEF ParkedIsIdle, PullPcs
  <2> QED  BY <2>1, <2>2, <2>3 DEF NoBatch
<1>3. BatchBehind(p)'
  <2> SUFFICES ASSUME op'[p].pc = "commitConnecting", NEW l \in Loops PROVE loop'[l].pc # "commit"
    BY DEF BatchBehind
  <2>1. /\ UNCHANGED loop /\ op[p].pc = "readResume"
        /\ Kind(p) = "resume" \/ row.status = "needs-connector"
    BY DEF CarryStep, CursorPcs
  <2>2. CASE Kind(p) = "resume"  BY <1>t, <2>1, <2>2 DEF NoBatches, NoBatch
  <2>3. CASE row.status = "needs-connector"
    BY <1>t, <2>1, <2>3 DEF ParkedIsIdle, IsParked, PullPcs
  <2> QED  BY <2>1, <2>2, <2>3
<1> QED  BY <1>1, <1>2, <1>3 DEF NoBatches

(* Nobody carries a cursor where a scope save may move it.                 *)
LEMMA CallerCarries ==
  ASSUME CursorKinds, CursorInv, NEW p \in Procs, CarryStep(p), LoopsStay, CallerRow(p), row'.exists
  PROVE  Carried'
<1>c. Carried /\ Fitting /\ PauseOK /\ TransOK
  BY DEF CursorInv, CursorOK, Steady, CallerRow, PauseInv, TransInv
<1>1. CASE row'.gen = row.gen /\ row'.pos = row.pos
  <2>1. ASSUME NEW l \in Loops, loop'[l].pc \in CarrierPcs PROVE Same(loop[l])' 
    <3>1. Still(l)  BY <2>1 DEF LoopsStay, Starts, CarrierPcs
    <3>2. Same(loop[l])  BY <1>c, <2>1, <3>1 DEF Still, Carried
    <3> QED  BY <1>1, <3>1, <3>2 DEF Same, Still
  <2>2. ASSUME NEW q \in Procs, op'[q].pc \in CursorPcs PROVE Same(op[q].snap)'
    <3>1. CASE q = p
      BY <1>1, <2>2, <3>1 DEF CarryStep, Same
    <3>2. CASE q # p
      <4>1. op'[q] = op[q]  BY <3>2 DEF CarryStep
      <4>2. Same(op[q].snap)  BY <1>c, <2>2, <4>1 DEF Carried
      <4> QED  BY <1>1, <4>1, <4>2 DEF Same
    <3> QED  BY <3>1, <3>2
  <2> QED  BY <2>1, <2>2 DEF Carried
<1>2. CASE op[p].pc = "tx" /\ ~(row'.gen = row.gen /\ row'.pos = row.pos)
  <2>1. Kind(p) \in Flows /\ Kind(p) = "manage"
    BY <1>c, <1>2 DEF Fitting, Fits, Kind, Flows
  <2>2. Calm  BY <1>c, <1>2, <2>1 DEF TransOK, Transiting, TransitionPcs
  <2>3. ASSUME NEW l \in Loops PROVE loop'[l].pc \notin CarrierPcs
    <3>1. loop[l].pc \in {"unused", "done"}  BY <2>2 DEF Calm, Live, Ended
    <3> QED  BY <3>1 DEF LoopsStay, Still, Starts, CarrierPcs
  <2>4. "manage" \in Kinds
    BY <1>c, <2>1 DEF Fitting, Fits, Kind
  <2>5. ASSUME NEW q \in Procs PROVE op'[q].pc \notin CursorPcs
    <3>1. CASE q = p
      <4>1. op[p].pc = "tx" /\ (op'[p].pc \in CursorPcs => UNCHANGED row)
        BY <1>2 DEF CarryStep
      <4> QED  BY <1>2, <3>1, <4>1
    <3>2. CASE q # p
      <4>1. op'[q] = op[q] /\ Fits(op[q])  BY <1>c, <3>2 DEF CarryStep, Fitting
      <4>2. op[q].kind \notin {"pause", "resume", "installed"}
        BY <2>4, <4>1 DEF Fits, CursorKinds
      <4>3. op[q].pc = "commitPause" => op[q].kind = "pause"
        BY <1>c DEF PauseOK, Pausing, PausePcs, Kind
      <4> QED  BY <4>1, <4>2, <4>3 DEF Fits, CursorPcs
    <3> QED  BY <3>1, <3>2
  <2> QED  BY <2>3, <2>5 DEF Carried
<1> QED  BY <1>1, <1>2 DEF CallerRow

\* A step of loop l.  It begins to pull where it has read an account that does not
\* rest; it commits a batch it has pulled unless it was aborted; what it carries
\* is the stored cursor, and only a batch moves that, forward.
Moves(l) ==
  /\ \A k \in Loops \ {l} : loop'[k] = loop[k]
  /\ UNCHANGED <<running, op, pauseIntent, transIntent>>
  /\ Shift(l)
  /\ Live(l)' => Live(l) /\ (loop[l].aborted => loop'[l].aborted)
  /\ ~IsParked(loop'[l].st)
  /\ row.exists /\ loop'[l].pc \in PullPcs =>
       loop[l].pc \in PullPcs \/ (~IsParked(row.status) /\ row' = row)
  /\ loop'[l].pc = "read" => dbq' = Append(dbq, l)
  /\ row.exists /\ loop'[l].pc = "pull" =>
       loop[l].pc = "commit" \/ (loop[l].pc = "read" /\ Served(l) /\ ~IsParked(row.status))
  /\ loop'[l].pc = "commit" =>
       \/ loop[l].pc = "pull" /\ ~loop[l].aborted /\ dbq' = Append(dbq, l)
       \/ loop[l].pc = "commit" /\ Served(l)
  /\ row'.exists = row.exists /\ row'.gen = row.gen
  /\ \/ row' = row
     \/ /\ loop[l].pc \in {"commit", "liveCommit", "errCommit"} /\ ~IsParked(row'.status)
        /\ \/ row'.pos = row.pos
           \/ loop[l].pc = "commit" /\ Served(l) /\ row'.pos >= row.pos
  /\ row.exists /\ loop'[l].pc \in CarrierPcs => Same(loop[l])'

(* A step that neither reads the cursor nor writes it.                     *)
LEMMA StepMoves ==
  ASSUME Types, row.exists => Carried, NotParked, NEW l \in Loops, NEW pc, NEW st, NEW r,
         loop' = [loop EXCEPT ![l] = r],
         r.pc = pc, r.gen = loop[l].gen, r.pos = loop[l].pos, r.aborted = loop[l].aborted,
         ~IsParked(r.st), Live(l), Quiet, UNCHANGED row, Shift(l),
         pc \in CarrierPcs => loop[l].pc \in CarrierPcs,
         pc \in PullPcs => loop[l].pc \in PullPcs,
         pc = "read" => dbq' = Append(dbq, l), pc # "pull",
         pc = "commit" => loop[l].pc = "pull" /\ ~loop[l].aborted /\ dbq' = Append(dbq, l)
  PROVE  Moves(l)
<1>1. loop'[l] = r /\ \A k \in Loops \ {l} : loop'[k] = loop[k]  BY DEF Types
<1>2. row.exists /\ loop'[l].pc \in CarrierPcs => Same(loop[l])'
  BY <1>1 DEF Carried, Same
<1> QED  BY <1>1, <1>2 DEF Moves, Quiet

(* The loop ends (every exit of run()'s body).                             *)
LEMMA EndMoves ==
  ASSUME Types, NEW l \in Loops, NEW q, Finish(l, q), Quiet, Shift(l),
         row'.exists = row.exists, row'.gen = row.gen, row'.pos = row.pos,
         \/ row' = row
         \/ loop[l].pc \in {"commit", "liveCommit", "errCommit"} /\ ~IsParked(row'.status)
  PROVE  Moves(l)
<1>1. /\ loop'[l].pc = "done" /\ loop'[l].st = "connecting"
      /\ \A k \in Loops \ {l} : loop'[k] = loop[k]
  BY DEF Finish, NoLoop, Types
<1> QED
  BY <1>1 DEF Moves, Quiet, Live, Ended, PullPcs, CarrierPcs, IsParked

(* The same for a step that only moves on (LoopStep).                      *)
LEMMA LoopStepMoves ==
  ASSUME Types, row.exists => Carried, NotParked, NEW l \in Loops, NEW pc, NEW q, LoopStep(l, pc, q),
         Live(l), Quiet, UNCHANGED row, Shift(l),
         pc \in CarrierPcs => loop[l].pc \in CarrierPcs,
         pc \in PullPcs => loop[l].pc \in PullPcs,
         pc = "read" => dbq' = Append(dbq, l), pc # "pull",
         pc = "commit" => loop[l].pc = "pull" /\ ~loop[l].aborted /\ dbq' = Append(dbq, l)
  PROVE  Moves(l)
<1> DEFINE r == [loop[l] EXCEPT !.pc = pc]
<1>1. /\ r.pc = pc /\ r.gen = loop[l].gen /\ r.pos = loop[l].pos /\ r.aborted = loop[l].aborted
      /\ r.st = loop[l].st
  BY DEF Types, LoopRecs
<1>2. loop' = [loop EXCEPT ![l] = r]  BY DEF LoopStep
<1> HIDE DEF r
<1>3. ~IsParked(r.st)  BY <1>1 DEF NotParked
<1> QED  BY <1>1, <1>2, <1>3, StepMoves

(* A loop enters its cycle with the cursor it has just read.               *)
LEMMA EntryMoves ==
  ASSUME Types, row.exists => Carried, NotParked, NEW l \in Loops, Entry(l), Shift(l) PROVE Moves(l)
<1>t. loop \in [Loops -> LoopRecs]  BY DEF Types
<1>1. CASE Finish(l, Tail(dbq))
  BY <1>1, <1>t, EndMoves DEF Entry
<1>2. ASSUME NEW rec, ~IsParked(Fresh(l).status),
             loop' = [loop EXCEPT ![l].pc = "pull", ![l].gen = Fresh(l).gen,
                                  ![l].pos = Fresh(l).pos, ![l].rec = rec]
      PROVE  Moves(l)
  <2>1. /\ loop'[l].pc = "pull" /\ loop'[l].gen = Fresh(l).gen /\ loop'[l].pos = Fresh(l).pos
        /\ loop'[l].aborted = loop[l].aborted /\ loop'[l].st = loop[l].st
        /\ \A k \in Loops \ {l} : loop'[k] = loop[k]
    BY <1>t, <1>2 DEF LoopRecs
  <2>2. UNCHANGED row /\ Quiet /\ loop[l].pc = "read" /\ Served(l)  BY DEF Entry
  <2>3. row.exists => ~IsParked(row.status) /\ Same(loop[l])'
    BY <1>2, <2>1, <2>2 DEF Same, Fresh
  <2>4. Live(l)  BY <2>2 DEF Live, Ended
  <2>5. ~IsParked(loop'[l].st)  BY <2>1 DEF NotParked
  <2> QED  BY <1>t, <1>2, <2>1, <2>2, <2>3, <2>4, <2>5 DEF Moves, Quiet
<1> QED  BY <1>1, <1>2 DEF Entry

(* A sub-commit moves the cursor of the loop and of the row together.      *)
LEMMA SubCommitMoves ==
  ASSUME Types, row.exists => Carried, NotParked, NEW l \in Loops, SubCommit(l), Shift(l) PROVE Moves(l)
<1>t. loop \in [Loops -> LoopRecs] /\ row \in Rows /\ loop[l] \in LoopRecs  BY DEF Types
<1>1. PICK s \in {"backfilling", "live"}, last \in BOOLEAN :
        LET pos  == IF last THEN Next1(loop[l].pos) ELSE loop[l].pos
            goon == ~last /\ ~loop[l].aborted
            pc   == IF goon THEN "commit" ELSE IF last THEN "pull" ELSE "caught"
        IN /\ row' = StatusCommit(s, loop[l].gen, pos)
           /\ loop' = [loop EXCEPT ![l].pc = pc, ![l].pos = pos,
                         ![l].retries = IF last THEN 0 ELSE loop[l].retries]
           /\ dbq' = IF goon THEN Append(Tail(dbq), l) ELSE Tail(dbq)
  BY DEF SubCommit
<1> DEFINE pos == IF last THEN Next1(loop[l].pos) ELSE loop[l].pos
<1> DEFINE pc == IF ~last /\ ~loop[l].aborted THEN "commit" ELSE IF last THEN "pull" ELSE "caught"
<1> DEFINE rt == IF last THEN 0 ELSE loop[l].retries
<1>2. row.exists /\ Same(loop[l]) /\ loop[l].pc = "commit" /\ Served(l) /\ Quiet
  BY DEF Carried, CarrierPcs, SubCommit
<1>3. pos \in Nat /\ pos >= row.pos
  <2>1. loop[l].pos \in Nat /\ loop[l].pos = row.pos  BY <1>t, <1>2 DEF LoopRecs, Same
  <2> QED  BY <2>1, BoundsAssumption DEF Next1
<1>4. /\ row' = StatusCommit(s, loop[l].gen, pos)
      /\ loop' = [loop EXCEPT ![l].pc = pc, ![l].pos = pos, ![l].retries = rt]
  BY <1>1
<1>5. pc \in {"commit", "pull", "caught"}  OBVIOUS
<1> HIDE DEF pos, pc, rt
<1>6. /\ loop'[l].pc = pc /\ loop'[l].gen = loop[l].gen /\ loop'[l].pos = pos
      /\ loop'[l].aborted = loop[l].aborted /\ loop'[l].st = loop[l].st
      /\ \A k \in Loops \ {l} : loop'[k] = loop[k]
  BY <1>t, <1>4 DEF LoopRecs
<1>7. row'.exists /\ row'.gen = row.gen /\ row'.pos = pos /\ row'.status = s
  BY <1>t, <1>2, <1>4 DEF StatusCommit, Rows, Same
<1>8. ~IsParked(row'.status) /\ Live(l) /\ loop[l].pc \in PullPcs
  BY <1>2, <1>7 DEF IsParked, Live, Ended, PullPcs
<1>9. Same(loop[l])'  BY <1>2, <1>6, <1>7 DEF Same
<1>10. ~IsParked(loop'[l].st)  BY <1>6 DEF NotParked
<1> QED
  BY <1>2, <1>3, <1>5, <1>6, <1>7, <1>8, <1>9, <1>10 DEF Moves, Quiet

(* The read of a final status commit.                                      *)
LEMMA ReadMoves ==
  ASSUME Types, row.exists => Carried, NotParked, NEW l \in Loops, LiveRead(l) \/ ErrRead(l), Shift(l)
  PROVE  Moves(l)
<1>t. loop \in [Loops -> LoopRecs]  BY DEF Types
<1>1. ASSUME NEW from \in {"liveRead", "errRead"}, NEW to \in {"liveCommit", "errCommit"},
             to = "liveCommit" => from = "liveRead", ReadCursor(l, from, to)
      PROVE  Moves(l)
  <2>1. /\ loop'[l].pc = to /\ loop'[l].gen = Fresh(l).gen /\ loop'[l].pos = Fresh(l).pos
        /\ loop'[l].aborted = loop[l].aborted /\ loop'[l].st = loop[l].st
        /\ \A k \in Loops \ {l} : loop'[k] = loop[k]
    BY <1>t, <1>1 DEF ReadCursor, LoopRecs
  <2>2. UNCHANGED row /\ Quiet /\ loop[l].pc = from  BY <1>1 DEF ReadCursor
  <2>3. row.exists => Same(loop[l])'  BY <2>1, <2>2 DEF Same, Fresh
  <2>4. Live(l)  BY <1>1, <2>2 DEF Live, Ended
  <2>5. ~IsParked(loop'[l].st)  BY <2>1 DEF NotParked
  <2>6. to \notin {"read", "pull", "commit"} /\ (to \in PullPcs => loop[l].pc \in PullPcs)
    BY <1>1, <2>2 DEF PullPcs
  <2> QED  BY <1>t, <2>1, <2>2, <2>3, <2>4, <2>5, <2>6 DEF Moves, Quiet
<1> QED  BY <1>1 DEF LiveRead, ErrRead

(* A final status commit carries the cursor that was read for it.          *)
LEMMA FinalMoves ==
  ASSUME Types, row.exists => Carried, NotParked, NEW l \in Loops, LiveCommit(l) \/ ErrCommit(l), Shift(l)
  PROVE  Moves(l)
<1>t. row \in Rows  BY DEF Types
<1>1. CASE LiveCommit(l)
  <2>1. row.exists /\ Same(loop[l]) /\ loop[l].pc = "liveCommit"  BY <1>1 DEF LiveCommit, Carried, CarrierPcs
  <2>2. row'.exists /\ row'.gen = row.gen /\ row'.pos = row.pos /\ row'.status = "live"
    BY <1>1, <1>t, <2>1 DEF LiveCommit, StatusCommit, Same, Rows
  <2> QED  BY <1>1, <2>1, <2>2, EndMoves DEF LiveCommit, IsParked
<1>2. CASE ErrCommit(l)
  <2>1. CASE UNCHANGED row  BY <1>2, <1>t, <2>1, EndMoves DEF ErrCommit
  <2>2. CASE /\ loop[l].pc = "errCommit" /\ row.exists
             /\ row' = StatusCommit(loop[l].st, loop[l].gen, loop[l].pos)
    <3>1. Same(loop[l])  BY <2>2 DEF Carried, CarrierPcs
    <3>2. row'.exists /\ row'.gen = row.gen /\ row'.pos = row.pos /\ row'.status = loop[l].st
      BY <1>t, <2>2, <3>1 DEF StatusCommit, Same, Rows
    <3> QED  BY <1>2, <2>2, <3>2, EndMoves DEF ErrCommit, NotParked
  <2> QED  BY <1>2, <2>1, <2>2 DEF ErrCommit
<1> QED  BY <1>1, <1>2

(* A rejected call; the batch may have landed all the same.                *)
LEMMA FailedMoves ==
  ASSUME Types, row.exists => Carried, NotParked, NEW l \in Loops, CallFailed(l), Shift(l) PROVE Moves(l)
<1>t. loop \in [Loops -> LoopRecs] /\ loop[l] \in LoopRecs /\ row \in Rows
  BY DEF Types
<1>p. /\ loop[l].pc \in {"read", "commit", "liveRead", "liveCommit"} /\ Served(l) /\ Quiet
      /\ LoopStep(l, "rejected", Tail(dbq)) /\ Live(l)
  BY DEF CallFailed, Live, Ended
<1>1. CASE UNCHANGED row
  BY <1>p, <1>1, LoopStepMoves DEF CarrierPcs, PullPcs
<1>2. CASE loop[l].pc = "commit" /\ row.exists /\ row' = StatusCommit("live", loop[l].gen, Next1(loop[l].pos))
  <2>1. Same(loop[l])  BY <1>2 DEF Carried, CarrierPcs
  <2>2. row'.exists /\ row'.gen = row.gen /\ row'.pos = Next1(row.pos) /\ row'.status = "live"
    BY <1>t, <1>2, <2>1 DEF StatusCommit, Same, Rows
  <2>3. Next1(row.pos) >= row.pos  BY <1>t, BoundsAssumption DEF Next1, Rows
  <2>4. /\ loop'[l].pc = "rejected" /\ loop'[l].aborted = loop[l].aborted /\ loop'[l].st = loop[l].st
        /\ \A k \in Loops \ {l} : loop'[k] = loop[k]
    BY <1>t, <1>p DEF LoopStep, LoopRecs
  <2>5. ~IsParked(loop'[l].st) /\ ~IsParked(row'.status)
    BY <2>2, <2>4 DEF NotParked, IsParked
  <2> QED
    BY <1>p, <1>2, <2>2, <2>3, <2>4, <2>5 DEF Moves, Quiet, PullPcs, CarrierPcs
<1>3. CASE loop[l].pc = "liveCommit" /\ row.exists /\ row' = StatusCommit("live", loop[l].gen, loop[l].pos)
  <2>1. Same(loop[l])  BY <1>3 DEF Carried, CarrierPcs
  <2>2. row'.exists /\ row'.gen = row.gen /\ row'.pos = row.pos /\ row'.status = "live"
    BY <1>t, <1>3, <2>1 DEF StatusCommit, Same, Rows
  <2>3. /\ loop'[l].pc = "rejected" /\ loop'[l].aborted = loop[l].aborted /\ loop'[l].st = loop[l].st
        /\ \A k \in Loops \ {l} : loop'[k] = loop[k]
    BY <1>t, <1>p DEF LoopStep, LoopRecs
  <2>4. ~IsParked(loop'[l].st) /\ ~IsParked(row'.status)
    BY <2>2, <2>3 DEF NotParked, IsParked
  <2> QED
    BY <1>p, <1>3, <2>2, <2>3, <2>4 DEF Moves, Quiet, PullPcs, CarrierPcs
<1> QED  BY <1>1, <1>2, <1>3 DEF CallFailed

(* The catch: another attempt, an error commit, or the end.                *)
LEMMA CaughtMoves ==
  ASSUME Types, row.exists => Carried, NotParked, NEW l \in Loops, Caught(l), Shift(l) PROVE Moves(l)
<1>t. loop \in [Loops -> LoopRecs]  BY DEF Types
<1>p. Quiet /\ UNCHANGED row /\ Live(l)  BY DEF Caught, Live, Ended
<1>1. ASSUME NEW q, Finish(l, q) PROVE Moves(l)  BY <1>t, <1>p, <1>1, EndMoves
<1>2. ASSUME NEW s, ~IsParked(s), loop' = [loop EXCEPT ![l].pc = "errRead", ![l].st = s]
      PROVE  Moves(l)
  <2> DEFINE r == [loop[l] EXCEPT !.pc = "errRead", !.st = s]
  <2>1. /\ r.pc = "errRead" /\ r.gen = loop[l].gen /\ r.pos = loop[l].pos
        /\ r.aborted = loop[l].aborted /\ r.st = s /\ loop' = [loop EXCEPT ![l] = r]
    BY <1>t, <1>2 DEF LoopRecs
  <2> HIDE DEF r
  <2> QED  BY <1>2, <1>p, <2>1, StepMoves DEF CarrierPcs, PullPcs
<1>3. ASSUME NEW n, loop' = [loop EXCEPT ![l].pc = "sleep", ![l].retries = n] PROVE Moves(l)
  <2> DEFINE r == [loop[l] EXCEPT !.pc = "sleep", !.retries = n]
  <2>1. /\ r.pc = "sleep" /\ r.gen = loop[l].gen /\ r.pos = loop[l].pos
        /\ r.aborted = loop[l].aborted /\ r.st = loop[l].st /\ loop' = [loop EXCEPT ![l] = r]
    BY <1>t, <1>3 DEF LoopRecs
  <2> HIDE DEF r
  <2>2. ~IsParked(r.st)  BY <2>1 DEF NotParked
  <2> QED  BY <1>p, <2>1, <2>2, StepMoves DEF CarrierPcs, PullPcs
<1>4. ~IsParked("error") /\ ~IsParked("needsReauth")  BY DEF IsParked
<1> QED  BY <1>1, <1>2, <1>3, <1>4 DEF Caught, Retry

(* Every step of a loop but the end of its reconcile pass.                 *)
LEMMA LoopMoves ==
  ASSUME Types, row.exists => Carried, NotParked, NEW l \in Loops, LoopNext(l), ~PassEnds(l) PROVE Moves(l)
<1>h. Shift(l)  BY LoopShifts
<1>p. /\ PullPcs = {"pull", "commit", "settle", "liveRead", "liveCommit"}
      /\ CarrierPcs = {"pull", "commit", "liveCommit", "errCommit"}
  BY DEF PullPcs, CarrierPcs
<1>f. ASSUME Finish(l, dbq), Quiet, UNCHANGED row PROVE Moves(l)
  BY <1>f, <1>h, EndMoves
<1>1. CASE PrevStopped(l)
  <2>1. Live(l) /\ Quiet /\ UNCHANGED row  BY <1>1 DEF PrevStopped, Live, Ended
  <2>2. CASE LoopStep(l, "read", Append(dbq, l))
    <3>1. dbq' = Append(dbq, l)  BY <2>2 DEF LoopStep
    <3> QED  BY <1>h, <1>p, <2>1, <2>2, <3>1, LoopStepMoves
  <2> QED  BY <1>1, <1>f, <2>1, <2>2 DEF PrevStopped
<1>2. CASE Sleep(l)
  <2>1. Live(l) /\ Quiet /\ UNCHANGED row  BY <1>2 DEF Sleep, Live, Ended
  <2>2. CASE LoopStep(l, "read", Append(dbq, l))
    <3>1. dbq' = Append(dbq, l)  BY <2>2 DEF LoopStep
    <3> QED  BY <1>h, <1>p, <2>1, <2>2, <3>1, LoopStepMoves
  <2> QED  BY <1>2, <1>f, <2>1, <2>2 DEF Sleep
<1>3. CASE Pull(l)
  <2>1. Live(l) /\ Quiet /\ UNCHANGED row /\ loop[l].pc = "pull"  BY <1>3 DEF Pull, Live, Ended
  <2>2. CASE ~loop[l].aborted /\ LoopStep(l, "commit", Append(dbq, l))
    <3>1. dbq' = Append(dbq, l)  BY <2>2 DEF LoopStep
    <3> QED  BY <1>h, <1>p, <2>1, <2>2, <3>1, LoopStepMoves
  <2>3. ASSUME NEW pc \in {"settle", "caught", "drain"}, LoopStep(l, pc, dbq) PROVE Moves(l)
    BY <1>h, <1>p, <2>1, <2>3, LoopStepMoves
  <2> QED  BY <1>3, <2>2, <2>3 DEF Pull
<1>4. CASE Settle(l)
  <2>1. Live(l) /\ Quiet /\ UNCHANGED row /\ loop[l].pc = "settle"  BY <1>4 DEF Settle, Live, Ended
  <2>2. CASE LoopStep(l, "liveRead", Append(dbq, l))
    BY <1>h, <1>p, <2>1, <2>2, LoopStepMoves
  <2> QED  BY <1>4, <1>f, <2>1, <2>2 DEF Settle
<1>5. CASE Drain(l)  BY <1>5, <1>f DEF Drain
<1> QED
  BY <1>h, <1>1, <1>2, <1>3, <1>4, <1>5, EntryMoves, SubCommitMoves, ReadMoves, FinalMoves,
     FailedMoves, CaughtMoves DEF LoopNext

(* A batch is served only where nobody else carries the cursor.            *)
LEMMA BatchAlone ==
  ASSUME CursorInv, row.exists, NEW l \in Loops, loop[l].pc = "commit", Served(l)
  PROVE  /\ \A k \in Loops \ {l} : loop[k].pc \notin CarrierPcs
         /\ \A p \in Procs : op[p].pc \notin CursorPcs
<1>1. OneLoop /\ NoBatches /\ PauseOK /\ QueueInv
  BY ChainIsOneLoop DEF CursorInv, CursorOK, Steady, PauseInv
<1>2. ASSUME NEW k \in Loops, k # l PROVE loop[k].pc \notin CarrierPcs
  BY <1>1, <1>2 DEF OneLoop, Pulling, Ended, CarrierPcs
<1>3. ASSUME NEW p \in Procs PROVE op[p].pc \notin CursorPcs
  <2>1. op[p].pc # "commitConnecting"
    BY <1>1, ServedIsFirst DEF NoBatches, BatchBehind
  <2>2. op[p].pc # "commitPause"
    BY <1>1 DEF PauseOK, Pausing, PausePcs, Calm, Live, Ended
  <2> QED  BY <2>1, <2>2 DEF CursorPcs
<1> QED  BY <1>2, <1>3

(* The loop carries the stored cursor on, and nobody an older one.         *)
LEMMA LoopCarries ==
  ASSUME CursorInv, row.exists, NEW l \in Loops, Moves(l) PROVE Carried'
<1>c. Carried  BY DEF CursorInv, CursorOK, Steady
<1>x. op' = op  BY DEF Moves
<1>l. loop'[l].pc \in CarrierPcs => Same(loop[l])'  BY DEF Moves
<1>k. \A k \in Loops \ {l} : loop'[k] = loop[k]  BY DEF Moves
<1>1. CASE row'.gen = row.gen /\ row'.pos = row.pos
  <2>1. ASSUME NEW k \in Loops, k # l, loop'[k].pc \in CarrierPcs PROVE Same(loop[k])'
    <3>1. loop'[k] = loop[k]  BY <1>k, <2>1
    <3>2. Same(loop[k])  BY <1>c, <2>1, <3>1 DEF Carried
    <3> QED  BY <1>1, <3>1, <3>2 DEF Same
  <2>2. ASSUME NEW p \in Procs, op'[p].pc \in CursorPcs PROVE Same(op[p].snap)'
    <3>1. Same(op[p].snap)  BY <1>c, <1>x, <2>2 DEF Carried
    <3> QED  BY <1>1, <1>x, <3>1 DEF Same
  <2> QED  BY <1>l, <2>1, <2>2 DEF Carried
<1>2. CASE loop[l].pc = "commit" /\ Served(l)
  <2>1. ASSUME NEW k \in Loops, k # l PROVE loop'[k].pc \notin CarrierPcs
    BY <1>2, <1>k, <2>1, BatchAlone
  <2>2. \A p \in Procs : op'[p].pc \notin CursorPcs  BY <1>2, <1>x, BatchAlone
  <2> QED  BY <1>l, <2>1, <2>2 DEF Carried
<1> QED  BY <1>1, <1>2 DEF Moves

(* A loop begins to pull only where the account does not rest, and leaves  *)
(* it so.                                                                  *)
LEMMA LoopParks ==
  ASSUME CursorInv, row.exists, NEW l \in Loops, Moves(l) PROVE ParkedIsIdle'
<1>c. ParkedIsIdle  BY DEF CursorInv, CursorOK, Steady
<1>k. \A k \in Loops \ {l} : loop'[k] = loop[k]  BY DEF Moves
<1>1. ASSUME IsParked(row'.status), NEW k \in Loops PROVE loop'[k].pc \notin PullPcs
  <2>1. row' = row  BY <1>1 DEF Moves
  <2>2. loop[k].pc \notin PullPcs  BY <1>1, <1>c, <2>1 DEF ParkedIsIdle
  <2>3. CASE k = l  BY <1>1, <2>1, <2>2, <2>3 DEF Moves
  <2>4. CASE k # l  BY <1>k, <2>2, <2>4
  <2> QED  BY <2>3, <2>4
<1> QED  BY <1>1 DEF ParkedIsIdle

(* A batch joins the queue behind those who have read the row, and none    *)
(* does while a resume waits to read it.                                   *)
LEMMA LoopNoBatch ==
  ASSUME CursorInv, row.exists, NEW l \in Loops, Moves(l) PROVE NoBatches'
<1>c. ParkedIsIdle /\ NoBatches /\ OneLoop /\ QueueInv /\ Types
  BY ChainIsOneLoop DEF CursorInv, CursorOK, Steady, PauseInv, LoopInv
<1>k. op' = op /\ \A k \in Loops \ {l} : loop'[k] = loop[k]  BY DEF Moves
<1>b. ASSUME NEW p \in Procs, NEW k \in Loops, Before(p, k) PROVE Before(p, k)'
  <2>1. p # l  BY LoopsAreNats, ProcsAssumption
  <2>2. Shift(l)  BY DEF Moves
  <2> QED  BY <1>b, <1>c, <2>1, <2>2, BeforeKept
<1>j. ASSUME NEW p \in Procs, op[p].pc \in {"readResume", "commitConnecting"},
             dbq' = Append(dbq, l)
      PROVE  Before(p, l)'
  <2>1. p \in Actors /\ Waits(p)  BY <1>j DEF Actors, Waits, DbPcs
  <2> QED  BY <1>c, <1>j, <2>1, JoinsBehind
<1>s. \A p \in Procs : Served(l) => ~Before(p, l)  BY <1>c, ServedIsFirst
<1>1. ASSUME NEW p \in Procs PROVE BatchBehind(p)'
  <2> SUFFICES ASSUME op[p].pc = "commitConnecting", NEW k \in Loops, loop'[k].pc = "commit"
               PROVE  Before(p, k)'
    BY <1>k DEF BatchBehind
  <2>1. CASE k # l  BY <1>b, <1>c, <1>k, <2>1 DEF NoBatches, BatchBehind
  <2>2. CASE k = l
    <3>1. CASE dbq' = Append(dbq, l)  BY <1>j, <2>2, <3>1
    <3>2. CASE loop[l].pc = "commit" /\ Served(l)
      BY <1>c, <1>s, <3>2 DEF NoBatches, BatchBehind
    <3> QED  BY <2>2, <3>1, <3>2 DEF Moves
  <2> QED  BY <2>1, <2>2
<1>2. ASSUME NEW p \in Procs PROVE NoBatch(p)'
  <2> SUFFICES ASSUME Kind(p) = "resume", op[p].pc = "readResume", NEW k \in Loops
               PROVE  /\ loop'[k].pc # "commit"
                      /\ loop'[k].pc = "pull" => loop'[k].aborted
                      /\ loop'[k].pc = "read" =>
                           IsParked(row'.status) \/ loop'[k].aborted \/ Before(p, k)'
    BY <1>k DEF NoBatch, Kind
  <2>n. \A z \in Loops :
          /\ loop[z].pc # "commit"
          /\ loop[z].pc = "pull" => loop[z].aborted
          /\ loop[z].pc = "read" => IsParked(row.status) \/ loop[z].aborted \/ Before(p, z)
    BY <1>c DEF NoBatches, NoBatch
  <2>1. CASE k = l
    <3>1. loop'[l].pc # "commit"  BY <2>n DEF Moves
    <3>2. ASSUME loop'[l].pc = "pull" PROVE loop'[l].aborted
      <4>1. loop[l].pc = "read" /\ Served(l) /\ ~IsParked(row.status)  BY <2>n, <3>2 DEF Moves
      <4>2. loop[l].aborted  BY <1>s, <2>n, <4>1
      <4>3. Live(l)'  BY <3>2 DEF Live, Ended
      <4> QED  BY <4>2, <4>3 DEF Moves
    <3>3. loop'[l].pc = "read" => Before(p, l)'  BY <1>j DEF Moves
    <3> QED  BY <2>1, <3>1, <3>2, <3>3
  <2>2. CASE k # l
    <3>1. loop'[k] = loop[k]  BY <1>k, <2>2
    <3>2. ASSUME loop[k].pc = "read", IsParked(row.status) PROVE IsParked(row'.status)
      <4>1. CASE row' = row  BY <3>2, <4>1
      <4>2. CASE loop[l].pc \in {"commit", "liveCommit"}
        BY <1>c, <3>2, <4>2 DEF ParkedIsIdle, PullPcs
      <4>3. CASE loop[l].pc = "errCommit"
        BY <1>c, <2>2, <3>2, <4>3 DEF OneLoop, Pulling, Ended
      <4> QED  BY <4>1, <4>2, <4>3 DEF Moves
    <3> QED  BY <1>b, <2>n, <3>1, <3>2
  <2> QED  BY <2>1, <2>2
<1> QED  BY <1>1, <1>2 DEF NoBatches

(* A step of a loop.                                                       *)
LEMMA LoopKeepsCursor ==
  ASSUME CursorInv, NEW l \in Loops, Moves(l) PROVE CursorOK'
<1>c. Fitting /\ ResumeOK /\ Aborting /\ NotParked /\ Known  BY DEF CursorInv, CursorOK
<1>m. /\ UNCHANGED <<running, op, pauseIntent, transIntent>> /\ row'.exists = row.exists
      /\ ~IsParked(loop'[l].st)
      /\ \A k \in Loops \ {l} : loop'[k] = loop[k]
      /\ Live(l)' => Live(l) /\ (loop[l].aborted => loop'[l].aborted)
  BY DEF Moves
<1>1. (Fitting /\ ResumeOK /\ NotParked /\ Known)'
  BY <1>c, <1>m DEF Fitting, ResumeOK, NotParked, Known, Kind
<1>2. Aborting'
  <2>1. ASSUME NEW k \in Loops, Live(k)' PROVE Live(k) /\ (loop[k].aborted => loop'[k].aborted)
    <3>1. CASE k = l  BY <1>m, <2>1, <3>1
    <3>2. CASE k # l
      <4>1. loop'[k] = loop[k]  BY <1>m, <3>2
      <4> QED  BY <2>1, <4>1 DEF Live
    <3> QED  BY <3>1, <3>2
  <2> QED  BY <1>c, <1>m, <2>1 DEF Aborting
<1>3. row'.exists => Steady'
  BY <1>m, LoopCarries, LoopParks, LoopNoBatch DEF Steady
<1> QED  BY <1>1, <1>2, <1>3 DEF CursorOK

(* Nothing of it changes: a stutter, or a reconcile pass that ends.        *)
LEMMA SameKeepsCursor ==
  ASSUME CursorOK, UNCHANGED <<row, running, op, pauseIntent, transIntent, dbq>>,
         \A k \in Loops : Still(k) /\ loop'[k].aborted = loop[k].aborted
  PROVE  CursorOK'
<1> USE DEF CursorOK, Still
<1>1. (Fitting /\ ResumeOK /\ Known)'  BY DEF Fitting, ResumeOK, Known, Kind
<1>2. (Aborting /\ NotParked)'  BY DEF Aborting, NotParked, Live
<1>3. \A p \in Procs, k \in Loops : Before(p, k)' <=> Before(p, k)  BY DEF Before
<1>4. NoBatches' <=> NoBatches  BY <1>3 DEF NoBatches, NoBatch, BatchBehind, Kind
<1>5. (Carried' <=> Carried) /\ (ParkedIsIdle' <=> ParkedIsIdle)  BY DEF Carried, Same, ParkedIsIdle
<1> QED  BY <1>1, <1>2, <1>4, <1>5 DEF Steady

(* A caller's step.                                                        *)
LEMMA CallerKeepsCursor ==
  ASSUME CursorKinds, CursorInv, NEW p \in Procs, OpStart(p) \/ UserStep(p) \/ OpNext(p)
  PROVE  CursorOK' /\ CallerRow(p)
<1>c. /\ Types /\ LoopInv /\ Fitting /\ ResumeOK /\ Aborting /\ NotParked /\ Known
      /\ row.exists => Steady
  BY DEF CursorInv, CursorOK, PauseInv, LoopInv
<1>1. CarryStep(p) /\ Shift(p)  BY <1>c, CarryStart, CarryOp, OpShifts
<1>2. LoopsStay  BY <1>c, CallerStays
<1>3. CallerRow(p)  BY <1>c, CallerWrites DEF Steady
<1>4. NotParked'
  BY <1>c, <1>2 DEF NotParked, LoopsStay, Still, Starts, IsParked
<1>5. Aborting'  BY <1>c, CallerAborts
<1>6. (Fitting /\ ResumeOK)'  BY <1>c, <1>1, FittingKept, ResumeKept
<1>7. row'.exists => Steady'
  BY <1>1, <1>2, <1>3, CallerParks, CallerNoBatch, CallerCarries DEF Steady
<1>8. Known'  BY <1>3 DEF CallerRow
<1> QED  BY <1>3, <1>4, <1>5, <1>6, <1>7, <1>8 DEF CursorOK

(* After a crash nobody carries anything; the row is as it was.            *)
LEMMA CrashKeepsCursor ==
  ASSUME CursorInv, NEW p \in Procs, Crash(p) PROVE CursorOK' /\ row' = row
<1>c. Known  BY DEF CursorInv, CursorOK
<1>1. /\ \A q \in Procs : op'[q].kind \in {"boot", "none"} /\ op'[q].pc \in {"readRun", "idle"}
      /\ \A l \in Loops : loop'[l].pc = "unused" /\ loop'[l].st = "connecting"
      /\ ~transIntent' /\ row' = row
  BY DEF Crash, Idle, NoLoop
<1>2. (Fitting /\ ResumeOK /\ Known)'  BY <1>c, <1>1 DEF Fitting, Fits, ResumeOK, Known, Kind
<1>3. (Aborting /\ ParkedIsIdle /\ NotParked)'
  BY <1>1 DEF Aborting, ParkedIsIdle, NotParked, Live, Ended, PullPcs, IsParked
<1>4. NoBatches'  BY <1>1 DEF NoBatches, NoBatch, BatchBehind, Kind
<1>5. Carried'  BY <1>1 DEF Carried, CarrierPcs, CursorPcs
<1> QED  BY <1>1, <1>2, <1>3, <1>4, <1>5 DEF CursorOK, Steady

\* The step does not take the cursor back.
Forward == row'.gen > row.gen \/ (row'.gen = row.gen /\ row'.pos >= row.pos)

(* CursorInv is inductive, and no step takes the cursor back.              *)
LEMMA CursorNext ==
  ASSUME CursorKinds, CursorInv, [Next]_vars PROVE CursorOK' /\ Forward
<1>t. row.gen \in Nat /\ row.pos \in Nat /\ Types
  BY DEF CursorInv, PauseInv, LoopInv, Types, Rows
<1>c. CursorOK /\ (row.exists => Carried) /\ NotParked  BY DEF CursorInv, CursorOK, Steady
<1>s. row' = row => Forward  BY <1>t DEF Forward
<1>1. ASSUME NEW p \in Procs, OpStart(p) \/ UserStep(p) \/ OpNext(p) PROVE CursorOK' /\ Forward
  <2>1. CursorOK' /\ CallerRow(p)  BY <1>1, CallerKeepsCursor
  <2> QED  BY <1>t, <2>1 DEF CallerRow, Forward
<1>2. ASSUME NEW l \in Loops, LoopNext(l), ~PassEnds(l) PROVE CursorOK' /\ Forward
  <2>1. Moves(l)  BY <1>t, <1>c, <1>2, LoopMoves
  <2>2. Forward  BY <1>t, <2>1 DEF Moves, Forward
  <2> QED  BY <2>1, <2>2, LoopKeepsCursor
<1>3. ASSUME NEW l \in Loops, PassEnds(l) PROVE CursorOK' /\ Forward
  <2>1. UNCHANGED <<row, running, op, pauseIntent, transIntent, dbq>>  BY <1>3 DEF PassEnds, Quiet
  <2>2. \A k \in Loops : Still(k) /\ loop'[k].aborted = loop[k].aborted
    BY <1>t, <1>3 DEF PassEnds, Still, Types, LoopRecs
  <2> QED  BY <1>c, <1>s, <2>1, <2>2, SameKeepsCursor
<1>4. ASSUME NEW p \in Procs, Crash(p) PROVE CursorOK' /\ Forward
  BY <1>4, <1>s, CrashKeepsCursor
<1>5. ~Respawn /\ \A p \in Procs : ~Watchdog(p)  BY DEF Respawn, Watchdog, CursorKinds
<1>6. CASE UNCHANGED vars
  <2>1. \A k \in Loops : Still(k) /\ loop'[k].aborted = loop[k].aborted
    BY <1>6 DEF vars, Still
  <2> QED  BY <1>c, <1>s, <1>6, <2>1, SameKeepsCursor DEF vars
<1> QED  BY <1>1, <1>2, <1>3, <1>4, <1>5, <1>6 DEF Next

(* With the invariants it rests on.                                        *)
LEMMA CursorInvNext ==
  ASSUME CursorKinds, CursorInv, [Next]_vars PROVE CursorInv' /\ Forward
<1>1. /\ "respawn" \notin Kinds
      /\ Kinds \cap {"respawn", "ensure", "watchdog"} = {}
  BY DEF CursorKinds
<1>2. QueueInv'  BY QueueNext DEF CursorInv
<1>3. PauseInv'  BY <1>1, PauseInvNext DEF CursorInv
<1>4. TransInv'  BY <1>1, TransInvNext DEF CursorInv
<1> QED  BY <1>2, <1>3, <1>4, CursorNext DEF CursorInv

(* Nothing is under way at the start.                                      *)
LEMMA CursorInvInit == Init => CursorInv
<1> SUFFICES ASSUME Init PROVE CursorInv  OBVIOUS
<1>1. /\ \A p \in Procs : op[p].kind = "none" /\ op[p].pc = "idle"
      /\ \A l \in Loops : loop[l].pc = "unused" /\ loop[l].st = "connecting"
      /\ ~transIntent
  BY DEF Init, Idle, NoLoop
<1>2. row.exists  BY DEF Init, InitRow
<1>3. CursorOK
  BY <1>1, <1>2 DEF CursorOK, Fitting, Fits, ResumeOK, Aborting, ParkedIsIdle, NotParked, NoBatches,
     NoBatch, BatchBehind, Carried, Known, Steady, Kind, Live, Ended, PullPcs, IsParked, CarrierPcs, CursorPcs
<1> QED  BY <1>3, QueueInit, PauseInvInit, TransInvInit DEF CursorInv

\* store.commit carries the cursor the caller has read: the stored cursor never
\* goes back, however pauses, resumes, restarts, reconnects, config writes, ticks
\* and crashes meet the batches of a loop, nor do scope saves take it back where
\* no pause, resume or late connector is about: those write a cursor read before
\* the save.  Nor does a connect or a removal, when the other is not about: the
\* two together create the row again under a loop.  Resumes and late connectors
\* are taken one kind at a time.
THEOREM CursorNeverGoesBack ==
  ASSUME CursorKinds PROVE Spec => CursorMonotone
<1>1. CursorInv /\ [Next]_vars => CursorInv'  BY CursorInvNext
<1>2. CursorInv /\ [Next]_vars =>
        [row'.gen > row.gen \/ (row'.gen = row.gen /\ row'.pos >= row.pos)]_row
  BY CursorInvNext DEF Forward
<1> QED  BY <1>1, <1>2, CursorInvInit, PTL DEF Spec, CursorMonotone
=============================================================================
