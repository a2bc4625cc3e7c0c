------------------------------ MODULE SyncFence ------------------------------
(***************************************************************************)
(* When one device of an account may write (src/main/core/sync/service.ts  *)
(* and role.ts).  The main process keeps a copy of sync_state and the      *)
(* fence, and answers readOnly() from them at once; the database worker    *)
(* keeps the row and a fence of its own, and refuses writes by those; the  *)
(* engine's work runs or is held by a gate between the two.  A report of   *)
(* the lease, a promotion, an opening, a demotion and a join each cross    *)
(* the worker several times, and a report may arrive between any two       *)
(* crossings.                                                              *)
(*                                                                         *)
(* Main's code between two awaits is one action.  The worker takes main's  *)
(* messages strictly in the order they were sent (bridge.ts) and answers   *)
(* in that order.                                                          *)
(***************************************************************************)
EXTENDS Naturals, Sequences

CONSTANTS
  Reports,      \* the reports of the lease that may be under way at once
  MaxCalls,     \* bound: calls made
  MaxFails,     \* bound: procedures of the worker that fail
  MaxRestarts,  \* bound: restarts of the app
  Also          \* bound: what else happens: a join that begins during a leave
                \* or an open ("overlap"), the join of a leader ("leader")

ASSUME SyncFenceAssumption ==
  /\ {"control", "join", "nobody"} \cap Reports = {}
  /\ MaxCalls \in Nat /\ MaxFails \in Nat /\ MaxRestarts \in Nat
  /\ Also \subseteq {"overlap", "leader"}

\* Callers: the lease's reports, a join beginning, and everything else, which
\* the sync extension calls one after the other.
Calls == Reports \cup {"control", "join"}
Idle == [op |-> "none", at |-> "done", arg |-> FALSE, late |-> FALSE, undo |-> FALSE]

VARIABLES
  db,       \* sync_state: role, tracking, joining, headPending
  wfenced,  \* the worker's fence
  wire,     \* what main sent and the worker has not taken
  back,     \* the worker's answers main has not taken
  row,      \* main's copy of sync_state
  fenced,   \* main's fence
  lease,    \* leaseNow: "none", or whether it names this device the master
  call,     \* each call: what, where it waits, its argument, and whether
            \* what it started from has changed since (late)
  gate,     \* gateEngine: holding, closing
  work,     \* the account runs and the attached workers: running or not
  lost,     \* ghost: a loss was reported that this device must close for
  spent     \* bound: calls made, failures, restarts

vars == <<db, wfenced, wire, back, row, fenced, lease, call, gate, work, lost, spent>>

-----------------------------------------------------------------------------
(* The role of a device.                                                   *)

\* bootPhase: a tracking leader wakes fenced, in main and in the worker.
BootFenced(r) == r.tracking /\ r.role = "normal" /\ ~r.joining

\* canWrite(phaseOf(...)): alone (no tracking) or an unfenced leader.
ReadOnly(r, f) == r.role = "follower" \/ r.joining \/ (r.tracking /\ f)
Closed == ReadOnly(row, fenced)

\* What the worker's guard refuses: the fence, a follower, a joining device.
Refuses == wfenced \/ db.role = "follower" \/ db.joining

-----------------------------------------------------------------------------
(* Main and the worker.                                                    *)

Ask(s, op) == <<[op |-> op, from |-> s]>>

Goes(s, at) == [call EXCEPT ![s].at = at]
Ends(s) == [call EXCEPT ![s] = Idle]

\* fenceGen: every close is seen by an opening that is under way.
Seen(c) == [s \in Calls |-> IF c[s].op = "open" THEN [c[s] EXCEPT !.late = TRUE] ELSE c[s]]

\* setFence, then what the caller sends; c is where the calls go on.
SetFence(on, then, c) ==
  /\ fenced' = on
  /\ wire' = wire \o <<[op |-> IF on THEN "fence" ELSE "unfence", from |-> "nobody"]>> \o then
  /\ call' = IF on THEN Seen(c) ELSE c

\* Without a change of the fence.
Sends(then, c) ==
  /\ wire' = wire \o then
  /\ call' = c
  /\ UNCHANGED fenced

\* Answered: the worker answered call s where it waits.
Answered(s, at) ==
  /\ back # <<>> /\ Head(back).from = s /\ call[s].at = at
  /\ back' = Tail(back)

\* lead in the worker: a follower is promoted, its head pending; a lone
\* device is seeded; a leader is left alone.
LeadRow(r) ==
  IF r.role = "follower"
  THEN [role |-> "normal", tracking |-> TRUE, joining |-> FALSE, headPending |-> TRUE]
  ELSE [r EXCEPT !.tracking = TRUE]
LeadSaid(r) ==
  CASE r.role = "follower" -> "promoted" [] r.tracking -> "noop" [] OTHER -> "seeded"

\* Mutant: a demoted device goes on tracking.
Demotion_Tracks(r) == [r EXCEPT !.role = "follower", !.headPending = FALSE]

\* demote in the worker.
Demotion(r) == [r EXCEPT !.role = "follower", !.tracking = FALSE, !.headPending = FALSE]

\* What each request leaves in sync_state.
RowAfter(op, r) ==
  CASE op = "lead"    -> LeadRow(r)
    [] op = "demote"  -> Demotion(r)
    [] op = "ack"     -> [r EXCEPT !.headPending = FALSE]
    [] op = "joining" -> [r EXCEPT !.joining = TRUE]
    [] op = "joined"  -> [r EXCEPT !.joining = FALSE]
    [] OTHER          -> r

\* The worker takes the next message; a promotion or an acknowledgement may
\* fail and write nothing.
Worker ==
  /\ wire # <<>> /\ wire' = Tail(wire)
  /\ LET m == Head(wire) IN
     \/ /\ m.op \in {"fence", "unfence"}
        /\ wfenced' = (m.op = "fence")
        /\ UNCHANGED <<db, back, spent>>
     \/ /\ m.op \notin {"fence", "unfence"}
        /\ db' = RowAfter(m.op, db)
        /\ back' = Append(back, [from |-> m.from, row |-> db',
                                 said |-> IF m.op = "lead" THEN LeadSaid(db) ELSE "ok"])
        /\ UNCHANGED <<wfenced, spent>>
     \/ /\ m.op \in {"lead", "ack"} /\ spent.fails < MaxFails
        /\ back' = Append(back, [from |-> m.from, row |-> db, said |-> "failed"])
        /\ spent' = [spent EXCEPT !.fails = @ + 1]
        /\ UNCHANGED <<db, wfenced>>
  /\ UNCHANGED <<row, fenced, lease, call, gate, work, lost>>

-----------------------------------------------------------------------------
(* The gate in front of the engine.                                        *)

\* closeWriter: the hold begins at once, the running work stops later.
Hold == gate' = [holding |-> TRUE, closing |-> TRUE]

\* Mutant: a close that is over still counts as under way.
Stopped_Kept ==
  /\ gate.closing
  /\ work' = [runs |-> FALSE, attached |-> FALSE]
  /\ UNCHANGED <<db, wfenced, wire, back, row, fenced, lease, call, gate, lost, spent>>

\* Every handle has stopped; the attached workers are kept for attachHeld.
Stopped ==
  /\ gate.closing
  /\ gate' = [gate EXCEPT !.closing = FALSE]
  /\ work' = [runs |-> FALSE, attached |-> FALSE]
  /\ UNCHANGED <<db, wfenced, wire, back, row, fenced, lease, call, lost, spent>>

\* release: waits for the close under way, then ends the hold.
Released ==
  /\ ~gate.closing
  /\ gate' = [gate EXCEPT !.holding = FALSE]

-----------------------------------------------------------------------------
(* refreshGate: the row is read and assigned, then who owns what is read.  *)

TakeRow(s) ==
  /\ \E at \in {"row", "row2"} :
       /\ Answered(s, at)
       /\ Sends(Ask(s, "read"), Goes(s, IF at = "row" THEN "owned" ELSE "owned2"))
  /\ row' = Head(back).row
  /\ UNCHANGED <<db, wfenced, lease, gate, work, lost, spent>>

MayCall(s) ==
  /\ call[s] = Idle /\ spent.calls < MaxCalls
  /\ spent' = [spent EXCEPT !.calls = @ + 1]
Started(s, op, at, arg) ==
  [call EXCEPT ![s] = [Idle EXCEPT !.op = op, !.at = at, !.arg = arg]]

-----------------------------------------------------------------------------
(* setLease: what the lease service last said.  Only a leader that tracks  *)
(* closes; it closes from the row it has, then again from the fresh one.   *)

Closes(master) == row.role = "normal" /\ row.tracking /\ ~master

\* A promotion under way can tell that a lease arrived meanwhile (leaseSeq).
Noticed(c) == [s \in Calls |-> IF c[s].op = "lead" THEN [c[s] EXCEPT !.late = TRUE] ELSE c[s]]

SetLease(s, master) ==
  /\ MayCall(s)
  /\ lease' = IF master THEN "master" ELSE "lost"
  /\ lost' = (~master /\ (lost \/ BootFenced(db) \/ call["control"].op = "lead"))
  /\ LET c == Noticed(Started(s, "lease", "row", master)) IN
     IF Closes(master) THEN SetFence(TRUE, Ask(s, "read"), c) ELSE Sends(Ask(s, "read"), c)
  /\ UNCHANGED <<db, wfenced, back, row, gate, work>>

\* The fresh row can only add a close; a fenced device then stops its work.
LeaseRead(s) ==
  /\ call[s].op = "lease" /\ Answered(s, "owned")
  /\ LET on == fenced \/ Closes(call[s].arg)
         c  == IF on THEN Goes(s, "hold") ELSE Ends(s)
     IN /\ IF on /\ ~fenced THEN SetFence(TRUE, <<>>, c) ELSE Sends(<<>>, c)
        /\ IF on THEN Hold ELSE UNCHANGED gate
  /\ UNCHANGED <<db, wfenced, row, lease, work, lost, spent>>

\* The work has stopped, for a call that ends with it.
HoldEnds(s) ==
  /\ \/ call[s].op \in {"lease", "demote"} /\ call[s].at = "hold"
     \/ call[s].op = "lead" /\ call[s].at = "hold2"
  /\ ~gate.closing
  /\ Sends(<<>>, Ends(s))
  /\ UNCHANGED <<db, wfenced, back, row, lease, gate, work, lost, spent>>

-----------------------------------------------------------------------------
(* lead: promotes a follower, left fenced with its head pending, or seeds  *)
(* a lone device.  A lease lost while it waited closes a device that was   *)
(* exempt when the report came.                                            *)

\* Mutant: what a lease lost meanwhile asks is not looked at.
Overtaken_Never(s, needsTracking) == FALSE

\* overtakenSeed.
Overtaken(s, needsTracking) ==
  /\ call[s].late /\ ~fenced /\ lease = "lost"
  /\ row.role = "normal" /\ (needsTracking => row.tracking)

\* arg: whether the grant is newer than the epoch this copy applied from.  A
\* loss reported to a device that did not lead yet asks nothing of it.
Lead(newer) ==
  /\ MayCall("control") /\ call["join"] = Idle
  /\ Sends(Ask("control", "read"), Started("control", "lead", "row", newer))
  /\ lost' = (lost /\ BootFenced(db))
  /\ UNCHANGED <<db, wfenced, back, row, lease, gate, work>>

\* A follower closes before it is promoted; an old grant is refused first.
LeadPosts ==
  /\ call["control"].op = "lead" /\ Answered("control", "owned")
  /\ LET c == [Goes("control", "led") EXCEPT !["control"].undo = row.role = "follower" /\ ~fenced] IN
     IF row.role = "normal" THEN Sends(Ask("control", "lead"), c)
     ELSE IF call["control"].arg THEN SetFence(TRUE, Ask("control", "lead"), c)
     ELSE Sends(<<>>, Ends("control"))
  /\ UNCHANGED <<db, wfenced, row, lease, gate, work, lost, spent>>

\* The worker answered: failed, or the device leads.
Led ==
  /\ call["control"].op = "lead" /\ Answered("control", "led")
  /\ LET said == Head(back).said
         read == Ask("control", "read")
     IN \/ /\ said = "failed" /\ UNCHANGED gate
           /\ IF call["control"].undo THEN SetFence(FALSE, <<>>, Ends("control"))
              ELSE Sends(<<>>, Ends("control"))
        \/ /\ said = "promoted" /\ UNCHANGED gate
           /\ SetFence(TRUE, read, Goes("control", "row2"))
        \/ /\ said \in {"seeded", "noop"}
           /\ IF Overtaken("control", FALSE)
              THEN SetFence(TRUE, <<>>, Goes("control", "hold")) /\ Hold
              ELSE Sends(read, Goes("control", "row2")) /\ UNCHANGED gate
  /\ UNCHANGED <<db, wfenced, row, lease, work, lost, spent>>

LeadHeld ==
  /\ call["control"].op = "lead" /\ call["control"].at = "hold" /\ ~gate.closing
  /\ Sends(Ask("control", "read"), Goes("control", "row2"))
  /\ UNCHANGED <<db, wfenced, back, row, lease, gate, work, lost, spent>>

LeadEnds ==
  /\ call["control"].op = "lead" /\ Answered("control", "owned2")
  /\ IF Overtaken("control", TRUE)
     THEN SetFence(TRUE, <<>>, Goes("control", "hold2")) /\ Hold
     ELSE Sends(<<>>, Ends("control")) /\ UNCHANGED gate
  /\ UNCHANGED <<db, wfenced, row, lease, work, lost, spent>>

-----------------------------------------------------------------------------
(* open: the one exit from the fence.  The extension opens only while the  *)
(* lease names this device; a close that comes while it waits wins.        *)

\* arg: head-acked (the new head is acknowledged), not lease.
Open(acked) ==
  /\ MayCall("control") /\ call["join"] = Idle /\ lease = "master"
  /\ Sends(Ask("control", "read"), Started("control", "open", "row", acked))
  /\ UNCHANGED <<db, wfenced, back, row, lease, gate, work, lost>>

\* The fence lifts; the preferences are seeded, then the leader's work starts.
Lift == SetFence(FALSE, Ask("control", "read"), Goes("control", "seed"))

\* A close since, a follower or a joining device, an open device, a pending
\* head: each ends the call.
OpenRead ==
  /\ call["control"].op = "open" /\ Answered("control", "owned")
  /\ IF \/ call["control"].late
        \/ row.role = "follower" \/ row.joining
        \/ ~fenced
        \/ row.headPending /\ ~call["control"].arg
     THEN Sends(<<>>, Ends("control"))
     ELSE IF call["control"].arg THEN Sends(Ask("control", "ack"), Goes("control", "ack"))
     ELSE Lift
  /\ UNCHANGED <<db, wfenced, row, lease, gate, work, lost, spent>>

\* The pending head is cleared; a close that came meanwhile still wins.
Acked ==
  /\ call["control"].op = "open" /\ Answered("control", "ack")
  /\ IF Head(back).said = "failed" THEN Sends(<<>>, Ends("control")) /\ UNCHANGED row
     ELSE /\ row' = [row EXCEPT !.headPending = FALSE]
          /\ IF call["control"].late THEN Sends(<<>>, Ends("control")) ELSE Lift
  /\ UNCHANGED <<db, wfenced, lease, gate, work, lost, spent>>

Seeded ==
  /\ call["control"].op = "open" /\ Answered("control", "seed")
  /\ Sends(<<>>, Goes("control", "release"))
  /\ UNCHANGED <<db, wfenced, row, lease, gate, work, lost, spent>>

-----------------------------------------------------------------------------
(* promoteCore and resumeHeld: the hold ends, the accounts run, then the   *)
(* hold ends again and the kept workers are attached.                      *)

ReleaseForRuns ==
  /\ call["control"].at = "release" /\ Released
  /\ Sends(Ask("control", "read"), Goes("control", "accounts"))
  /\ UNCHANGED <<db, wfenced, back, row, lease, work, lost, spent>>

\* run: nothing starts during a hold or on a read-only device.
RunAccounts ==
  /\ Answered("control", "accounts")
  /\ work' = [work EXCEPT !.runs = @ \/ (~gate.holding /\ ~Closed)]
  /\ Sends(<<>>, Goes("control", "attach"))
  /\ UNCHANGED <<db, wfenced, row, lease, gate, lost, spent>>

AttachHeld ==
  /\ call["control"].at = "attach" /\ Released
  /\ work' = [work EXCEPT !.attached = @ \/ ~Closed]
  /\ Sends(<<>>, Ends("control"))
  /\ UNCHANGED <<db, wfenced, back, row, lease, lost, spent>>

-----------------------------------------------------------------------------
(* demote, beginJoin, leaveJoin, finishJoin.                               *)

Demote ==
  /\ MayCall("control") /\ call["join"] = Idle
  /\ SetFence(TRUE, Ask("control", "demote"), Started("control", "demote", "told", FALSE))
  /\ UNCHANGED <<db, wfenced, back, row, lease, gate, work, lost>>

Demoted ==
  /\ call["control"].op = "demote" /\ Answered("control", "told")
  /\ Sends(Ask("control", "read"), Goes("control", "row"))
  /\ UNCHANGED <<db, wfenced, row, lease, gate, work, lost, spent>>

DemoteHolds ==
  /\ call["control"].op = "demote" /\ Answered("control", "owned")
  /\ Hold /\ Sends(<<>>, Goes("control", "hold"))
  /\ UNCHANGED <<db, wfenced, row, lease, work, lost, spent>>

\* The running work stops before the device becomes a joining one.
BeginJoin ==
  /\ MayCall("join") /\ row.role = "normal"
  /\ "overlap" \in Also \/ call["control"] = Idle
  /\ "leader" \in Also \/ ~row.tracking
  /\ Hold /\ Sends(<<>>, Started("join", "begin", "hold", FALSE))
  /\ UNCHANGED <<db, wfenced, back, row, lease, work, lost>>

\* Mutant: a leave that ran during the hold goes unseen.
JoinHeld_Unseen ==
  /\ call["join"].at = "hold" /\ ~gate.closing
  /\ Sends(Ask("join", "joining"), Goes("join", "told"))
  /\ UNCHANGED <<db, wfenced, back, row, lease, gate, work, lost, spent>>

\* A leave that ran during the hold has resumed the work: nothing more.
JoinHeld ==
  /\ call["join"].at = "hold" /\ ~gate.closing
  /\ IF call["join"].late THEN Sends(<<>>, Ends("join"))
     ELSE Sends(Ask("join", "joining"), Goes("join", "told"))
  /\ UNCHANGED <<db, wfenced, back, row, lease, gate, work, lost, spent>>

LeaveJoin ==
  /\ MayCall("control")
  /\ LET c == Started("control", "leave", "told", FALSE) IN
     Sends(Ask("control", "joined"), [c EXCEPT !["join"].late = call["join"] # Idle])
  /\ UNCHANGED <<db, wfenced, back, row, lease, gate, work, lost>>

\* finishJoin: after the swap; it starts nothing.
FinishJoin ==
  /\ MayCall("control") /\ call["join"] = Idle /\ row.role = "follower"
  /\ Sends(Ask("control", "joined"), Started("control", "finish", "told", FALSE))
  /\ UNCHANGED <<db, wfenced, back, row, lease, gate, work, lost>>

JoinTold(s) ==
  /\ call[s].op \in {"begin", "leave", "finish"} /\ Answered(s, "told")
  /\ Sends(Ask(s, "read"), Goes(s, "row"))
  /\ UNCHANGED <<db, wfenced, row, lease, gate, work, lost, spent>>

\* Leaving pauses the accounts that moved, then resumes the work.
JoinRead(s) ==
  /\ call[s].op \in {"begin", "leave", "finish"} /\ Answered(s, "owned")
  /\ IF call[s].op = "leave" THEN Sends(Ask(s, "read"), Goes(s, "paused"))
     ELSE Sends(<<>>, Ends(s))
  /\ UNCHANGED <<db, wfenced, row, lease, gate, work, lost, spent>>

LeavePaused ==
  /\ call["control"].op = "leave" /\ Answered("control", "paused")
  /\ Sends(<<>>, Goes("control", "release"))
  /\ UNCHANGED <<db, wfenced, row, lease, gate, work, lost, spent>>

-----------------------------------------------------------------------------
(* The app stops anywhere and starts again: sync_state is what remains.    *)
(* A joining device may find the leader's snapshot in place of its own     *)
(* file (mergeLocalTables) and is a follower then.                         *)

Boots(r) ==
  /\ db' = r
  /\ row' = [r EXCEPT !.headPending = FALSE]
  /\ fenced' = BootFenced(r) /\ wfenced' = BootFenced(r)
  /\ work' = LET on == ~ReadOnly(r, BootFenced(r)) IN [runs |-> on, attached |-> on]

Restart ==
  /\ spent.restarts < MaxRestarts
  /\ spent' = [spent EXCEPT !.restarts = @ + 1]
  /\ \/ Boots(db)
     \/ db.joining /\ Boots([db EXCEPT !.role = "follower", !.tracking = FALSE, !.joining = FALSE])
  /\ wire' = <<>> /\ back' = <<>>
  /\ call' = [s \in Calls |-> Idle]
  /\ gate' = [holding |-> FALSE, closing |-> FALSE]
  /\ lease' = "none" /\ lost' = FALSE

Fresh(role, tracking) ==
  [role |-> role, tracking |-> tracking, joining |-> FALSE, headPending |-> FALSE]

\* A lone device, a device that led when it stopped, or a follower starts.
Init ==
  /\ db \in {Fresh("normal", FALSE), Fresh("normal", TRUE), Fresh("follower", FALSE)}
  /\ row = db
  /\ fenced = BootFenced(db) /\ wfenced = BootFenced(db)
  /\ wire = <<>> /\ back = <<>>
  /\ lease = "none" /\ lost = FALSE
  /\ call = [s \in Calls |-> Idle]
  /\ gate = [holding |-> FALSE, closing |-> FALSE]
  /\ work = LET on == ~ReadOnly(db, BootFenced(db)) IN [runs |-> on, attached |-> on]
  /\ spent = [calls |-> 0, fails |-> 0, restarts |-> 0]

\* What is under way goes on by itself.
Progress ==
  \/ Worker \/ Stopped
  \/ \E s \in Calls : TakeRow(s) \/ HoldEnds(s) \/ JoinTold(s) \/ JoinRead(s)
  \/ \E s \in Reports : LeaseRead(s)
  \/ LeadPosts \/ Led \/ LeadHeld \/ LeadEnds
  \/ OpenRead \/ Acked \/ Seeded
  \/ ReleaseForRuns \/ RunAccounts \/ AttachHeld
  \/ Demoted \/ DemoteHolds \/ JoinHeld \/ LeavePaused

\* The calls, and the restarts.
Asked ==
  \/ \E s \in Reports, master \in BOOLEAN : SetLease(s, master)
  \/ \E newer \in BOOLEAN : Lead(newer)
  \/ \E acked \in BOOLEAN : Open(acked)
  \/ Demote \/ BeginJoin \/ LeaveJoin \/ FinishJoin
  \/ Restart

Next == Progress \/ Asked

\* The event loop and the worker take what is there.
Spec == Init /\ [][Next]_vars /\ WF_vars(Progress)

-----------------------------------------------------------------------------
(* Properties.                                                             *)

Quiet == wire = <<>> /\ back = <<>> /\ ~gate.closing /\ \A s \in Calls : call[s] = Idle

Flags == [op : {"none", "lease", "lead", "open", "demote", "begin", "leave", "finish"},
          at : {"done", "row", "owned", "hold", "led", "row2", "owned2", "hold2", "ack",
                "seed", "release", "accounts", "attach", "told", "paused"},
          arg : BOOLEAN, late : BOOLEAN, undo : BOOLEAN]
SyncStates == [role : {"normal", "follower"}, tracking : BOOLEAN, joining : BOOLEAN,
               headPending : BOOLEAN]

\* Each call waits for one answer at most, and a follower never tracks.
TypeOK ==
  /\ db \in SyncStates /\ row \in SyncStates
  /\ db.role = "follower" => ~db.tracking
  /\ call \in [Calls -> Flags] /\ lease \in {"none", "master", "lost"}
  /\ fenced \in BOOLEAN /\ wfenced \in BOOLEAN /\ lost \in BOOLEAN
  /\ gate \in [holding : BOOLEAN, closing : BOOLEAN]
  /\ work \in [runs : BOOLEAN, attached : BOOLEAN]
  /\ \A i, j \in DOMAIN wire : wire[i].from = wire[j].from => i = j \/ wire[i].from = "nobody"
  /\ \A i, j \in DOMAIN back : back[i].from = back[j].from => i = j
  /\ \A i \in DOMAIN wire, j \in DOMAIN back : wire[i].from # back[j].from
  /\ \A i \in DOMAIN wire : wire[i].from = "nobody" \/ call[wire[i].from] # Idle
  /\ \A i \in DOMAIN back : call[back[i].from] # Idle

(* A promoted device whose head no one acknowledged refuses writes in the  *)
(* worker, across restarts and whatever the lease says: promote.ts,        *)
(* headPending, "stays fenced, across a restart, until open('head-acked')".*)
PendingStaysClosed ==
  db.role = "normal" /\ db.headPending => Refuses

(* Once the lease was reported lost to a device that leads, or is about    *)
(* to, main answers read-only; only a promotion still under way may yet    *)
(* have to close it (setLease, overtakenSeed, fenceGen).                   *)
LossCloses ==
  lost /\ db.tracking /\ call["control"].op # "lead" => Closed

(* Closed it stays: a device that must not write answers so and refuses,   *)
(* whatever overlaps the call that closed it (fenceGen, overtakenSeed).    *)
StaysClosed == PendingStaysClosed /\ LossCloses

(* When every call has settled, main and the worker agree on the row and   *)
(* on who may write, a device that may runs its work, and one that may not  *)
(* has stopped it: no reordering of a hold and a release leaves a leader    *)
(* idle or a read-only device busy (refreshGate, closeWriter, attachHeld,   *)
(* beginJoin's joinSeq).                                                    *)
SidesAgree ==
  Quiet => /\ row.role = db.role /\ row.tracking = db.tracking /\ row.joining = db.joining
           /\ Closed = Refuses
           /\ Closed => ~work.runs /\ ~work.attached
           /\ ~Closed => work.runs /\ work.attached

(* Every call settles: none waits for a hold or an answer that never ends, *)
(* however the closes, the releases and the reports interleave.            *)
Settles == []<>Quiet

=============================================================================
