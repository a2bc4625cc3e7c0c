------------------------------ MODULE DbWorker ------------------------------
(***************************************************************************)
(* The database worker: the process main talks to through one AppDb        *)
(* (src/main/db/worker-client.ts, bridge.ts), the respawns and the close   *)
(* behind it, and in the worker the coordinator that lends the one         *)
(* database to an extension's transaction while core work waits            *)
(* (coordinator.ts, plugin-operations.ts, plugin-connections.ts).          *)
(*                                                                         *)
(* Every call into SQLite is synchronous and the worker takes one message  *)
(* at a time, so a request is one step of the worker.  An extension's      *)
(* statements are numbered; what they write is whether they were kept.     *)
(***************************************************************************)
EXTENDS Naturals, Sequences, SequencesExt

CONSTANTS
  Core,          \* calls of the app itself, each made once
  Flows,         \* transactions of an extension, each begun once
  Ext,           \* the platform's calls for it: it is opened and released
  Asked,         \* statements of each transaction before it commits
  MAX_RESTARTS,  \* respawns within one window of time
  MaxWorkers,    \* workers ever spawned
  MaxFaults,     \* crashes, failed starts and failed statements
  MaxHandles,    \* activations of the extension
  Window,        \* what may happen while a new worker registers sources:
                 \* "dies", "close", "refused"
  Persists,      \* a transaction goes on after a statement that failed
  None           \* no transaction is active

Callers == Core \cup Flows \cup {Ext}
Workers == 1..MaxWorkers
Statements == UNION {1..Asked[c] : c \in Flows}

ASSUME DbWorkerAssumption ==
  /\ Core \cap Flows = {} /\ Ext \notin Core \cup Flows
  /\ None \notin Callers /\ "close" \notin Callers
  /\ Asked \in [Flows -> Nat \ {0}]
  /\ MAX_RESTARTS \in Nat /\ MaxWorkers \in Nat \ {0}
  /\ {MaxFaults, MaxHandles} \subseteq Nat /\ MaxFaults < MaxWorkers
  /\ Window \subseteq {"dies", "close", "refused"} /\ Persists \in BOOLEAN

VARIABLES
  life,     \* of each worker: "none", "starting", "up", "exiting", "ended"
  cur,      \* the worker `client` talks to
  dead,     \* client's _markDead was called
  sup,      \* respawn(): "idle", "backoff", "starting", "register"
  att,      \* the worker it has spawned last
  restarts, \* attempts inside the window
  perm,     \* permanentlyDead
  closing,  \* close(): "no", "asked", "terminate", "settle", "closed"
  call,     \* of each caller: its request and its answer
  park,     \* requests parked during a respawn
  wire,     \* messages to the worker
  replies,  \* answers on their way back
  reg,      \* sourceRegistrations has an entry
  host,     \* the coordinator and the extension's connections
  db,       \* what the file holds, and which statements were carried out
  plug,     \* the extension: "off", "opening", "on", "stopping"; its handle,
            \* and the transactions its host left when it stopped
  flow,     \* of each transaction: statements asked for
  faults

sides == <<life, cur, dead, sup, att, restarts, perm, closing>>
vars == <<sides, call, park, wire, replies, reg, host, db, plug, flow, faults>>

Ops == {"core", "open", "begin", "exec", "commit", "rollback", "release"}

\* "refused" stands for every answer that says nothing was done, "lost" for
\* those of a worker that ended with the request.
Answers == {"none", "ok", "refused", "lost"}

NewHost == [q |-> <<>>, tx |-> None, native |-> FALSE, pend |-> {},
            conns |-> {}]

Fault == faults < MaxFaults /\ faults' = faults + 1

-----------------------------------------------------------------------------
(* The client in main                                                      *)

Answer(c, a) == [call EXCEPT ![c].st = "done", ![c].ans = a]

\* guard(): refused, parked, or posted to the worker.
Issue(c, op) ==
  LET asked == [op |-> op, st |-> "sent", ans |-> "none"] IN
  IF perm \/ closing # "no"
  THEN /\ call' = [call EXCEPT ![c] = [asked EXCEPT !.st = "done", !.ans = "refused"]]
       /\ UNCHANGED <<park, wire>>
  ELSE /\ call' = [call EXCEPT ![c] = asked]
       /\ IF sup # "idle"
          THEN park' = Append(park, c) /\ UNCHANGED wire
          ELSE wire' = Append(wire, c) /\ UNCHANGED park

\* An answer reaches the caller.
Deliver ==
  /\ replies # <<>> /\ ~dead
  /\ LET r == Head(replies) IN
       IF r.to = "close"
       THEN closing' = "terminate" /\ UNCHANGED call
       ELSE call' = Answer(r.to, r.ans) /\ UNCHANGED closing
  /\ replies' = Tail(replies)
  /\ UNCHANGED <<life, cur, dead, sup, att, restarts, perm>>
  /\ UNCHANGED <<park, wire, reg, host, db, plug, flow, faults>>

\* _markDead: every request the worker has not answered is rejected.
Rejected ==
  [c \in Callers |-> IF call[c].st = "sent" /\ ~Contains(park, c)
                     THEN [call[c] EXCEPT !.st = "done", !.ans = "lost"]
                     ELSE call[c]]

\* The end of respawn(): parked requests go to the new worker, or are told
\* that there will be none.
Unparked ==
  [c \in Callers |-> IF Contains(park, c)
                     THEN [call[c] EXCEPT !.st = "done", !.ans = "refused"]
                     ELSE call[c]]

\* Mutant: one restart too many.
TryAgain_OneMore ==
  \E r \in 0..restarts :
    IF r > MAX_RESTARTS
    THEN perm' = TRUE /\ sup' = "idle" /\ park' = <<>> /\ restarts' = r
    ELSE restarts' = r + 1 /\ sup' = "backoff" /\ UNCHANGED <<perm, park>>

\* An attempt to respawn, unless the window, which has moved on, is used up.
TryAgain ==
  \E r \in 0..restarts :
    IF r >= MAX_RESTARTS
    THEN perm' = TRUE /\ sup' = "idle" /\ park' = <<>> /\ restarts' = r
    ELSE restarts' = r + 1 /\ sup' = "backoff" /\ UNCHANGED <<perm, park>>

-----------------------------------------------------------------------------
(* Crashes, respawns and the close                                         *)

\* What a worker's end does not touch.
Aside == UNCHANGED <<reg, db, plug, flow>>

\* The worker crashes; whatever it had not committed is gone.  Nobody watches
\* a new worker until it has taken over.
Dies ==
  /\ \E w \in {cur} \cup (IF "dies" \in Window /\ sup = "register" THEN {att} ELSE {}) :
       life[w] \in {"up", "exiting"} /\ life' = [life EXCEPT ![w] = "ended"]
  /\ Fault
  /\ UNCHANGED <<cur, dead, sup, att, restarts, perm, closing>>
  /\ UNCHANGED <<call, park, wire, replies, host>> /\ Aside

\* The process.exit after the reply to "close".
Exits ==
  /\ life[cur] = "exiting"
  /\ life' = [life EXCEPT ![cur] = "ended"]
  /\ UNCHANGED <<cur, dead, sup, att, restarts, perm, closing>>
  /\ UNCHANGED <<call, park, wire, replies, host, faults>> /\ Aside

\* onDeath: answers still on their way may be lost.  A crash starts a respawn,
\* the end of a closed worker does not.
handleDeath ==
  LET crash == closing = "no" IN
  /\ life[cur] = "ended" /\ ~dead
  /\ dead' = TRUE /\ call' = Rejected
  /\ wire' = <<>> /\ replies' = <<>> /\ host' = NewHost
  /\ closing' = IF closing = "asked" THEN "terminate" ELSE closing
  /\ IF crash THEN TryAgain ELSE UNCHANGED <<sup, restarts, perm, park>>
  /\ UNCHANGED <<life, cur, att, faults>> /\ Aside

\* The back-off has passed: another worker, unless close() came meanwhile.
SpawnAgain ==
  /\ sup = "backoff"
  /\ IF closing # "no"
     THEN /\ sup' = "idle" /\ call' = Unparked /\ park' = <<>>
          /\ UNCHANGED <<life, att>>
     ELSE /\ att' = att + 1 /\ life' = [life EXCEPT ![att + 1] = "starting"]
          /\ sup' = "starting" /\ UNCHANGED <<call, park>>
  /\ UNCHANGED <<cur, dead, restarts, perm, closing>>
  /\ UNCHANGED <<wire, replies, host, faults>> /\ Aside

\* Another attempt, the worker of the last one being where it is.
NextAttempt ==
  /\ TryAgain
  /\ call' = IF perm' THEN Unparked ELSE call
  /\ UNCHANGED <<cur, dead, att, closing, wire, replies, host>> /\ Aside

\* It fails to open the database, or exits before "ready".
StartFails ==
  /\ sup = "starting" /\ Fault
  /\ life' = [life EXCEPT ![att] = "ended"] /\ NextAttempt

\* The new worker takes over: parked requests are posted to it.
TakeOver ==
  /\ life' = [life EXCEPT ![att] = "up"]
  /\ cur' = att /\ dead' = FALSE /\ sup' = "idle"
  /\ IF closing # "no"
     THEN call' = Unparked /\ UNCHANGED wire
     ELSE wire' = wire \o park /\ UNCHANGED call
  /\ park' = <<>>
  /\ UNCHANGED <<att, restarts, perm, closing>>
  /\ UNCHANGED <<replies, host, faults>> /\ Aside

\* "ready": thrown away if close() came meanwhile; otherwise the sources are
\* registered with it before it takes over.
StartReady ==
  /\ sup = "starting"
  /\ \/ /\ closing # "no"
        /\ life' = [life EXCEPT ![att] = "ended"]
        /\ sup' = "idle" /\ call' = Unparked /\ park' = <<>>
        /\ UNCHANGED <<cur, dead, att, restarts, perm, closing>>
        /\ UNCHANGED <<wire, replies, host, faults>> /\ Aside
     \/ closing = "no" /\ ~reg /\ TakeOver
     \/ /\ closing = "no" /\ reg
        /\ life' = [life EXCEPT ![att] = "up"] /\ sup' = "register"
        /\ UNCHANGED <<cur, dead, att, restarts, perm, closing>>
        /\ UNCHANGED <<call, park, wire, replies, host, faults>> /\ Aside

\* The sources are registered: nobody looks at intentionalClose again.  One
\* that is refused makes another attempt, and this worker is left to itself.
Registered ==
  /\ sup = "register" /\ life[att] = "up"
  /\ \E refused \in {FALSE} \cup {"refused" \in Window} :
       IF refused THEN Fault /\ NextAttempt /\ UNCHANGED life ELSE TakeOver

\* close(): asks the worker to shut down, unless it is known to be dead.
Close ==
  /\ closing = "no" /\ (sup = "register" => "close" \in Window)
  /\ IF ~dead
     THEN closing' = "asked" /\ wire' = Append(wire, "close")
     ELSE closing' = "terminate" /\ UNCHANGED wire
  /\ UNCHANGED <<life, cur, dead, sup, att, restarts, perm>>
  /\ UNCHANGED <<call, park, replies, host, faults>> /\ Aside

\* Its worker is ended, whatever became of the request.
Terminate ==
  /\ closing = "terminate" /\ closing' = "settle"
  /\ life' = [life EXCEPT ![cur] = "ended"]
  /\ dead' = TRUE /\ call' = IF dead THEN call ELSE Rejected
  /\ wire' = <<>> /\ replies' = <<>> /\ host' = NewHost
  /\ UNCHANGED <<cur, sup, att, restarts, perm>>
  /\ UNCHANGED <<park, faults>> /\ Aside

\* Mutant: close() does not wait for the respawn.
Closed_Hasty ==
  /\ closing = "settle" /\ closing' = "closed"
  /\ UNCHANGED <<life, cur, dead, sup, att, restarts, perm>>
  /\ UNCHANGED <<call, park, wire, replies, host, faults>> /\ Aside

\* It resolves once no respawn is in flight.
Closed ==
  /\ closing = "settle" /\ sup = "idle" /\ closing' = "closed"
  /\ UNCHANGED <<life, cur, dead, sup, att, restarts, perm>>
  /\ UNCHANGED <<call, park, wire, replies, host, faults>> /\ Aside

-----------------------------------------------------------------------------
(* The worker: the coordinator and the extension's connection              *)

\* What one message changes: the coordinator, the file, the replies, faults.
Now == [h |-> host, d |-> db, out |-> replies, f |-> faults]

Reply(s, c, a) == [s EXCEPT !.out = Append(@, [to |-> c, ans |-> a])]
Refuse(s, cs) ==
  [s EXCEPT !.out = @ \o [i \in DOMAIN cs |-> [to |-> cs[i], ans |-> "refused"]]]

Op(c) == call[c].op
Begins(c) == Op(c) = "begin"

\* pump(): work without a token runs unless a transaction is active, up to
\* and including the next that begins one.
Pump(s) ==
  LET q == s.h.q
      begins == {i \in DOMAIN q : Begins(q[i])}
      n == CASE s.h.tx # None -> 0
             [] s.h.tx = None /\ begins = {} -> Len(q)
             [] OTHER -> CHOOSE i \in begins : \A j \in begins : i =< j
      ran == {q[i] : i \in 1..n}
  IN [s EXCEPT
        !.h = [s.h EXCEPT
                 !.q = SubSeq(q, n + 1, Len(q)),
                 !.tx = IF \E c \in ran : Begins(c) THEN q[n] ELSE s.h.tx,
                 !.native = s.h.native \/ \E c \in ran : Begins(c),
                 !.conns = IF Ext \in ran THEN s.h.conns \cup {plug.h} ELSE s.h.conns],
        !.d.core = @ \cup (ran \cap Core),
        !.out = @ \o [i \in 1..n |-> [to |-> q[i], ans |-> "ok"]]]

\* The transaction is over and its statements, unless kept, are gone.
Cleared(s) ==
  [s EXCEPT !.h = [@ EXCEPT !.tx = None, !.native = FALSE, !.pend = {}]]

\* Those of a queue that begin a transaction, or those that do not.
Sifted(q, begin) ==
  LET f[k \in 0..Len(q)] ==
        IF k = 0 THEN <<>>
        ELSE IF Begins(q[k]) = begin THEN Append(f[k - 1], q[k]) ELSE f[k - 1]
  IN f[Len(q)]

\* rejectQueued: the owner's begins that wait.
Unqueued(s) == Refuse([s EXCEPT !.h.q = Sifted(@, FALSE)], Sifted(s.h.q, TRUE))

\* poisonOwner: the connection is closed, which is what ends its transaction.
Poisoned(s) ==
  Unqueued(Cleared([s EXCEPT !.h.conns = @ \ {plug.h}]))

\* rollbackActive.  A transaction SQLite has rolled back by itself cannot be
\* rolled back again.
RolledBack(s) ==
  (IF s.h.native THEN {Cleared(s)} ELSE {Poisoned(s)}) \cup
  (IF s.f < MaxFaults THEN {Poisoned([s EXCEPT !.f = @ + 1])} ELSE {})

\* Mutant: any active transaction will do.
Valid_AnyToken(s, c) == s.h.tx # None /\ plug.h \in s.h.conns

\* The owner of the token, on an open connection.
Valid(s, c) == s.h.tx = c /\ plug.h \in s.h.conns

\* A statement: carried out, refused, or refused with SQLite ending the
\* transaction (a full disk).  Outside one it is kept at once.
Executed(s, c) ==
  LET k == flow[c]
      done == [s EXCEPT !.d.ran = @ \cup {<<c, k>>}]
      failed == Reply([s EXCEPT !.f = @ + 1], c, "refused")
  IN {Reply(IF s.h.native THEN [done EXCEPT !.h.pend = @ \cup {<<c, k>>}]
            ELSE [done EXCEPT !.d.rows = @ \cup {<<c, k>>}], c, "ok")} \cup
     (IF s.f < MaxFaults
      THEN {failed, [failed EXCEPT !.h.native = FALSE, !.h.pend = {}]} ELSE {})

\* Mutant: finish() swallows the error it repairs.
Committed_Quiet(s, c) ==
  LET kept == Reply([s EXCEPT !.d.rows = @ \cup s.h.pend], c, "ok") IN
  (IF s.h.native THEN {Cleared(kept), Poisoned(kept)} ELSE {}) \cup
  {Reply(r, c, "ok") : r \in RolledBack(s)}

\* commit: kept and the lease over; kept, but so late that the pump expires
\* what has ended before finish() clears it; or failed, and rolled back.
Committed(s, c) ==
  LET kept == Reply([s EXCEPT !.d.rows = @ \cup s.h.pend], c, "ok")
      fails == [s EXCEPT !.f = @ + 1] IN
  (IF s.h.native THEN {Cleared(kept), Poisoned(kept)}
   ELSE {Reply(r, c, "refused") : r \in RolledBack(s)}) \cup
  (IF s.h.native /\ s.f < MaxFaults
   THEN {Reply(r, c, "refused") : r \in RolledBack(fails)} ELSE {})

\* rollback: if the native one fails, rollbackActive fails too.
Undone(s, c) ==
  {Reply(r, c, IF plug.h \in r.h.conns THEN "ok" ELSE "refused") :
     r \in RolledBack(s)}

\* release: what the owner has under way ends, then its connection closes.
Released(s, c) ==
  {LET t == Pump(Unqueued(r))
       ans == IF s.h.conns = r.h.conns THEN "ok" ELSE "refused"
   IN Reply([t EXCEPT !.h.conns = @ \ {plug.h}], c, ans) :
     r \in IF s.h.tx # None THEN RolledBack(s) ELSE {s}}

\* One request, and the work it lets go on.
Served(s, c) ==
  LET token == Op(c) \in {"exec", "commit", "rollback"}
      refused == Reply(s, c, "refused")
      queued == [s EXCEPT !.h.q = Append(@, c)] IN
  CASE Op(c) \in {"core", "open"} -> {Pump(queued)}
    [] Begins(c) -> IF plug.h \in s.h.conns THEN {Pump(queued)} ELSE {refused}
    [] Op(c) = "release" -> Released(s, c)
    [] token /\ ~Valid(s, c) -> {refused}
    [] Op(c) = "exec" /\ Valid(s, c) -> Executed(s, c)
    [] Op(c) = "commit" /\ Valid(s, c) -> {Pump(r) : r \in Committed(s, c)}
    [] OTHER -> {Pump(r) : r \in Undone(s, c)}

Becomes(s) == host' = s.h /\ db' = s.d /\ replies' = s.out /\ faults' = s.f

Serve ==
  /\ life[cur] = "up" /\ wire # <<>> /\ Head(wire) # "close"
  /\ \E s \in Served(Now, Head(wire)) : Becomes(s)
  /\ wire' = Tail(wire)
  /\ UNCHANGED <<sides, call, park, reg, plug, flow>>

\* "close": what waits is rejected, the active transaction is rolled back,
\* and the process ends once it has said so.
Shutdown ==
  /\ life[cur] = "up" /\ wire # <<>> /\ Head(wire) = "close"
  /\ LET s == Refuse(Cleared(Now), host.q)
     IN Becomes(Reply([s EXCEPT !.h = NewHost], "close", "ok"))
  /\ wire' = Tail(wire)
  /\ life' = [life EXCEPT ![cur] = "exiting"]
  /\ UNCHANGED <<cur, dead, sup, att, restarts, perm, closing>>
  /\ UNCHANGED <<call, park, reg, plug, flow>>

\* Mutant: the timer rolls back and lets nobody on.
LeaseExpires_NoPump ==
  /\ life[cur] = "up" /\ host.tx # None
  /\ \E s \in RolledBack(Now) : Becomes(s)
  /\ UNCHANGED <<sides, call, park, wire, reg, plug, flow>>

\* The timer of an active transaction: it is rolled back and others go on.
LeaseExpires ==
  /\ life[cur] = "up" /\ host.tx # None
  /\ \E s \in RolledBack(Now) : Becomes(Pump(s))
  /\ UNCHANGED <<sides, call, park, wire, reg, plug, flow>>

-----------------------------------------------------------------------------
(* The callers                                                             *)

\* The rest of main is left alone by a call.
Calls == UNCHANGED <<sides, replies, host, db, faults>>

CoreCall(c) ==
  /\ call[c].st = "free" /\ Issue(c, "core")
  /\ UNCHANGED <<reg, plug, flow>> /\ Calls

\* activate: the source is registered and the handle opened.
Activate ==
  /\ plug.at = "off" /\ plug.h < MaxHandles
  /\ plug' = [plug EXCEPT !.at = "opening", !.h = @ + 1]
  /\ reg' = TRUE /\ Issue(Ext, "open")
  /\ UNCHANGED flow /\ Calls

Activated ==
  /\ plug.at = "opening" /\ call[Ext].st = "done"
  /\ plug' = [plug EXCEPT !.at = IF call[Ext].ans = "ok" THEN "on" ELSE "off"]
  /\ UNCHANGED <<call, park, wire, reg, flow>> /\ Calls

\* The extension's host stops or is rebuilt after a respawn: its transactions
\* are cut off where they are and its handle is released.
Deactivate ==
  /\ plug.at = "on"
  /\ plug' = [plug EXCEPT !.at = "stopping",
                          !.cut = {c \in Flows : call[c].st # "free"}]
  /\ Issue(Ext, "release")
  /\ UNCHANGED <<reg, flow>> /\ Calls

Deactivated ==
  /\ plug.at = "stopping" /\ call[Ext].st = "done"
  /\ plug' = [plug EXCEPT !.at = "off"]
  /\ UNCHANGED <<call, park, wire, reg, flow>> /\ Calls

\* transaction(): what it asks for next.
NextOps(c) ==
  LET r == call[c] IN
  IF r.st = "free" THEN {"begin"}
  ELSE IF r.st # "done" THEN {}
  ELSE CASE r.op = "begin" /\ r.ans = "ok" -> {"exec", "rollback"}
         [] r.op = "exec" /\ (r.ans = "ok" \/ Persists) ->
              {"rollback"} \cup
              IF flow[c] < Asked[c] THEN {"exec"} ELSE {"commit"}
         [] r.op = "exec" /\ r.ans # "ok" /\ ~Persists -> {"rollback"}
         [] r.op = "commit" /\ r.ans # "ok" -> {"rollback"}
         [] OTHER -> {}

transaction(c) ==
  /\ plug.at = "on" /\ c \notin plug.cut
  /\ \E op \in NextOps(c) :
       /\ Issue(c, op)
       /\ flow' = IF op = "exec" THEN [flow EXCEPT ![c] = @ + 1] ELSE flow
  /\ UNCHANGED <<reg, plug>> /\ Calls

-----------------------------------------------------------------------------
(* The specification                                                       *)

Init ==
  /\ life = [w \in Workers |-> IF w = 1 THEN "up" ELSE "none"]
  /\ cur = 1 /\ dead = FALSE /\ sup = "idle" /\ att = 1 /\ restarts = 0
  /\ perm = FALSE /\ closing = "no"
  /\ call = [c \in Callers |-> [op |-> "core", st |-> "free", ans |-> "none"]]
  /\ park = <<>> /\ wire = <<>> /\ replies = <<>>
  /\ reg = FALSE /\ host = NewHost
  /\ db = [core |-> {}, rows |-> {}, ran |-> {}]
  /\ plug = [at |-> "off", h |-> 0, cut |-> {}] /\ flow = [c \in Flows |-> 0]
  /\ faults = 0

Ask ==
  \/ \E c \in Core : CoreCall(c)
  \/ \E c \in Flows : transaction(c)
  \/ Activate \/ Activated \/ Deactivate \/ Deactivated

Work == Serve \/ Shutdown
Respawn == SpawnAgain \/ StartReady \/ StartFails \/ Registered
EndClose == Terminate \/ Closed

\* What goes on by itself: messages arrive, processes start and end, timers
\* run.  The rest is what somebody decides, and crashes.
Progress ==
  \/ Deliver \/ Work \/ LeaseExpires
  \/ Exits \/ handleDeath \/ Respawn \/ EndClose
Next == Ask \/ Dies \/ Close \/ Progress

Spec == Init /\ [][Next]_vars

(***************************************************************************)
(* Properties                                                              *)
(***************************************************************************)
TypeOK ==
  /\ life \in [Workers -> {"none", "starting", "up", "exiting", "ended"}]
  /\ cur \in Workers /\ att \in Workers
  /\ dead \in BOOLEAN
  /\ sup \in {"idle", "backoff", "starting", "register"}
  /\ restarts \in 0..MAX_RESTARTS /\ perm \in BOOLEAN
  /\ closing \in {"no", "asked", "terminate", "settle", "closed"}
  /\ call \in [Callers -> [op : Ops, st : {"free", "sent", "done"}, ans : Answers]]
  /\ park \in Seq(Callers) /\ wire \in Seq(Callers \cup {"close"})
  /\ replies \in Seq([to : Callers \cup {"close"}, ans : Answers])
  /\ reg \in BOOLEAN
  /\ host \in [q : Seq(Callers), tx : Flows \cup {None}, native : BOOLEAN,
               pend : SUBSET (Flows \X Statements),
               conns : SUBSET (1..MaxHandles)]
  /\ db \in [core : SUBSET Core, rows : SUBSET (Flows \X Statements),
             ran : SUBSET (Flows \X Statements)]
  /\ plug \in [at : {"off", "opening", "on", "stopping"}, h : 0..MaxHandles,
               cut : SUBSET Flows]
  /\ flow \in [Flows -> Nat] /\ \A c \in Flows : flow[c] =< Asked[c]
  /\ faults \in 0..MaxFaults

Done(c, as) == call[c].st = "done" /\ call[c].ans \in as
Of(c, stmts) == {p \in stmts : p[1] = c}

\* When close() resolves no worker holds the database: neither the one it
\* asked to shut down nor one that a respawn started meanwhile
\* (worker-client.ts 225-234, 366-382).
ClosedMeansGone ==
  closing = "closed" => \A w \in Workers : life[w] \notin {"starting", "up"}

\* A caller that is told "done" finds its write in the file, and one that is
\* refused, or told that the database is closed or dead, does not; only a
\* crash leaves it open (worker-client.ts 13-26, coordinator.ts 436-460).
AnswersTrue ==
  /\ \A c \in Core :
       /\ Done(c, {"ok"}) => c \in db.core
       /\ Done(c, {"refused"}) => c \notin db.core
  /\ \A c \in Flows :
       call[c].op = "commit" =>
         /\ Done(c, {"ok"}) => Of(c, db.rows) = Of(c, db.ran)
         /\ Done(c, {"refused"}) => Of(c, db.rows) = {}

\* Of a transaction's statements the file holds all that were carried out, or
\* none, through expired leases, releases, crashes and failed rollbacks
\* (coordinator.ts 137-175, 352-433).
TransactionWhole ==
  \A c \in Flows : Of(c, db.rows) \in {{}, Of(c, db.ran)}

\* Something goes on by itself: one of the steps of Progress can be taken.
CanProgress ==
  \/ replies # <<>> /\ ~dead
  \/ life[cur] = "up" /\ (wire # <<>> \/ host.tx # None)
  \/ life[cur] = "exiting"
  \/ life[cur] = "ended" /\ ~dead
  \/ sup \in {"backoff", "starting"}
  \/ sup = "register" /\ life[att] = "up"
  \/ closing = "terminate"
  \/ closing = "settle" /\ sup = "idle"

\* Nobody is left waiting: the system never comes to rest with a request that
\* has no answer or a close() that has not resolved, whatever respawns were
\* made or given up and whoever left a transaction open (worker-client.ts
\* 126-139, 209-280, 290-335, 364-380).
NothingHangs ==
  CanProgress \/
  (closing \in {"no", "closed"} /\ \A c \in Callers : call[c].st # "sent")
=============================================================================
