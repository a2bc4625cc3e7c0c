---------------------------- MODULE Outbox_proofs ----------------------------
(***************************************************************************)
(* Proofs about Outbox, for any contents, deadlines and bounds: at most    *)
(* one message leaves for a draft, the pipeline implements Delivery, and   *)
(* what is sent is what was shown.                                         *)
(***************************************************************************)
EXTENDS Outbox, TLAPS, SequenceTheorems

-----------------------------------------------------------------------------
(* What the table's operations do to a row.                                *)

\* s may follow r in the table: a new revision has a text to show.
Follows(r, s) ==
  /\ s \in Row
  /\ s.rev = r.rev \/ (s.rev = r.rev + 1 /\ s.text \in Texts)
  /\ s.status # "none" => s.text \in Texts

\* applyContent keeps everything but the content and the schedule.
LEMMA EditedRow ==
  ASSUME NEW r \in Row, NEW t \in Texts, r.text \in Texts,
         clock \in Nat, TTL \in Nat
  PROVE  /\ Follows(r, Edited(r, t))
         /\ Edited(r, t).status = r.status /\ Edited(r, t).ref = r.ref
         /\ Edited(r, t).retry = r.retry /\ Edited(r, t).text \in Texts
<1>1. CASE t = r.text
  BY <1>1 DEF Edited, Follows, Row
<1>2. CASE t # r.text
  <2> DEFINE e == IF r.at = None THEN r.exp ELSE clock + TTL
             n == r.rev + 1
             s == [r EXCEPT !.text = t, !.rev = n, !.at = None, !.exp = e]
  <2>1. e \in Nat /\ n \in Nat /\ n = r.rev + 1
    BY DEF Row
  <2>2. Edited(r, t) = s
    BY <1>2 DEF Edited
  <2> HIDE DEF e, n
  <2>3. s \in Row
    BY <2>1 DEF Row
  <2>4. /\ s.status = r.status /\ s.ref = r.ref /\ s.retry = r.retry
        /\ s.rev = n /\ s.text = t
    BY DEF Row
  <2> HIDE DEF s
  <2> QED BY <2>1, <2>2, <2>3, <2>4 DEF Follows
<1> QED BY <1>1, <1>2

\* Adopting the provider's copy is an edit that notes what was seen.
LEMMA AdoptedRow ==
  ASSUME NEW r \in Row, NEW b \in Body, NEW v, r.text \in Texts,
         clock \in Nat, TTL \in Nat
  PROVE  /\ Follows(r, adopt(r, b, v))
         /\ adopt(r, b, v).status = r.status /\ adopt(r, b, v).ref = r.ref
         /\ adopt(r, b, v).retry = r.retry
<1> DEFINE e == Edited(r, b.text)
           o == IF v THEN b ELSE e.own
           s == [e EXCEPT !.seen = b, !.own = o]
<1>0. b.text \in Texts
  BY DEF Body
<1>1. /\ Follows(r, e) /\ e.status = r.status /\ e.ref = r.ref
      /\ e.retry = r.retry /\ e.text \in Texts
  BY <1>0, EditedRow
<1>2. adopt(r, b, v) = s
  BY DEF adopt
<1> HIDE DEF e
<1>3. e \in Row
  BY <1>1 DEF Follows
<1>4. o \in Body \cup {None}
  BY <1>3 DEF Row
<1> HIDE DEF o
<1>5. s \in Row
  BY <1>3, <1>4 DEF Row
<1>6. /\ s.status = e.status /\ s.ref = e.ref /\ s.retry = e.retry
      /\ s.rev = e.rev /\ s.text = e.text
  BY <1>3 DEF Row
<1> HIDE DEF s
<1> QED BY <1>1, <1>2, <1>5, <1>6 DEF Follows

\* The sweep turns an overdue draft into an expired one, and nothing else.
LEMMA ExpiredRow ==
  ASSUME NEW r \in Row, r.status # "none" => r.text \in Texts
  PROVE  /\ Follows(r, expireOverdue(r))
         /\ expireOverdue(r).ref = r.ref /\ expireOverdue(r).retry = r.retry
         /\ \/ expireOverdue(r).status = r.status
            \/ r.status = "draft" /\ expireOverdue(r).status = "expired"
         /\ r.ref => expireOverdue(r) = r
BY DEF expireOverdue, Overdue, Follows, Row

\* A row set as it may follow keeps the row's type and its texts'.
LEMMA PutRowTypes ==
  ASSUME row \in Row, shown \in Seq(Texts), Len(shown) = row.rev,
         NEW r, Follows(row, r), PutRow(r)
  PROVE  /\ row' \in Row /\ shown' \in Seq(Texts) /\ Len(shown') = row'.rev
         /\ row' = r /\ (row'.status # "none" => row'.text \in Texts)
<1>0. row' = r /\ r \in Row /\ (row'.status # "none" => row'.text \in Texts)
  BY DEF PutRow, Follows
<1>1. CASE r.rev = row.rev
  BY <1>0, <1>1 DEF PutRow
<1>2. CASE r.rev # row.rev
  <2>1. r.rev = row.rev + 1 /\ r.text \in Texts
    BY <1>2 DEF Follows
  <2>2. shown' = Append(shown, r.text)
    BY <1>2 DEF PutRow
  <2>3. shown' \in Seq(Texts) /\ Len(shown') = Len(shown) + 1
    BY <2>1, <2>2, AppendProperties
  <2> QED BY <1>0, <2>1, <2>3
<1> QED BY <1>1, <1>2

-----------------------------------------------------------------------------
(* Types.  TypeOK is not inductive: which text an operation carries, and   *)
(* that a row that was never made has no copy, belong to it.               *)

RowTyped ==
  /\ row \in Row /\ shown \in Seq(Texts) /\ Len(shown) = row.rev
  /\ row.status # "none" => row.text \in Texts
  /\ row.status = "none" => ~row.ref /\ row.rev = 0

OpTyped ==
  /\ op \in Op
  /\ op # Idle => row.status # "none"
  /\ op.kind = "revise" \/ op.pc \in {"write", "readback"} => op.text \in Texts
  /\ op.kind \in {"plan", "sched"} => op.at \in Nat

ProvTyped ==
  /\ prov \in [st : {"none", "draft", "sent", "deleted"},
               body : Body \cup {None}]
  /\ prov.st # "none" => prov.body \in Body
  /\ touched \in BOOLEAN /\ copies \in [app : Nat, mail : Nat]
  /\ strays \in [live : Nat, sent : Nat]

RestTyped ==
  /\ call \in Nat /\ armed \in Nat /\ chatOn \in BOOLEAN /\ up \in BOOLEAN
  /\ clock \in 0..MaxTime /\ ops \in 0..MaxOps /\ events \in 0..MaxEvents

Types == RowTyped /\ OpTyped /\ ProvTyped /\ RestTyped

\* The proof's typing, split by variable, is the type invariant of the model.
LEMMA TypesImplyTypeOK == Types => TypeOK
BY DEF Types, TypeOK, RowTyped, OpTyped, ProvTyped, RestTyped

\* The bounds of an instance and the lifetime of a draft are numbers.
LEMMA BoundsAreNumbers ==
  /\ TTL \in Nat /\ Late \in Nat /\ MaxTime \in Nat /\ MaxOps \in Nat
  /\ MaxEvents \in Nat /\ None \notin Nat /\ None \notin Texts
BY OutboxAssumption

\* At first every variable has its type: no row, no operation, no copy.
LEMMA InitTypes == Init => Types
<1> SUFFICES ASSUME Init PROVE Types
  OBVIOUS
<1>1. RowTyped
  <2>1. row \in Row
    BY DEF Init, NoRow, Row
  <2>2. row.rev = 0 /\ row.status = "none" /\ ~row.ref /\ shown = <<>>
    BY DEF Init, NoRow
  <2>3. shown \in Seq(Texts) /\ Len(shown) = 0
    BY <2>2, EmptySeq
  <2> QED BY <2>1, <2>2, <2>3 DEF RowTyped
<1>2. OpTyped
  BY DEF Init, Idle, Op, OpTyped
<1>3. ProvTyped
  BY DEF Init, ProvTyped
<1>4. RestTyped
  BY BoundsAreNumbers DEF Init, RestTyped
<1> QED BY <1>1, <1>2, <1>3, <1>4 DEF Types

-----------------------------------------------------------------------------
(* Safety.  AtMostOnce is not inductive: that the app has not sent yet     *)
(* follows from where the operation and the row are, and that the mail app *)
(* cannot send a second time from the state of the copy.                   *)

\* The app's message has certainly not left.
NotYet ==
  \/ op.pc \notin {"idle", "settle", "remove"}
  \/ op.pc = "settle" /\ op.res = "rejected"
  \/ Phase \in {"unborn", "open"}

Safe ==
  /\ copies.app \in {0, 1} /\ copies.mail \in {0, 1}
  /\ NotYet => copies.app = 0
  /\ op.pc \in {"send", "settle"} => row.status \in {"sending", "delivery_unknown"}
  /\ op.pc = "make" => ~row.ref
  /\ ~row.ref => prov.st = "none" /\ copies.mail = 0
  /\ copies.mail = 1 => prov.st = "sent" /\ copies.app = 0
  /\ copies.app = 1 /\ row.ref => prov.st # "draft"

Inv == Types /\ Safe

\* A step in which no message leaves and no copy is made, and after which
\* the draft is nearer its end, unless it certainly was not sent.
Calm ==
  /\ copies' = copies /\ row'.ref = row.ref
  /\ prov'.st = prov.st \/ (prov.st = "draft" /\ prov'.st = "deleted")
  /\ NotYet' => NotYet
  /\ op'.pc \in {"send", "settle"} => row'.status \in {"sending", "delivery_unknown"}
  /\ op'.pc = "make" => ~row'.ref
  /\ \/ Phase' = Phase
     \/ Phase \in {"open", "sending"} /\ Phase' = "closed"
     \/ Phase = "open" /\ Phase' = "sending"
     \/ Phase = "sending" /\ Phase' = "open" /\ NotYet

\* A step of the abstract specification, or a stutter.
Abstract == D!Next \/ UNCHANGED D!dvars

\* What is known of a row with and without a copy bounds what has left.
LEMMA SafeImpliesAtMostOnce == Safe => AtMostOnce
<1> SUFFICES ASSUME Safe PROVE AtMostOnce
  OBVIOUS
<1>1. CASE copies.mail = 0
  BY <1>1 DEF Safe, AtMostOnce
<1>2. CASE copies.mail = 1
  BY <1>2 DEF Safe, AtMostOnce
<1> QED BY <1>1, <1>2 DEF Safe

\* A calm step keeps Safe, whatever it does otherwise.
LEMMA CalmIsSafe ==
  ASSUME Inv, Calm, Types'
  PROVE  Safe'
<1>1. copies' = copies /\ row'.ref = row.ref /\ row.ref \in BOOLEAN
  BY DEF Calm, Inv, Types, RowTyped, Row
<1>2. /\ copies.app \in {0, 1} /\ copies.mail \in {0, 1}
      /\ NotYet' => copies.app = 0
  BY DEF Calm, Inv, Safe
<1>3. /\ op'.pc \in {"send", "settle"} => row'.status \in {"sending", "delivery_unknown"}
      /\ op'.pc = "make" => ~row'.ref
  BY DEF Calm
<1>4. /\ ~row.ref => prov'.st = "none" /\ copies.mail = 0
      /\ copies.mail = 1 => prov'.st = "sent" /\ copies.app = 0
      /\ copies.app = 1 /\ row.ref => prov'.st # "draft"
  BY DEF Calm, Inv, Safe
<1> QED BY <1>1, <1>2, <1>3, <1>4 DEF Safe

\* A calm step closes the draft, begins to send it, finds it refused, or is
\* none of Delivery's business.
LEMMA CalmIsAbstract ==
  ASSUME Inv, Calm
  PROVE  Abstract
<1>1. Sender' = Sender
  BY DEF Calm, Sender
<1>2. CASE Phase' = Phase
  BY <1>1, <1>2 DEF Abstract, D!dvars
<1>3. CASE Phase \in {"open", "sending"} /\ Phase' = "closed"
  BY <1>1, <1>3 DEF Abstract, D!Next, D!Close
<1>4. CASE Phase = "open" /\ Phase' = "sending"
  BY <1>1, <1>4 DEF Abstract, D!Next, D!Begin
<1>5. CASE Phase = "sending" /\ Phase' = "open" /\ NotYet
  <2>1. Sender # "app"
    BY <1>5 DEF Inv, Safe, Sender
  <2> QED BY <1>1, <1>5, <2>1 DEF Abstract, D!Next, D!Refused
<1> QED BY <1>2, <1>3, <1>4, <1>5 DEF Calm

-----------------------------------------------------------------------------
(* Steps that several actions share.                                       *)

\* Everything but the row and the operation is left alone or only checked.
Aside == ProvTyped' /\ RestTyped'

\* The row is set to one that may follow it.
LEMMA RowSet ==
  ASSUME RowTyped, NEW r, Follows(row, r), PutRow(r),
         r.status # "none"
  PROVE  RowTyped' /\ row' = r
<1>1. /\ row' \in Row /\ shown' \in Seq(Texts) /\ Len(shown') = row'.rev
      /\ row' = r /\ (row'.status # "none" => row'.text \in Texts)
  BY PutRowTypes DEF RowTyped
<1> QED BY <1>1 DEF RowTyped

\* The row and its texts are left alone.
LEMMA RowKept ==
  ASSUME RowTyped, UNCHANGED <<row, shown>>
  PROVE  RowTyped' /\ row' = row
BY DEF RowTyped

\* The operation ends.
LEMMA OpEnds ==
  ASSUME op' = Idle
  PROVE  OpTyped' /\ op'.pc = "idle"
BY DEF OpTyped, Op, Idle

\* The operation goes on to wait for another answer.
LEMMA OpGoes ==
  ASSUME OpTyped, row'.status # "none",
         NEW pc \in {"read", "synced", "write", "readback", "reread",
                     "ready", "send", "settle", "make", "makeread", "remove"},
         op' = [op EXCEPT !.pc = pc],
         pc \in {"write", "readback"} => op.text \in Texts
  PROVE  OpTyped' /\ op'.pc = pc
<1>1. op' \in Op /\ op'.pc = pc /\ op'.kind = op.kind /\ op'.text = op.text
      /\ op'.at = op.at
  BY DEF OpTyped, Op
<1> QED BY <1>1 DEF OpTyped

\* A row whose status alone changes.
LEMMA StatusRow ==
  ASSUME NEW r \in Row, r.text \in Texts,
         NEW s \in {"draft", "sending", "sent", "failed", "expired",
                    "discarded", "delivery_unknown"}
  PROVE  /\ Follows(r, [r EXCEPT !.status = s])
         /\ [r EXCEPT !.status = s].status = s
         /\ [r EXCEPT !.status = s].ref = r.ref
BY DEF Follows, Row

\* A schedule that was missed or dropped leaves the draft a draft.
LEMMA MissedRow ==
  ASSUME NEW r \in Row, NEW t, r.text \in Texts, clock \in Nat, TTL \in Nat
  PROVE  /\ Follows(r, missSchedule(r, t)) /\ Follows(r, Unscheduled(r))
         /\ missSchedule(r, t).status = r.status /\ Unscheduled(r).status = r.status
         /\ missSchedule(r, t).retry = r.retry /\ Unscheduled(r).retry = r.retry
         /\ missSchedule(r, t).ref = r.ref /\ Unscheduled(r).ref = r.ref
<1> DEFINE n == clock + TTL
           m == [r EXCEPT !.at = None, !.exp = n]
           e == IF r.at = None THEN r.exp ELSE n
           u == [r EXCEPT !.at = None, !.exp = e]
<1>1. n \in Nat /\ e \in Nat
  BY DEF Row
<1>2. missSchedule(r, t) \in {r, m} /\ Unscheduled(r) = u
  BY DEF missSchedule, Unscheduled
<1> HIDE DEF n, e
<1>3. m \in Row /\ m.rev = r.rev /\ m.text = r.text /\ m.status = r.status
      /\ m.retry = r.retry /\ m.ref = r.ref
  BY <1>1 DEF Row
<1>4. u \in Row /\ u.rev = r.rev /\ u.text = r.text /\ u.status = r.status
      /\ u.retry = r.retry /\ u.ref = r.ref
  BY <1>1 DEF Row
<1> HIDE DEF m, u
<1> QED BY <1>2, <1>3, <1>4 DEF Follows

\* The clock and the lifetime of a draft are numbers.
LEMMA ClockIsNat ==
  ASSUME RestTyped
  PROVE  clock \in Nat /\ TTL \in Nat
BY BoundsAreNumbers DEF RestTyped

\* An operation that begins with Enter.
LEMMA EnterStep ==
  ASSUME Inv, NEW o \in Op, NEW reads \in BOOLEAN, Enter(o, reads),
         o.kind = "revise" => o.text \in Texts,
         o.kind \in {"plan", "sched"} => o.at \in Nat,
         UNCHANGED outside
  PROVE  RowTyped' /\ OpTyped' /\ Calm
<1> DEFINE r == expireOverdue(row)
           w == r.ref /\ ~up
           pc == IF Mirrors /\ reads THEN "read" ELSE "synced"
           q == [o EXCEPT !.pc = pc, !.away = w]
<1>1. /\ RowTyped /\ row \in Row /\ up \in BOOLEAN
      /\ row.status # "none" => row.text \in Texts
  BY DEF Inv, Types, RowTyped, RestTyped
<1>2. /\ Follows(row, r) /\ r.ref = row.ref /\ r.retry = row.retry
      /\ \/ r.status = row.status
         \/ row.status = "draft" /\ r.status = "expired"
  BY <1>1, ExpiredRow
<1>3. /\ PutRow(r) /\ row.status # "none"
      /\ IF r.status # "draft" THEN op' = Idle ELSE op' = q
  BY DEF Enter
<1>4. w \in BOOLEAN /\ pc \in {"read", "synced"}
  BY <1>1, <1>2 DEF Row
<1> HIDE DEF r, w, pc
<1>5. RowTyped' /\ row' = r
  BY <1>1, <1>2, <1>3, RowSet
<1>6. /\ q \in Op /\ q.kind = o.kind /\ q.text = o.text /\ q.at = o.at
      /\ q.pc \in {"read", "synced"}
  BY <1>4 DEF Op
<1> HIDE DEF q
<1>7. Phase' = Phase /\ Phase = Stage /\ copies' = copies /\ prov' = prov
  <2>1. op.pc = "idle" /\ op'.pc \in {"idle", "read", "synced"}
    BY <1>3, <1>6 DEF Enter, Idle
  <2>2. Stage' = Stage
    BY <1>2, <1>5 DEF Stage
  <2> QED BY <2>1, <2>2 DEF Phase, outside
<1>8. CASE r.status # "draft"
  <2>1. OpTyped' /\ op'.pc = "idle"
    BY <1>3, <1>8, OpEnds
  <2> QED BY <1>2, <1>5, <1>7, <2>1 DEF Calm, NotYet
<1>9. CASE r.status = "draft"
  <2>1. op' = q /\ OpTyped'
    BY <1>3, <1>5, <1>6, <1>9 DEF OpTyped
  <2>2. Phase = "open"
    BY <1>2, <1>7, <1>9 DEF Stage
  <2> QED BY <1>2, <1>5, <1>6, <1>7, <2>1, <2>2 DEF Calm, NotYet
<1> QED BY <1>8, <1>9

-----------------------------------------------------------------------------
(* Operations begin.                                                       *)

\* A request leaves everything outside the row alone.
LEMMA QuietIsAside ==
  ASSUME Types, Quiet, call' \in Nat, Asked \/ UNCHANGED ops
  PROVE  Aside /\ UNCHANGED outside
<1>1. ops' \in 0..MaxOps
  BY BoundsAreNumbers DEF Asked, Types, RestTyped
<1>2. RestTyped'
  BY <1>1 DEF Quiet, Types, RestTyped
<1>3. ProvTyped' /\ UNCHANGED outside
  BY DEF Quiet, outside, Types, ProvTyped
<1> QED BY <1>2, <1>3 DEF Aside

\* confirmRow: the panel's Send takes the lock.
LEMMA confirmRowStep ==
  ASSUME Inv, NEW rev \in Nat, confirmRow(rev)
  PROVE  Types' /\ Calm
<1> DEFINE o == [Idle EXCEPT !.kind = "confirm", !.rev = rev]
<1>1. o \in Op /\ o.kind = "confirm"
  BY DEF Idle, Op
<1>2. Enter(o, TRUE) /\ Asked /\ Quiet /\ call' \in Nat
  BY DEF confirmRow, Inv, Types, RestTyped
<1> HIDE DEF o
<1>3. Aside /\ UNCHANGED outside
  BY <1>2, QuietIsAside DEF Inv
<1>4. RowTyped' /\ OpTyped' /\ Calm
  BY <1>1, <1>2, <1>3, EnterStep
<1> QED BY <1>3, <1>4 DEF Types, Aside

\* sendDraftLocked: a chat's send gets the lock it waited for.
LEMMA sendDraftLockedStep ==
  ASSUME Inv, sendDraftLocked
  PROVE  Types' /\ Calm
<1> DEFINE o == [Idle EXCEPT !.kind = "confirm", !.rev = call, !.tool = TRUE]
<1>0. call \in Nat
  BY DEF Inv, Types, RestTyped
<1>1. o \in Op /\ o.kind = "confirm"
  BY <1>0 DEF Idle, Op
<1>2. Enter(o, TRUE) /\ UNCHANGED ops /\ Quiet /\ call' \in Nat
  BY DEF sendDraftLocked
<1> HIDE DEF o
<1>3. Aside /\ UNCHANGED outside
  BY <1>2, QuietIsAside DEF Inv
<1>4. RowTyped' /\ OpTyped' /\ Calm
  BY <1>1, <1>2, <1>3, EnterStep
<1> QED BY <1>3, <1>4 DEF Types, Aside

\* scheduleLocked: a time is asked for, and the copy is read first or not.
LEMMA scheduleLockedStep ==
  ASSUME Inv, NEW rev \in Nat, NEW t \in Nat, NEW reads \in BOOLEAN,
         scheduleLocked(rev, t, reads)
  PROVE  Types' /\ Calm
<1> DEFINE o == [Idle EXCEPT !.kind = "plan", !.rev = rev, !.at = t]
<1>1. o \in Op /\ o.kind = "plan" /\ o.at \in Nat
  BY DEF Idle, Op
<1>2. Enter(o, reads) /\ Asked /\ Quiet /\ call' \in Nat
  BY DEF scheduleLocked, Inv, Types, RestTyped
<1> HIDE DEF o
<1>3. Aside /\ UNCHANGED outside
  BY <1>2, QuietIsAside DEF Inv
<1>4. RowTyped' /\ OpTyped' /\ Calm
  BY <1>1, <1>2, <1>3, EnterStep
<1> QED BY <1>3, <1>4 DEF Types, Aside

\* reviseLocked: new text for the draft, read or refused.
LEMMA reviseLockedStep ==
  ASSUME Inv, NEW rev \in Nat, NEW t \in Texts, reviseLocked(rev, t)
  PROVE  Types' /\ Calm
<1> DEFINE o == [Idle EXCEPT !.kind = "revise", !.rev = rev, !.text = t]
<1>1. o \in Op /\ o.kind = "revise" /\ o.text \in Texts
  BY DEF Idle, Op
<1>2. Enter(o, TRUE) /\ Asked /\ Quiet /\ call' \in Nat
  BY DEF reviseLocked, Inv, Types, RestTyped
<1> HIDE DEF o
<1>3. Aside /\ UNCHANGED outside
  BY <1>2, QuietIsAside DEF Inv
<1>4. RowTyped' /\ OpTyped' /\ Calm
  BY <1>1, <1>2, <1>3, EnterStep
<1> QED BY <1>3, <1>4 DEF Types, Aside

\* A change of the row that keeps its phase and its copy, with the operation
\* that holds the lock, if any, left where it is.
LEMMA RowStep ==
  ASSUME Inv, NEW r, Follows(row, r), PutRow(r), r.ref = row.ref,
         row.status # "none", r.status # "none",
         row.status \in {"sending", "delivery_unknown"} => r.status = row.status,
         Phase' = Phase, UNCHANGED <<op, prov, copies>>
  PROVE  RowTyped' /\ OpTyped' /\ Calm
<1>1. RowTyped' /\ row' = r
  BY RowSet DEF Inv, Types
<1>2. OpTyped'
  BY <1>1 DEF Inv, Types, OpTyped
<1>3. /\ op'.pc \in {"send", "settle"} => row'.status \in {"sending", "delivery_unknown"}
      /\ op'.pc = "make" => ~row'.ref
  BY <1>1 DEF Inv, Safe
<1> QED BY <1>1, <1>2, <1>3 DEF Calm, NotYet

\* sendDraft: a chat asks to send, and waits for the draft's lock.
LEMMA sendDraftStep ==
  ASSUME Inv, NEW rev \in Nat, sendDraft(rev)
  PROVE  Types' /\ Calm
<1> DEFINE r == expireOverdue(row)
<1>1. /\ row \in Row /\ (row.status # "none" => row.text \in Texts)
  BY DEF Inv, Types, RowTyped
<1>2. /\ Follows(row, r) /\ r.ref = row.ref /\ r.retry = row.retry
      /\ r.status = row.status \/ (row.status = "draft" /\ r.status = "expired")
  BY <1>1, ExpiredRow
<1>3. PutRow(r) /\ r.status # "none" /\ UNCHANGED op /\ Asked /\ Quiet /\ call' \in Nat
  BY DEF sendDraft
<1> HIDE DEF r
<1>4. Aside /\ UNCHANGED outside
  BY <1>3, QuietIsAside DEF Inv
<1>5. row' = r
  BY <1>3 DEF PutRow
<1>6. Phase' = Phase /\ UNCHANGED <<op, prov, copies>>
  BY <1>2, <1>3, <1>4, <1>5 DEF Phase, Stage, outside
<1>7. RowTyped' /\ OpTyped' /\ Calm
  BY <1>2, <1>3, <1>6, RowStep
<1> QED BY <1>4, <1>7 DEF Types, Aside

\* unschedule: the schedule is dropped from the row.
LEMMA unscheduleStep ==
  ASSUME Inv, unschedule
  PROVE  Types' /\ Calm
<1> DEFINE e == expireOverdue(row)
           r == IF e.status = "draft" THEN Unscheduled(e) ELSE e
<1>1. /\ row \in Row /\ row.status = "draft" /\ row.text \in Texts
      /\ clock \in Nat /\ TTL \in Nat
  BY ClockIsNat DEF unschedule, Inv, Types, RowTyped
<1>2. /\ e \in Row /\ Follows(row, e) /\ e.ref = row.ref /\ e.retry = row.retry
      /\ e.status \in {"draft", "expired"} /\ e.text \in Texts
  BY <1>1, ExpiredRow DEF Follows
<1>3. PutRow(r) /\ UNCHANGED op /\ Asked /\ Quiet /\ call' \in Nat
  BY DEF unschedule, Inv, Types, RestTyped
<1>4. e.status = "draft" => e = row
  BY <1>1 DEF expireOverdue, Row
<1> HIDE DEF e
<1>5. /\ Follows(row, r) /\ r.ref = row.ref /\ r.retry = row.retry
      /\ r.status \in {"draft", "expired"}
  BY <1>1, <1>2, <1>4, MissedRow
<1> HIDE DEF r
<1>6. Aside /\ UNCHANGED outside
  BY <1>3, QuietIsAside DEF Inv
<1>7. row' = r
  BY <1>3 DEF PutRow
<1>8. Phase' = Phase /\ UNCHANGED <<op, prov, copies>>
  BY <1>1, <1>3, <1>5, <1>6, <1>7 DEF Phase, Stage, outside
<1>9. RowTyped' /\ OpTyped' /\ Calm
  BY <1>1, <1>3, <1>5, <1>8, RowStep
<1> QED BY <1>6, <1>9 DEF Types, Aside

\* reopenLocked: a draft that may be reopened is one again, at a new revision.
LEMMA reopenLockedStep ==
  ASSUME Inv, reopenLocked
  PROVE  Types' /\ Calm
<1> DEFINE n == clock + TTL
           v == row.rev + 1
           r == [row EXCEPT !.status = "draft", !.rev = v, !.at = None,
                            !.exp = n, !.retry = FALSE]
<1>1. /\ row \in Row /\ row.text \in Texts /\ clock \in Nat /\ TTL \in Nat
      /\ row.status \in {"expired", "failed"} /\ Phase = "open"
  BY ClockIsNat DEF reopenLocked, isReopenable, Inv, Types, RowTyped, Phase,
     Stage, Idle
<1>2. n \in Nat /\ v \in Nat /\ v = row.rev + 1
  BY <1>1 DEF Row
<1>3. PutRow(r) /\ UNCHANGED <<op, ops>> /\ Quiet /\ call' \in Nat
  BY DEF reopenLocked, Inv, Types, RestTyped
<1> HIDE DEF n, v
<1>4. /\ r \in Row /\ r.rev = v /\ r.text = row.text /\ r.ref = row.ref
      /\ r.status = "draft"
  BY <1>1, <1>2 DEF Row
<1> HIDE DEF r
<1>5. Follows(row, r)
  BY <1>1, <1>2, <1>4 DEF Follows
<1>6. Aside /\ UNCHANGED outside
  BY <1>3, QuietIsAside DEF Inv
<1>7. row' = r
  BY <1>3 DEF PutRow
<1>8. Phase' = Phase /\ UNCHANGED <<op, prov, copies>>
  BY <1>1, <1>3, <1>4, <1>6, <1>7 DEF Phase, Stage, outside
<1>9. RowTyped' /\ OpTyped' /\ Calm
  BY <1>1, <1>3, <1>4, <1>5, <1>8, RowStep
<1> QED BY <1>6, <1>9 DEF Types, Aside

\* sendScheduled: the ticker takes a due row, or says it was missed.
LEMMA sendScheduledStep ==
  ASSUME Inv, sendScheduled
  PROVE  Types' /\ Calm
<1>1. /\ row \in Row /\ row.status = "draft" /\ row.text \in Texts
      /\ clock \in Nat /\ TTL \in Nat /\ row.rev \in Nat /\ row.at \in Nat
  BY ClockIsNat DEF sendScheduled, Inv, Types, RowTyped, Row
<1>2. Aside /\ UNCHANGED outside
  <2>1. Quiet /\ UNCHANGED ops /\ call' \in Nat
    BY DEF sendScheduled, Inv, Types, RestTyped
  <2> QED BY <2>1, QuietIsAside DEF Inv
<1>3. CASE PutRow(missSchedule(row, row.at)) /\ UNCHANGED op
  <2> DEFINE r == missSchedule(row, row.at)
  <2>1. /\ Follows(row, r) /\ r.status = row.status /\ r.retry = row.retry
        /\ r.ref = row.ref
    BY <1>1, MissedRow
  <2>2. PutRow(r)
    BY <1>3
  <2> HIDE DEF r
  <2>3. row' = r
    BY <2>2 DEF PutRow
  <2>4. Phase' = Phase /\ UNCHANGED <<op, prov, copies>>
    BY <1>2, <1>3, <2>1, <2>3 DEF Phase, Stage, outside
  <2>5. RowTyped' /\ OpTyped' /\ Calm
    BY <1>1, <2>1, <2>2, <2>4, RowStep
  <2> QED BY <1>2, <2>5 DEF Types, Aside
<1>4. CASE Enter([Idle EXCEPT !.kind = "sched", !.rev = row.rev, !.at = row.at], TRUE)
  <2> DEFINE o == [Idle EXCEPT !.kind = "sched", !.rev = row.rev, !.at = row.at]
  <2>1. o \in Op /\ o.kind = "sched" /\ o.at \in Nat
    BY <1>1 DEF Idle, Op
  <2>2. Enter(o, TRUE)
    BY <1>4
  <2> HIDE DEF o
  <2>3. RowTyped' /\ OpTyped' /\ Calm
    BY <1>2, <2>1, <2>2, EnterStep
  <2> QED BY <1>2, <2>3 DEF Types, Aside
<1> QED BY <1>3, <1>4 DEF sendScheduled

\* discard and refresh take the lock and read the copy.
LEMMA TouchStep ==
  ASSUME Inv, NEW kind \in {"discard", "refresh"}, Touch(kind)
  PROVE  Types' /\ Calm
<1> DEFINE pc == IF Mirrors THEN "read" ELSE "synced"
           o == [Idle EXCEPT !.kind = kind, !.pc = pc]
<1>1. /\ op = Idle /\ row.status = "draft" /\ op' = o /\ UNCHANGED <<row, shown>>
      /\ Asked /\ Quiet /\ call' \in Nat
  BY DEF Touch, Inv, Types, RestTyped
<1>2. pc \in {"read", "synced"}
  OBVIOUS
<1> HIDE DEF pc
<1>3. o \in Op /\ o.kind = kind /\ o.pc \in {"read", "synced"}
  BY <1>2 DEF Idle, Op
<1> HIDE DEF o
<1>4. RowTyped' /\ row' = row
  BY <1>1, RowKept DEF Inv, Types
<1>5. OpTyped'
  BY <1>1, <1>3, <1>4 DEF OpTyped
<1>6. Aside /\ UNCHANGED outside
  BY <1>1, QuietIsAside DEF Inv
<1>7. Phase' = Phase /\ Phase = "open" /\ copies' = copies /\ prov' = prov
  BY <1>1, <1>3, <1>4, <1>6 DEF Phase, Stage, outside, Idle
<1>8. Calm
  BY <1>1, <1>3, <1>4, <1>7 DEF Calm, NotYet
<1> QED BY <1>4, <1>5, <1>6, <1>8 DEF Types, Aside

\* redraft of a failed draft begins: its copy is to be removed.
LEMMA redraftStep ==
  ASSUME Inv, redraft
  PROVE  Types' /\ Calm
<1> DEFINE o == [Idle EXCEPT !.pc = "remove", !.kind = "redraft"]
<1>1. /\ row.status = "failed" /\ op' = o /\ UNCHANGED <<row, shown>> /\ op = Idle
      /\ UNCHANGED ops /\ Quiet /\ call' \in Nat
  BY DEF redraft, Inv, Types, RestTyped
<1>2. o \in Op /\ o.kind = "redraft" /\ o.pc = "remove"
  BY DEF Idle, Op
<1> HIDE DEF o
<1>3. RowTyped' /\ row' = row
  BY <1>1, RowKept DEF Inv, Types
<1>4. OpTyped'
  BY <1>1, <1>2, <1>3 DEF OpTyped
<1>5. Aside /\ UNCHANGED outside
  BY <1>1, QuietIsAside DEF Inv
<1>6. Phase' = Phase /\ copies' = copies /\ prov' = prov
  BY <1>1, <1>2, <1>3, <1>5 DEF Phase, Stage, outside, Idle
<1>7. Calm
  BY <1>1, <1>2, <1>3, <1>6 DEF Calm, NotYet
<1> QED BY <1>3, <1>4, <1>5, <1>7 DEF Types, Aside

-----------------------------------------------------------------------------
(* Operations go on.                                                       *)

\* What a step of the running operation leaves alone.
LEMMA KeptIsAside ==
  ASSUME Types, Kept, UNCHANGED armed, ProvTyped'
  PROVE  Aside
BY DEF Kept, bounds, Types, RestTyped, Aside

\* The same when the copy is left alone too.
LEMMA OutsideKept ==
  ASSUME Types, UNCHANGED outside
  PROVE  ProvTyped' /\ prov' = prov /\ copies' = copies
BY DEF outside, Types, ProvTyped

\* A waiting operation goes on, with the row where it was or closed, and it
\* neither sends nor makes a copy next.
LEMMA GoingOn ==
  ASSUME Inv, op.pc \notin {"idle", "send", "settle", "remove"}, copies' = copies,
         prov'.st = prov.st, row'.ref = row.ref,
         op'.pc \notin {"send", "settle", "make"},
         Stage' = Stage \/ (row.status # "none" /\ Stage' = "closed")
  PROVE  Calm
<1>1. NotYet
  BY DEF NotYet
<1>2. row.status # "none" => Stage \in {"open", "sending", "closed"}
  BY DEF Stage
<1>3. Phase = Stage /\ Phase' = Stage'
  BY DEF Phase
<1> QED BY <1>1, <1>2, <1>3 DEF Calm

\* Reading the provider's copy: adopted, or the row is settled by it.
LEMMA ReadStep ==
  ASSUME Inv, NEW v, Read(row, v), row.status # "none"
  PROVE  /\ RowTyped' /\ ProvTyped' /\ prov' = prov /\ copies' = copies
         /\ row'.ref = row.ref /\ row'.status # "none"
         /\ Stage' = Stage \/ Stage' = "closed"
         /\ row'.status \in {row.status, "sent", "discarded", "delivery_unknown"}
<1>1. /\ row \in Row /\ row.text \in Texts /\ RowTyped
      /\ clock \in Nat /\ TTL \in Nat
  BY ClockIsNat DEF Inv, Types, RowTyped
<1>2. ProvTyped' /\ prov' = prov /\ copies' = copies
  BY DEF Read, Inv, Types, ProvTyped
<1>3. CASE prov.st = "draft"
  <2> DEFINE r == adopt(row, prov.body, v)
  <2>1. prov.body \in Body
    BY <1>3 DEF Inv, Types, ProvTyped
  <2>2. /\ Follows(row, r) /\ r.status = row.status /\ r.ref = row.ref
        /\ r.retry = row.retry
    BY <1>1, <2>1, AdoptedRow
  <2>3. PutRow(r)
    BY <1>3 DEF Read
  <2> HIDE DEF r
  <2>4. RowTyped' /\ row' = r
    BY <1>1, <2>2, <2>3, RowSet
  <2>5. Stage' = Stage
    BY <2>2, <2>4 DEF Stage
  <2> QED BY <1>2, <2>2, <2>4, <2>5
<1>4. CASE prov.st # "draft"
  <2>1. PICK s \in {"delivery_unknown", "sent", "discarded"} :
          PutRow([row EXCEPT !.status = s])
    BY <1>4 DEF Read, Settled
  <2> DEFINE r == [row EXCEPT !.status = s]
  <2>2. Follows(row, r) /\ r.status = s /\ r.ref = row.ref
    <3>1. s \in {"draft", "sending", "sent", "failed", "expired", "discarded",
                 "delivery_unknown"}
      BY <2>1
    <3> QED BY <1>1, <3>1, StatusRow
  <2>3. PutRow(r)
    BY <2>1
  <2> HIDE DEF r
  <2>4. RowTyped' /\ row' = r
    BY <1>1, <2>2, <2>3, RowSet
  <2>5. Stage' = "closed"
    BY <2>2, <2>4 DEF Stage
  <2> QED BY <1>2, <2>2, <2>4, <2>5
<1> QED BY <1>3, <1>4

\* While an operation runs there is a row.
LEMMA RowExists ==
  ASSUME Inv, op.pc # "idle"
  PROVE  row.status # "none"
BY DEF Inv, Types, OpTyped, Idle

\* The copy is read before an operation; the row adopts it or is closed by it.
LEMMA SyncReadStep ==
  ASSUME Inv, SyncRead
  PROVE  Types' /\ Calm
<1>1. op.pc = "read" /\ Kept /\ UNCHANGED armed /\ Read(row, FALSE)
  BY DEF SyncRead
<1>2. row.status # "none"
  BY <1>1, RowExists
<1>3. /\ RowTyped' /\ ProvTyped' /\ prov' = prov /\ copies' = copies
      /\ row'.ref = row.ref /\ row'.status # "none"
      /\ Stage' = Stage \/ Stage' = "closed"
  BY <1>1, <1>2, ReadStep
<1>4. Aside
  BY <1>1, <1>3, KeptIsAside DEF Inv
<1>5. OpTyped' /\ op'.pc \in {"idle", "synced"}
  <2>1. op' = Idle \/ op' = [op EXCEPT !.pc = "synced"]
    BY DEF SyncRead
  <2> QED BY <1>3, <2>1, OpEnds, OpGoes DEF Inv, Types
<1>6. Calm
  BY <1>1, <1>2, <1>3, <1>5, GoingOn
<1> QED BY <1>3, <1>4, <1>5, <1>6 DEF Types, Aside

\* An operation goes on or ends and nothing else happens.
LEMMA OpAlone ==
  ASSUME Inv, op.pc \notin {"idle", "send", "settle", "remove"}, Kept,
         UNCHANGED <<row, shown, armed>>, ProvTyped', copies' = copies,
         prov'.st = prov.st, OpTyped', op'.pc \notin {"send", "settle", "make"}
  PROVE  Types' /\ Calm
<1>1. RowTyped' /\ row' = row
  BY RowKept DEF Inv, Types
<1>2. Aside
  BY KeptIsAside DEF Inv
<1>3. Stage' = Stage
  BY <1>1 DEF Stage
<1>4. Calm
  BY <1>1, <1>3, GoingOn
<1> QED BY <1>1, <1>2, <1>4 DEF Types, Aside

\* The read before an operation fails; the operation goes on or ends.
LEMMA SyncFailsStep ==
  ASSUME Inv, SyncFails
  PROVE  Types' /\ Calm
<1>1. /\ op.pc = "read" /\ Kept /\ UNCHANGED <<row, shown, armed>>
      /\ UNCHANGED outside
  BY DEF SyncFails
<1>2. row'.status # "none"
  BY <1>1, RowExists
<1>3. ProvTyped' /\ prov' = prov /\ copies' = copies
  BY <1>1, OutsideKept DEF Inv
<1>4. OpTyped' /\ op'.pc \in {"idle", "synced"}
  <2>1. op' = Idle \/ op' = [op EXCEPT !.pc = "synced"]
    BY DEF SyncFails
  <2> QED BY <1>2, <2>1, OpEnds, OpGoes DEF Inv, Types
<1> QED BY <1>1, <1>3, <1>4, OpAlone

\* confirmLocked after its read: refused, the copy rewritten first, or ready.
LEMMA ConfirmSyncedStep ==
  ASSUME Inv, ConfirmSynced
  PROVE  Types' /\ Calm
<1>1. op.pc = "synced" /\ op.kind \in {"confirm", "sched"} /\ Kept
      /\ UNCHANGED <<shown, armed>> /\ UNCHANGED outside
  BY DEF ConfirmSynced
<1>2. row.status # "none" /\ row \in Row /\ row.text \in Texts /\ op \in Op
      /\ up \in BOOLEAN
  BY <1>1, RowExists DEF Inv, Types, RowTyped, OpTyped, RestTyped
<1>3. ProvTyped' /\ prov' = prov /\ copies' = copies
  BY <1>1, OutsideKept DEF Inv
<1>4. CASE op' = Idle /\ UNCHANGED row
  BY <1>1, <1>3, <1>4, OpAlone, OpEnds
<1>5. CASE /\ row' = [row EXCEPT !.own = None]
           /\ op' = [op EXCEPT !.pc = "write", !.text = row.text]
  <2>1. /\ row' \in Row /\ row'.rev = row.rev /\ row'.text = row.text
        /\ row'.status = row.status /\ row'.ref = row.ref /\ row'.retry = row.retry
    BY <1>2, <1>5 DEF Row
  <2>2. RowTyped' /\ Stage' = Stage
    BY <1>1, <1>2, <2>1 DEF Inv, Types, RowTyped, Stage
  <2>3. /\ op' \in Op /\ op'.pc = "write" /\ op'.kind = op.kind
        /\ op'.text \in Texts /\ op'.at = op.at
    BY <1>2, <1>5 DEF Op
  <2>4. OpTyped'
    BY <1>2, <2>1, <2>3 DEF Inv, Types, OpTyped
  <2>5. Aside
    BY <1>1, <1>3, KeptIsAside DEF Inv
  <2>6. Calm
    BY <1>1, <1>3, <2>1, <2>2, <2>3, GoingOn
  <2> QED BY <2>2, <2>4, <2>5, <2>6 DEF Types, Aside
<1>6. CASE /\ op' = [op EXCEPT !.pc = "ready", !.away = @ \/ (row.ref /\ ~up)]
           /\ UNCHANGED row
  <2> DEFINE w == op.away \/ (row.ref /\ ~up)
  <2>1. w \in BOOLEAN
    BY <1>2 DEF Op, Row
  <2>2. op' = [op EXCEPT !.pc = "ready", !.away = w]
    BY <1>6
  <2> HIDE DEF w
  <2>3. /\ op' \in Op /\ op'.pc = "ready" /\ op'.kind = op.kind
        /\ op'.text = op.text /\ op'.at = op.at
    BY <1>2, <2>1, <2>2 DEF Op
  <2>4. OpTyped'
    BY <1>2, <1>6, <2>3 DEF Inv, Types, OpTyped
  <2> QED BY <1>1, <1>3, <1>6, <2>3, <2>4, OpAlone
<1> QED BY <1>4, <1>5, <1>6 DEF ConfirmSynced

\* schedule after its read: the time is written to the row.
LEMMA PlanSyncedStep ==
  ASSUME Inv, PlanSynced
  PROVE  Types' /\ Calm
<1>1. op.pc = "synced" /\ op.kind = "plan" /\ Kept /\ UNCHANGED shown
      /\ UNCHANGED outside /\ op' = Idle
  BY DEF PlanSynced
<1>2. row.status # "none" /\ row \in Row /\ op.at \in Nat /\ op.rev \in Nat
  BY <1>1, RowExists DEF Inv, Types, RowTyped, OpTyped, Op
<1>3. ProvTyped' /\ prov' = prov /\ copies' = copies
  BY <1>1, OutsideKept DEF Inv
<1>4. OpTyped' /\ op'.pc = "idle"
  BY <1>1, OpEnds
<1>5. CASE UNCHANGED <<row, armed>>
  BY <1>1, <1>3, <1>4, <1>5, OpAlone
<1>6. CASE row' = [row EXCEPT !.at = op.at] /\ armed' = op.rev
  <2>1. /\ row' \in Row /\ row'.rev = row.rev /\ row'.text = row.text
        /\ row'.status = row.status /\ row'.ref = row.ref /\ row'.retry = row.retry
    BY <1>2, <1>6 DEF Row
  <2>2. RowTyped' /\ Stage' = Stage
    BY <1>1, <1>2, <2>1 DEF Inv, Types, RowTyped, Stage
  <2>3. RestTyped'
    BY <1>1, <1>2, <1>6 DEF Kept, bounds, Inv, Types, RestTyped
  <2>4. Calm
    BY <1>1, <1>3, <1>4, <2>1, <2>2, GoingOn
  <2> QED BY <1>3, <1>4, <2>2, <2>3, <2>4 DEF Types
<1> QED BY <1>5, <1>6 DEF PlanSynced

\* revise after its read: the row alone, or the copy first.
LEMMA ReviseSyncedStep ==
  ASSUME Inv, ReviseSynced
  PROVE  Types' /\ Calm
<1>1. op.pc = "synced" /\ op.kind = "revise" /\ Kept /\ UNCHANGED armed
      /\ UNCHANGED outside
  BY DEF ReviseSynced
<1>2. row.status # "none" /\ row \in Row /\ row.text \in Texts /\ op \in Op
      /\ op.text \in Texts /\ up \in BOOLEAN /\ clock \in Nat /\ TTL \in Nat
  BY <1>1, RowExists, ClockIsNat DEF Inv, Types, RowTyped, OpTyped, RestTyped
<1>3. ProvTyped' /\ prov' = prov /\ copies' = copies /\ Aside
  BY <1>1, OutsideKept, KeptIsAside DEF Inv
<1>4. CASE op' = Idle /\ UNCHANGED <<row, shown>>
  BY <1>1, <1>3, <1>4, OpAlone, OpEnds
<1>5. CASE /\ row' = [row EXCEPT !.own = None] /\ UNCHANGED shown
           /\ op' = [op EXCEPT !.pc = "write"]
  <2>1. /\ row' \in Row /\ row'.rev = row.rev /\ row'.text = row.text
        /\ row'.status = row.status /\ row'.ref = row.ref /\ row'.retry = row.retry
    BY <1>2, <1>5 DEF Row
  <2>2. RowTyped' /\ Stage' = Stage
    BY <1>2, <1>5, <2>1 DEF Inv, Types, RowTyped, Stage
  <2>3. OpTyped' /\ op'.pc = "write"
    BY <1>2, <1>5, <2>1, OpGoes DEF Inv, Types
  <2>4. Calm
    BY <1>1, <1>3, <2>1, <2>2, <2>3, GoingOn
  <2> QED BY <1>3, <2>2, <2>3, <2>4 DEF Types, Aside
<1>6. CASE /\ ~Mirrors /\ PutRow(Edited(row, op.text))
           /\ op' = IF up THEN [op EXCEPT !.pc = "make"] ELSE Idle
  <2> DEFINE r == Edited(row, op.text)
  <2>1. /\ Follows(row, r) /\ r.status = row.status /\ r.ref = row.ref
        /\ r.retry = row.retry
    BY <1>2, EditedRow
  <2>2. PutRow(r)
    BY <1>6
  <2> HIDE DEF r
  <2>3. RowTyped' /\ row' = r
    BY <1>2, <2>1, <2>2, RowSet DEF Inv, Types
  <2>4. Stage' = Stage /\ NotYet
    BY <1>1, <2>1, <2>3 DEF Stage, NotYet
  <2>5. CASE up
    <3>1. OpTyped' /\ op'.pc = "make"
      BY <1>2, <1>6, <2>1, <2>3, <2>5, OpGoes DEF Inv, Types
    <3>2. ~row'.ref
      BY <1>6, <2>1, <2>3, <2>5 DEF Mirrors
    <3>3. Calm
      <4>1. Phase' = Phase
        BY <1>1, <2>4, <3>1 DEF Phase
      <4> QED BY <1>3, <2>1, <2>3, <2>4, <3>1, <3>2, <4>1 DEF Calm
    <3> QED BY <1>3, <2>3, <3>1, <3>3 DEF Types, Aside
  <2>6. CASE ~up
    <3>1. OpTyped' /\ op'.pc = "idle"
      BY <1>6, <2>6, OpEnds
    <3>2. Calm
      BY <1>1, <1>3, <2>1, <2>3, <2>4, <3>1 DEF Calm, Phase
    <3> QED BY <1>3, <2>3, <3>1, <3>2 DEF Types, Aside
  <2> QED BY <2>5, <2>6
<1> QED BY <1>4, <1>5, <1>6 DEF ReviseSynced

\* discard after its read: the row closes, and the copy goes next.
LEMMA DiscardSyncedStep ==
  ASSUME Inv, DiscardSynced
  PROVE  Types' /\ Calm
<1>1. op.pc = "synced" /\ Kept /\ UNCHANGED armed /\ UNCHANGED outside
  BY DEF DiscardSynced
<1>2. row.status # "none" /\ row \in Row /\ row.text \in Texts
  BY <1>1, RowExists DEF Inv, Types, RowTyped
<1>3. ProvTyped' /\ prov' = prov /\ copies' = copies /\ Aside
  BY <1>1, OutsideKept, KeptIsAside DEF Inv
<1>4. CASE row.status = "draft"
  <2> DEFINE r == [row EXCEPT !.status = "discarded"]
  <2>1. Follows(row, r) /\ r.status = "discarded" /\ r.ref = row.ref
    BY <1>2, StatusRow
  <2>2. PutRow(r) /\ (op' = Idle \/ op' = [op EXCEPT !.pc = "remove"])
    BY <1>4 DEF DiscardSynced
  <2> HIDE DEF r
  <2>3. RowTyped' /\ row' = r
    BY <2>1, <2>2, RowSet DEF Inv, Types
  <2>4. Stage' = "closed"
    BY <2>1, <2>3 DEF Stage
  <2>5. OpTyped' /\ op'.pc \in {"idle", "remove"}
    BY <2>1, <2>2, <2>3, OpEnds, OpGoes DEF Inv, Types
  <2>6. Calm
    BY <1>1, <1>2, <1>3, <2>1, <2>3, <2>4, <2>5, GoingOn
  <2> QED BY <1>3, <2>3, <2>5, <2>6 DEF Types, Aside
<1>5. CASE row.status # "draft"
  <2>1. UNCHANGED <<row, shown>> /\ op' = Idle
    BY <1>5 DEF DiscardSynced
  <2> QED BY <1>1, <1>3, <2>1, OpAlone, OpEnds
<1> QED BY <1>4, <1>5

-----------------------------------------------------------------------------
(* Writing and creating the copy.                                          *)

\* The copy the provider holds after a write is a draft with a body.
LEMMA WrittenTypes ==
  ASSUME Inv, prov.st = "draft", Written, op.text \in Texts,
         UNCHANGED <<touched, copies, strays>>
  PROVE  ProvTyped' /\ prov'.st = "draft" /\ copies' = copies
<1>1. PICK t \in Texts : prov' = [prov EXCEPT !.body = [text |-> t, mark |-> 0]]
  BY DEF Written
<1> DEFINE b == [text |-> t, mark |-> 0]
<1>2. b \in Body
  BY DEF Body
<1>3. prov' = [prov EXCEPT !.body = b]
  BY <1>1
<1> HIDE DEF b
<1>4. prov' \in [st : {"none", "draft", "sent", "deleted"}, body : Body \cup {None}]
      /\ prov'.st = "draft" /\ prov'.body = b
  BY <1>2, <1>3 DEF Inv, Types, ProvTyped
<1> QED BY <1>2, <1>4 DEF Inv, Types, ProvTyped

\* The provider took the new text.
LEMMA WriteDoneStep ==
  ASSUME Inv, WriteDone
  PROVE  Types' /\ Calm
<1>1. op.pc = "write" /\ prov.st = "draft" /\ Written /\ Kept
      /\ UNCHANGED <<row, shown, armed>> /\ UNCHANGED <<touched, copies, strays>>
      /\ op' = [op EXCEPT !.pc = "readback"]
  BY DEF WriteDone
<1>2. op.text \in Texts /\ row'.status # "none"
  BY <1>1, RowExists DEF Inv, Types, OpTyped
<1>3. ProvTyped' /\ prov'.st = prov.st /\ copies' = copies
  BY <1>1, <1>2, WrittenTypes
<1>4. OpTyped' /\ op'.pc = "readback"
  BY <1>1, <1>2, OpGoes DEF Inv, Types
<1> QED BY <1>1, <1>3, <1>4, OpAlone

\* The provider's answer to the new text is an error, written or not.
LEMMA WriteFailsStep ==
  ASSUME Inv, WriteFails
  PROVE  Types' /\ Calm
<1>1. op.pc = "write" /\ Kept
      /\ UNCHANGED <<row, shown, armed>> /\ UNCHANGED <<touched, copies, strays>>
      /\ op' = [op EXCEPT !.pc = "reread"]
      /\ (UNCHANGED prov \/ (prov.st = "draft" /\ Written))
  BY DEF WriteFails
<1>2. op.text \in Texts /\ row'.status # "none"
  BY <1>1, RowExists DEF Inv, Types, OpTyped
<1>3. ProvTyped' /\ prov'.st = prov.st /\ copies' = copies
  <2>1. CASE UNCHANGED prov
    BY <1>1, <2>1 DEF Inv, Types, ProvTyped
  <2>2. CASE prov.st = "draft" /\ Written
    BY <1>1, <1>2, <2>2, WrittenTypes
  <2> QED BY <1>1, <2>1, <2>2
<1>4. OpTyped' /\ op'.pc = "reread"
  BY <1>1, <1>2, OpGoes DEF Inv, Types
<1> QED BY <1>1, <1>3, <1>4, OpAlone

\* The copy is read back after a write.
LEMMA ReadBackStep ==
  ASSUME Inv, ReadBack
  PROVE  Types' /\ Calm
<1> DEFINE v == prov.st = "draft" /\ prov.body.text = op.text
<1>1. op.pc = "readback" /\ Kept /\ UNCHANGED armed /\ Read(row, v)
  BY DEF ReadBack
<1>2. row.status # "none"
  BY <1>1, RowExists
<1> HIDE DEF v
<1>3. /\ RowTyped' /\ ProvTyped' /\ prov' = prov /\ copies' = copies
      /\ row'.ref = row.ref /\ row'.status # "none"
      /\ Stage' = Stage \/ Stage' = "closed"
  BY <1>1, <1>2, ReadStep
<1>4. Aside
  BY <1>1, <1>3, KeptIsAside DEF Inv
<1>5. OpTyped' /\ op'.pc \in {"idle", "ready"}
  <2>1. op' = Idle \/ op' = [op EXCEPT !.pc = "ready"]
    BY DEF ReadBack
  <2> QED BY <1>3, <2>1, OpEnds, OpGoes DEF Inv, Types
<1>6. Calm
  BY <1>1, <1>2, <1>3, <1>5, GoingOn
<1> QED BY <1>3, <1>4, <1>5, <1>6 DEF Types, Aside

\* The read after a write fails: the row takes the text that was written.
LEMMA ReadBackFailsStep ==
  ASSUME Inv, ReadBackFails
  PROVE  Types' /\ Calm
<1> DEFINE r == Edited(row, op.text)
<1>1. op.pc = "readback" /\ Kept /\ UNCHANGED armed /\ UNCHANGED outside
      /\ PutRow(r) /\ op' = Idle
  BY DEF ReadBackFails
<1>2. row.status # "none" /\ row \in Row /\ row.text \in Texts
      /\ op.text \in Texts /\ clock \in Nat /\ TTL \in Nat
  BY <1>1, RowExists, ClockIsNat DEF Inv, Types, RowTyped, OpTyped
<1>3. /\ Follows(row, r) /\ r.status = row.status /\ r.ref = row.ref
      /\ r.retry = row.retry
  BY <1>2, EditedRow
<1> HIDE DEF r
<1>4. ProvTyped' /\ prov' = prov /\ copies' = copies /\ Aside
  BY <1>1, OutsideKept, KeptIsAside DEF Inv
<1>5. RowTyped' /\ row' = r
  BY <1>1, <1>2, <1>3, RowSet DEF Inv, Types
<1>6. Stage' = Stage
  BY <1>3, <1>5 DEF Stage
<1>7. OpTyped' /\ op'.pc = "idle"
  BY <1>1, OpEnds
<1>8. Calm
  BY <1>1, <1>3, <1>4, <1>5, <1>6, <1>7, GoingOn
<1> QED BY <1>4, <1>5, <1>7, <1>8 DEF Types, Aside

\* Both readbacks that may find nothing.
LEMMA MaybeRead ==
  ASSUME Inv, op.pc \in {"reread", "makeread"}, op' = Idle, Kept, UNCHANGED armed,
         NEW v, Read(row, v) \/ UNCHANGED <<row, shown, outside>>
  PROVE  Types' /\ Calm
<1>1. row.status # "none"
  BY RowExists
<1>2. OpTyped' /\ op'.pc = "idle"
  BY OpEnds
<1>3. CASE Read(row, v)
  <2>1. /\ RowTyped' /\ ProvTyped' /\ prov' = prov /\ copies' = copies
        /\ row'.ref = row.ref /\ (Stage' = Stage \/ Stage' = "closed")
    BY <1>1, <1>3, ReadStep
  <2>2. Aside
    BY <2>1, KeptIsAside DEF Inv
  <2>3. Calm
    BY <1>1, <1>2, <2>1, GoingOn
  <2> QED BY <1>2, <2>1, <2>2, <2>3 DEF Types, Aside
<1>4. CASE UNCHANGED <<row, shown, outside>>
  BY <1>2, <1>4, OutsideKept, OpAlone DEF Inv
<1> QED BY <1>3, <1>4

\* The copy is read once more before the row changes.
LEMMA ReReadStep ==
  ASSUME Inv, ReRead
  PROVE  Types' /\ Calm
BY MaybeRead DEF ReRead

\* The copy just made is read for its mark.
LEMMA MakeReadStep ==
  ASSUME Inv, MakeRead
  PROVE  Types' /\ Calm
<1> DEFINE v == prov.body.text = row.text
<1>1. /\ op.pc = "makeread" /\ op' = Idle /\ Kept /\ UNCHANGED armed
      /\ Read(row, v) \/ UNCHANGED <<row, shown, outside>>
  BY DEF MakeRead
<1> HIDE DEF v
<1> QED BY <1>1, MaybeRead

\* A copy made without the row's knowledge is one more of them.
LEMMA MadeTypes ==
  ASSUME strays \in [live : Nat, sent : Nat], MadeUnknown
  PROVE  strays' \in [live : Nat, sent : Nat]
BY DEF MadeUnknown

\* The row gets no copy, whether one was made or not.
LEMMA MakeFailsStep ==
  ASSUME Inv, MakeFails
  PROVE  Types' /\ Calm
<1>1. /\ op.pc = "make" /\ op' = Idle /\ Kept /\ UNCHANGED <<row, shown, armed>>
      /\ UNCHANGED <<prov, touched, copies>>
      /\ MadeUnknown \/ UNCHANGED strays
  BY DEF MakeFails
<1>2. ProvTyped'
  BY <1>1, MadeTypes DEF Inv, Types, ProvTyped
<1> QED BY <1>1, <1>2, OpEnds, OpAlone

\* The copy that is made is the row's first, and nothing was sent.
LEMMA MakeDoneStep ==
  ASSUME Inv, MakeDone
  PROVE  Types' /\ Safe' /\ Abstract
<1> DEFINE b == [text |-> row.text, mark |-> 0]
<1>1. op.pc = "make" /\ prov' = [st |-> "draft", body |-> b]
      /\ row' = [row EXCEPT !.ref = TRUE, !.seen = None, !.own = None]
      /\ op' = [op EXCEPT !.pc = "makeread"] /\ Kept
      /\ UNCHANGED <<shown, touched, copies, strays, armed>>
  BY DEF MakeDone
<1>2. row.status # "none" /\ row \in Row /\ row.text \in Texts
  BY <1>1, RowExists DEF Inv, Types, RowTyped
<1>3. b \in Body
  BY <1>2 DEF Body
<1> HIDE DEF b
<1>4. /\ row' \in Row /\ row'.rev = row.rev /\ row'.text = row.text
      /\ row'.status = row.status /\ row'.ref /\ row'.retry = row.retry
  BY <1>1, <1>2 DEF Row
<1>5. RowTyped' /\ Phase' = Phase /\ Sender' = Sender
  BY <1>1, <1>2, <1>4 DEF Inv, Types, RowTyped, Phase, Stage, Sender
<1>6. OpTyped' /\ op'.pc = "makeread"
  BY <1>1, <1>2, <1>4, OpGoes DEF Inv, Types
<1>7. ProvTyped'
  BY <1>1, <1>3 DEF Inv, Types, ProvTyped
<1>8. Types'
  BY <1>1, <1>5, <1>6, <1>7, KeptIsAside DEF Inv, Types, Aside
<1>9. Safe'
  <2>1. ~row.ref /\ copies.app = 0 /\ copies.mail = 0
    BY <1>1 DEF Inv, Safe, NotYet
  <2> QED BY <1>1, <1>4, <1>6, <2>1 DEF Safe
<1>10. Abstract
  BY <1>5 DEF Abstract, D!dvars
<1> QED BY <1>8, <1>9, <1>10

\* The copy of a discarded draft is removed, or that fails.
LEMMA RemoveDoneStep ==
  ASSUME Inv, RemoveDone
  PROVE  Types' /\ Calm
<1>1. op.pc = "remove" /\ op' = Idle /\ Kept
      /\ UNCHANGED <<row, shown, touched, copies, strays, armed>>
      /\ (UNCHANGED prov \/ (prov.st = "draft" /\ prov' = [prov EXCEPT !.st = "deleted"]))
  BY DEF RemoveDone
<1>2. RowTyped' /\ row' = row /\ Phase' = Phase
  BY <1>1, RowKept DEF Inv, Types, Phase, Stage, Idle
<1>3. /\ ProvTyped' /\ copies' = copies
      /\ prov'.st = prov.st \/ (prov.st = "draft" /\ prov'.st = "deleted")
  BY <1>1 DEF Inv, Types, ProvTyped
<1>4. OpTyped' /\ op'.pc = "idle"
  BY <1>1, OpEnds
<1>5. Aside
  BY <1>1, <1>3, KeptIsAside DEF Inv
<1>6. Calm
  BY <1>2, <1>3, <1>4 DEF Calm, NotYet
<1> QED BY <1>2, <1>4, <1>5, <1>6 DEF Types, Aside

-----------------------------------------------------------------------------
(* Sending.                                                                *)

\* A running operation ends with its schedule missed.
LEMMA MissedStep ==
  ASSUME Inv, op.pc = "ready", op' = Idle, Kept, UNCHANGED armed, UNCHANGED outside,
         NEW t, PutRow(missSchedule(row, t)) \/ UNCHANGED <<row, shown>>
  PROVE  Types' /\ Calm
<1>1. row.status # "none" /\ row \in Row /\ row.text \in Texts
      /\ clock \in Nat /\ TTL \in Nat
  BY RowExists, ClockIsNat DEF Inv, Types, RowTyped
<1>2. ProvTyped' /\ prov' = prov /\ copies' = copies /\ Aside
  BY OutsideKept, KeptIsAside DEF Inv
<1>3. OpTyped' /\ op'.pc = "idle"
  BY OpEnds
<1>4. CASE UNCHANGED <<row, shown>>
  BY <1>2, <1>3, <1>4, OpAlone
<1>5. CASE PutRow(missSchedule(row, t))
  <2> DEFINE r == missSchedule(row, t)
  <2>1. /\ Follows(row, r) /\ r.status = row.status /\ r.retry = row.retry
        /\ r.ref = row.ref
    BY <1>1, MissedRow
  <2>2. PutRow(r)
    BY <1>5
  <2> HIDE DEF r
  <2>3. RowTyped' /\ row' = r
    BY <1>1, <2>1, <2>2, RowSet DEF Inv, Types
  <2>4. Stage' = Stage
    BY <2>1, <2>3 DEF Stage
  <2>5. Calm
    BY <1>2, <1>3, <2>1, <2>3, <2>4, GoingOn
  <2> QED BY <1>2, <1>3, <2>3, <2>5 DEF Types, Aside
<1> QED BY <1>4, <1>5

\* A message without a copy cannot be put together.
LEMMA PrepareRefusesStep ==
  ASSUME Inv, PrepareRefuses
  PROVE  Types' /\ Calm
BY MissedStep DEF PrepareRefuses

\* The last check of a scheduled send: rescheduled, or too late by now.
LEMMA LastCheckStopsStep ==
  ASSUME Inv, LastCheckStops
  PROVE  Types' /\ Calm
BY MissedStep DEF LastCheckStops

\* The row moves to sending, if it is still a draft.
LEMMA BeginSendStep ==
  ASSUME Inv, BeginSend
  PROVE  Types' /\ Calm
<1>1. op.pc = "ready" /\ Kept /\ UNCHANGED armed /\ UNCHANGED outside
  BY DEF BeginSend
<1>2. row.status # "none" /\ row \in Row /\ row.text \in Texts
  BY <1>1, RowExists DEF Inv, Types, RowTyped
<1>3. ProvTyped' /\ prov' = prov /\ copies' = copies /\ Aside
  BY <1>1, OutsideKept, KeptIsAside DEF Inv
<1>4. CASE row.status = "draft"
  <2> DEFINE r == [row EXCEPT !.status = "sending"]
  <2>1. Follows(row, r) /\ r.status = "sending" /\ r.ref = row.ref
    BY <1>2, StatusRow
  <2>2. PutRow(r) /\ op' = [op EXCEPT !.pc = "send"]
    BY <1>4 DEF BeginSend
  <2> HIDE DEF r
  <2>3. RowTyped' /\ row' = r
    BY <2>1, <2>2, RowSet DEF Inv, Types
  <2>4. Phase = "open" /\ Phase' = "sending" /\ NotYet
    BY <1>1, <1>4, <2>1, <2>3 DEF Phase, Stage, NotYet
  <2>5. OpTyped' /\ op'.pc = "send"
    BY <2>1, <2>2, <2>3, OpGoes DEF Inv, Types
  <2>6. Calm
    BY <1>3, <2>1, <2>3, <2>4, <2>5 DEF Calm
  <2> QED BY <1>3, <2>3, <2>5, <2>6 DEF Types, Aside
<1>5. CASE row.status # "draft"
  <2>1. UNCHANGED <<row, shown>> /\ op' = Idle
    BY <1>5 DEF BeginSend
  <2> QED BY <1>1, <1>3, <2>1, OpAlone, OpEnds
<1> QED BY <1>4, <1>5

\* A send gets its answer.
LEMMA OpSettles ==
  ASSUME Inv, op.pc = "send", NEW res \in {"sent", "rejected", "unsure"},
         row' = row, op' = [op EXCEPT !.pc = "settle", !.res = res]
  PROVE  OpTyped' /\ op'.pc = "settle" /\ op'.res = res
<1>1. op \in Op /\ row.status # "none"
  BY RowExists DEF Inv, Types, OpTyped
<1>2. /\ op' \in Op /\ op'.pc = "settle" /\ op'.res = res /\ op'.kind = op.kind
      /\ op'.text = op.text /\ op'.at = op.at
  BY <1>1 DEF Op
<1> QED BY <1>1, <1>2 DEF Inv, Types, OpTyped

\* The message leaves: none has before, and the copy, if there is one, goes
\* with it.
LEMMA DeliveredStep ==
  ASSUME Inv, Delivered
  PROVE  Types' /\ Safe' /\ Abstract
<1>1. /\ op.pc = "send" /\ (row.ref => prov.st = "draft") /\ Kept
      /\ copies' = [copies EXCEPT !.app = @ + 1]
      /\ prov' = IF row.ref THEN [prov EXCEPT !.st = "sent"] ELSE prov
      /\ UNCHANGED <<row, shown, touched, strays, armed>>
  BY DEF Delivered
<1>2. PICK res \in {"sent", "unsure"} : op' = [op EXCEPT !.pc = "settle", !.res = res]
  BY DEF Delivered
<1>3. /\ copies \in [app : Nat, mail : Nat] /\ copies.app = 0 /\ copies.mail = 0
      /\ row.status \in {"sending", "delivery_unknown"} /\ row.ref \in BOOLEAN
      /\ ~row.ref => prov.st = "none"
  <2>1. copies \in [app : Nat, mail : Nat] /\ row.ref \in BOOLEAN
    BY DEF Inv, Types, ProvTyped, RowTyped, Row
  <2>2. copies.app = 0 /\ row.status \in {"sending", "delivery_unknown"}
    BY <1>1 DEF Inv, Safe, NotYet
  <2>3. copies.mail = 0 /\ (~row.ref => prov.st = "none")
    BY <1>1, <2>1 DEF Inv, Safe
  <2> QED BY <2>1, <2>2, <2>3
<1>4. copies' \in [app : Nat, mail : Nat] /\ copies'.app = 1 /\ copies'.mail = 0
  BY <1>1, <1>3
<1>5. RowTyped' /\ row' = row
  BY <1>1, RowKept DEF Inv, Types
<1>6. OpTyped' /\ op'.pc = "settle" /\ op'.res \in {"sent", "unsure"}
  BY <1>1, <1>2, OpSettles
<1>7. ProvTyped' /\ (row.ref => prov'.st = "sent") /\ (~row.ref => prov'.st = "none")
  <2>1. CASE row.ref
    BY <1>1, <1>4, <2>1 DEF Inv, Types, ProvTyped
  <2>2. CASE ~row.ref
    BY <1>1, <1>3, <1>4, <2>2 DEF Inv, Types, ProvTyped
  <2> QED BY <1>3, <2>1, <2>2
<1>8. Types'
  BY <1>1, <1>5, <1>6, <1>7, KeptIsAside DEF Inv, Types, Aside
<1>9. Phase = "sending" /\ Phase' = "sending"
  BY <1>1, <1>6 DEF Phase
<1>10. Safe'
  BY <1>3, <1>4, <1>5, <1>6, <1>7, <1>9 DEF Safe, NotYet
<1>11. Sender = "nobody" /\ Sender' = "app"
  BY <1>3, <1>4 DEF Sender
<1>12. Abstract
  BY <1>9, <1>11 DEF Abstract, D!Next, D!AppSends
<1> QED BY <1>8, <1>10, <1>12

\* The provider did not send; the answer may be lost.
LEMMA NotDeliveredStep ==
  ASSUME Inv, NotDelivered
  PROVE  Types' /\ Calm
<1>1. /\ op.pc = "send" /\ Kept /\ UNCHANGED <<row, shown, armed>>
      /\ UNCHANGED outside
  BY DEF NotDelivered
<1>2. PICK res \in {"rejected", "unsure"} : op' = [op EXCEPT !.pc = "settle", !.res = res]
  BY DEF NotDelivered
<1>3. OpTyped' /\ op'.pc = "settle"
  BY <1>1, <1>2, OpSettles
<1>4. RowTyped' /\ row' = row /\ Phase' = Phase
  BY <1>1, <1>3, RowKept DEF Inv, Types, Phase
<1>5. ProvTyped' /\ prov' = prov /\ copies' = copies /\ Aside
  BY <1>1, OutsideKept, KeptIsAside DEF Inv
<1>6. row.status \in {"sending", "delivery_unknown"} /\ NotYet
  BY <1>1 DEF Inv, Safe, NotYet
<1>7. Calm
  BY <1>3, <1>4, <1>5, <1>6 DEF Calm
<1> QED BY <1>3, <1>4, <1>5, <1>7 DEF Types, Aside

\* The answer to a send is written to the row.
LEMMA SettleStep ==
  ASSUME Inv, Settle
  PROVE  Types' /\ Calm
<1>1. /\ op.pc = "settle" /\ op' = Idle /\ Kept /\ UNCHANGED armed
      /\ UNCHANGED outside
  BY DEF Settle
<1>2. /\ row.status \in {"sending", "delivery_unknown"} /\ Phase = "sending"
      /\ row \in Row /\ row.text \in Texts
  BY <1>1 DEF Inv, Safe, Types, RowTyped, Phase
<1>3. ProvTyped' /\ prov' = prov /\ copies' = copies /\ Aside
  BY <1>1, OutsideKept, KeptIsAside DEF Inv
<1>4. OpTyped' /\ op'.pc = "idle"
  BY <1>1, OpEnds
<1> DEFINE w == canRetry(op.res)
           f == [row EXCEPT !.status = "failed", !.retry = w]
           s == [row EXCEPT !.status = "sent"]
<1>5. PICK r \in {row, s, f} :
        PutRow(r) /\ (r = row => row.status # "sending")
  <2>1. CASE row.status # "sending"
    BY <2>1 DEF Settle
  <2>2. CASE row.status = "sending"
    <3>1. s # row /\ f # row
      BY <1>2, <2>2 DEF Row
    <3> QED BY <2>2, <3>1 DEF Settle
  <2> QED BY <2>1, <2>2
<1>6. w \in BOOLEAN /\ (w <=> op.res = "rejected")
  BY DEF canRetry
<1> HIDE DEF w
<1>7. /\ Follows(row, f) /\ f.status = "failed" /\ f.retry = w /\ f.ref = row.ref
      /\ Follows(row, s) /\ s.status = "sent" /\ s.ref = row.ref
  BY <1>2, <1>6 DEF Follows, Row
<1> HIDE DEF f, s
<1>8. RowTyped' /\ row' = r /\ row'.ref = row.ref
  <2>1. CASE r = row
    BY <1>5, <2>1, RowKept DEF PutRow, Inv, Types
  <2>2. CASE r \in {s, f}
    BY <1>2, <1>5, <1>7, <2>2, RowSet DEF Inv, Types
  <2> QED BY <1>5, <2>1, <2>2
<1>9. Phase' = "closed" \/ (Phase' = "open" /\ op.res = "rejected")
  BY <1>2, <1>4, <1>5, <1>6, <1>7, <1>8 DEF Phase, Stage
<1>10. Calm
  BY <1>1, <1>2, <1>3, <1>4, <1>5, <1>7, <1>8, <1>9 DEF Calm, NotYet
<1> QED BY <1>3, <1>4, <1>8, <1>10 DEF Types, Aside

\* The answer to a send cannot be written; the row stays in sending.
LEMMA SettleFailsStep ==
  ASSUME Inv, SettleFails
  PROVE  Types' /\ Calm
<1>1. /\ op.pc = "settle" /\ op' = Idle /\ events' \in 0..MaxEvents
      /\ UNCHANGED <<row, shown, armed, call, chatOn, up, clock, ops>>
      /\ UNCHANGED outside
  BY BoundsAreNumbers DEF SettleFails, Inv, Types, RestTyped
<1>2. RowTyped' /\ row' = row
  BY <1>1, RowKept DEF Inv, Types
<1>3. ProvTyped' /\ prov' = prov /\ copies' = copies
  BY <1>1, OutsideKept DEF Inv
<1>4. OpTyped' /\ op'.pc = "idle"
  BY <1>1, OpEnds
<1>5. RestTyped'
  BY <1>1 DEF Inv, Types, RestTyped
<1>6. Phase = "sending" /\ Phase' \in {"sending", "closed"}
  BY <1>1, <1>2, <1>4 DEF Inv, Safe, Phase, Stage
<1>7. Calm
  BY <1>2, <1>3, <1>4, <1>6 DEF Calm, NotYet
<1> QED BY <1>2, <1>3, <1>4, <1>5, <1>7 DEF Types

-----------------------------------------------------------------------------
(* What no lock covers.                                                    *)

\* sweepOutbox expires a draft that outlived its lifetime.
LEMMA SweepStep ==
  ASSUME Inv, Sweep
  PROVE  Types' /\ Calm
<1> DEFINE r == expireOverdue(row)
<1>1. /\ row \in Row /\ row.status = "draft" /\ row.text \in Texts /\ Kept
      /\ UNCHANGED <<op, armed>> /\ UNCHANGED outside /\ PutRow(r)
  BY DEF Sweep, Overdue, Inv, Types, RowTyped
<1>2. /\ Follows(row, r) /\ r.ref = row.ref /\ r.retry = row.retry
      /\ r.status \in {"draft", "expired"}
  BY <1>1, ExpiredRow
<1> HIDE DEF r
<1>3. ProvTyped' /\ prov' = prov /\ copies' = copies /\ Aside
  BY <1>1, OutsideKept, KeptIsAside DEF Inv
<1>4. row' = r
  BY <1>1 DEF PutRow
<1>5. Phase' = Phase
  BY <1>1, <1>2, <1>4 DEF Phase, Stage
<1>6. RowTyped' /\ OpTyped' /\ Calm
  BY <1>1, <1>2, <1>3, <1>5, RowStep
<1> QED BY <1>3, <1>6 DEF Types, Aside

\* The row and the operation are left alone.
LEMMA Elsewhere ==
  ASSUME Inv, UNCHANGED <<row, op, shown>>, copies' = copies,
         prov'.st = prov.st \/ (prov.st = "draft" /\ prov'.st = "deleted"),
         ProvTyped', RestTyped'
  PROVE  Types' /\ Calm
<1>1. RowTyped' /\ row' = row /\ Phase' = Phase
  BY RowKept DEF Inv, Types, Phase, Stage
<1>2. OpTyped'
  BY <1>1 DEF Inv, Types, OpTyped
<1>3. Calm
  BY <1>1 DEF Calm, NotYet, Inv, Safe
<1> QED BY <1>1, <1>2, <1>3 DEF Types

\* What happens outside the app keeps the counters in their bounds.
LEMMA EventTypes ==
  ASSUME Types, Event
  PROVE  /\ armed' \in Nat /\ clock' \in 0..MaxTime /\ ops' \in 0..MaxOps
         /\ events' \in 0..MaxEvents
BY BoundsAreNumbers DEF Event, Types, RestTyped

\* The user edits the copy in the mail app.
LEMMA MailAppEditsStep ==
  ASSUME Inv, MailAppEdits
  PROVE  Types' /\ Calm
<1>1. /\ prov.st = "draft" /\ touched' = TRUE /\ Event
      /\ UNCHANGED <<row, op, call, copies, strays, shown, chatOn, up>>
  BY DEF MailAppEdits
<1>2. PICK b \in [text : Texts, mark : {1}] : prov' = [prov EXCEPT !.body = b]
  BY DEF MailAppEdits
<1>3. b \in Body
  BY DEF Body
<1>4. ProvTyped' /\ prov'.st = prov.st
  BY <1>1, <1>2, <1>3 DEF Inv, Types, ProvTyped
<1>5. RestTyped'
  BY <1>1, EventTypes DEF Inv, Types, RestTyped
<1> QED BY <1>1, <1>4, <1>5, Elsewhere

\* The user deletes the copy in the mail app.
LEMMA MailAppDeletesStep ==
  ASSUME Inv, MailAppDeletes
  PROVE  Types' /\ Calm
<1>1. /\ prov.st = "draft" /\ touched' = TRUE /\ Event
      /\ prov' = [prov EXCEPT !.st = "deleted"]
      /\ UNCHANGED <<row, op, call, copies, strays, shown, chatOn, up>>
  BY DEF MailAppDeletes
<1>2. ProvTyped' /\ prov'.st = "deleted"
  BY <1>1 DEF Inv, Types, ProvTyped
<1>3. RestTyped'
  BY <1>1, EventTypes DEF Inv, Types, RestTyped
<1> QED BY <1>1, <1>2, <1>3, Elsewhere

\* The mail app can send only a draft, and then nothing has left before.
LEMMA MailAppSendsStep ==
  ASSUME Inv, MailAppSends
  PROVE  Types' /\ Safe' /\ Abstract
<1>1. /\ prov.st = "draft" /\ touched' = TRUE /\ Event
      /\ prov' = [prov EXCEPT !.st = "sent"]
      /\ copies' = [copies EXCEPT !.mail = @ + 1]
      /\ UNCHANGED <<row, op, call, strays, shown, chatOn, up>>
  BY DEF MailAppSends
<1>2. /\ copies \in [app : Nat, mail : Nat] /\ row.ref \in BOOLEAN /\ RowTyped
      /\ OpTyped
  BY DEF Inv, Types, ProvTyped, RowTyped, Row
<1>3. row.ref /\ copies.mail = 0 /\ copies.app = 0
  BY <1>1, <1>2 DEF Inv, Safe
<1>4. copies' \in [app : Nat, mail : Nat] /\ copies'.app = 0 /\ copies'.mail = 1
  BY <1>1, <1>2, <1>3
<1>5. ProvTyped' /\ prov'.st = "sent"
  BY <1>1, <1>4 DEF Inv, Types, ProvTyped
<1>6. RestTyped'
  BY <1>1, EventTypes DEF Inv, Types, RestTyped
<1>7. RowTyped' /\ row' = row /\ Phase' = Phase
  BY <1>1, <1>2, RowKept DEF Phase, Stage
<1>8. OpTyped' /\ op' = op
  BY <1>1, <1>2, <1>7 DEF OpTyped
<1>9. Safe'
  BY <1>3, <1>4, <1>5, <1>7, <1>8 DEF Inv, Safe, NotYet
<1>10. Abstract
  <2>1. row.status # "none"
    BY <1>2, <1>3 DEF RowTyped
  <2>2. Phase # "unborn"
    BY <2>1 DEF Phase, Stage
  <2>3. Sender = "nobody" /\ Sender' = "mail"
    BY <1>3, <1>4 DEF Sender
  <2> QED BY <1>7, <2>2, <2>3 DEF Abstract, D!Next, D!MailSends
<1> QED BY <1>5, <1>6, <1>7, <1>8, <1>9, <1>10 DEF Types

\* The settings, the sender and the clock change nothing else.
LEMMA SetModeStep ==
  ASSUME Inv, SetMode \/ SenderChanges
  PROVE  Types' /\ Calm
<1>1. /\ Event /\ UNCHANGED <<row, op, call, outside, shown>>
      /\ chatOn' \in BOOLEAN /\ up' \in BOOLEAN
  BY DEF SetMode, SenderChanges, Inv, Types, RestTyped
<1>2. ProvTyped' /\ prov' = prov /\ copies' = copies
  BY <1>1, OutsideKept DEF Inv
<1>3. RestTyped'
  BY <1>1, EventTypes DEF Inv, Types, RestTyped
<1> QED BY <1>1, <1>2, <1>3, Elsewhere

\* What becomes of a copy no row refers to is its own affair.
LEMMA StrayStep ==
  ASSUME Inv, StrayGoes \/ StraySent
  PROVE  Types' /\ Calm
<1>1. /\ UNCHANGED <<row, op, shown>> /\ UNCHANGED <<prov, touched, copies>>
      /\ strays.live \in Nat /\ strays.sent \in Nat /\ strays.live > 0
      /\ strays \in [live : Nat, sent : Nat]
  BY DEF StrayGoes, StraySent, Inv, Types, ProvTyped
<1>2. CASE StrayGoes
  <2>1. strays' = [strays EXCEPT !.live = strays.live - 1] /\ Kept /\ UNCHANGED armed
    BY <1>2 DEF StrayGoes
  <2>2. ProvTyped'
    BY <1>1, <2>1 DEF Inv, Types, ProvTyped
  <2>3. Aside
    BY <2>1, <2>2, KeptIsAside DEF Inv
  <2> QED BY <1>1, <2>2, <2>3, Elsewhere DEF Aside
<1>3. CASE StraySent
  <2>1. /\ Event /\ UNCHANGED <<call, chatOn, up>>
        /\ strays' = [live |-> strays.live - 1, sent |-> strays.sent + 1]
    BY <1>3 DEF StraySent
  <2>2. ProvTyped'
    BY <1>1, <2>1 DEF Inv, Types, ProvTyped
  <2>3. RestTyped'
    BY <2>1, EventTypes DEF Inv, Types, RestTyped
  <2> QED BY <1>1, <2>2, <2>3, Elsewhere
<1> QED BY <1>2, <1>3

\* The clock moves on.
LEMMA TimePassesStep ==
  ASSUME Inv, TimePasses
  PROVE  Types' /\ Calm
<1>1. /\ UNCHANGED <<row, op, shown, call, armed, chatOn, up, bounds>>
      /\ UNCHANGED outside /\ clock' \in 0..MaxTime
  BY BoundsAreNumbers DEF TimePasses, Inv, Types, RestTyped
<1>2. ProvTyped' /\ prov' = prov /\ copies' = copies
  BY <1>1, OutsideKept DEF Inv
<1>3. RestTyped'
  BY <1>1 DEF bounds, Inv, Types, RestTyped
<1> QED BY <1>1, <1>2, <1>3, Elsewhere

\* Nothing happens.
LEMMA StutterStep ==
  ASSUME Inv, UNCHANGED vars
  PROVE  Types' /\ Calm
<1>1. UNCHANGED <<row, op, shown>> /\ copies' = copies /\ prov' = prov
  BY DEF vars
<1>2. ProvTyped'
  BY DEF vars, Inv, Types, ProvTyped
<1>3. RestTyped'
  BY DEF vars, Inv, Types, RestTyped
<1> QED BY <1>1, <1>2, <1>3, Elsewhere

\* A sweep in a process that lives: a row in sending is closed, and a call
\* that is under way goes on.
LEMMA SweepAgainStep ==
  ASSUME Inv, SweepAgain
  PROVE  Types' /\ Calm
<1> DEFINE r == [row EXCEPT !.status = "delivery_unknown"]
<1>1. /\ Event /\ UNCHANGED <<op, call, shown, chatOn, up>> /\ UNCHANGED outside
      /\ row.status = "sending" /\ row' = r
  BY DEF SweepAgain, Recovered
<1>2. row \in Row /\ row.text \in Texts
  BY <1>1 DEF Inv, Types, RowTyped
<1>3. /\ r \in Row /\ r.rev = row.rev /\ r.text = row.text /\ r.ref = row.ref
      /\ r.status = "delivery_unknown"
  BY <1>2 DEF Row
<1> HIDE DEF r
<1>4. RowTyped' /\ OpTyped'
  BY <1>1, <1>2, <1>3 DEF Inv, Types, RowTyped, OpTyped
<1>5. ProvTyped' /\ prov' = prov /\ copies' = copies
  BY <1>1, OutsideKept DEF Inv
<1>6. RestTyped'
  BY <1>1, EventTypes DEF Inv, Types, RestTyped
<1>7. Phase' = Phase \/ (Phase = "sending" /\ Phase' = "closed")
  BY <1>1, <1>3 DEF Phase, Stage
<1>8. /\ op'.pc \in {"send", "settle"} => row'.status = "delivery_unknown"
      /\ op'.pc = "make" => ~row'.ref
  BY <1>1, <1>3 DEF Inv, Safe
<1>9. Calm
  BY <1>1, <1>3, <1>5, <1>7, <1>8 DEF Calm, NotYet
<1> QED BY <1>4, <1>5, <1>6, <1>9 DEF Types

\* A restart: what was being sent is closed or still being sent, and only a
\* request under way can have been carried out.
LEMMA CrashStep ==
  ASSUME Inv, Crash
  PROVE  Types' /\ Safe' /\ Abstract
<1>1. /\ Event /\ op' = Idle /\ call' = 0 /\ row' \in {Recovered(row), row}
      /\ UNCHANGED <<touched, shown, chatOn, up>>
  BY DEF Crash
<1>2. RestTyped'
  BY <1>1, EventTypes DEF Inv, Types, RestTyped
<1>3. OpTyped' /\ op'.pc = "idle"
  BY <1>1, OpEnds
<1>4. row \in Row /\ (row.status # "none" => row.text \in Texts)
  BY DEF Inv, Types, RowTyped
<1>5. /\ row' \in Row /\ row'.rev = row.rev /\ row'.text = row.text
      /\ row'.ref = row.ref /\ row'.retry = row.retry
      /\ \/ row'.status = row.status
         \/ row.status = "sending" /\ row'.status = "delivery_unknown"
  BY <1>1, <1>4 DEF Recovered, Row
<1>6. RowTyped'
  BY <1>1, <1>5 DEF Inv, Types, RowTyped
<1>7. Phase' = Phase \/ (Phase = "sending" /\ Phase' = "closed")
  BY <1>3, <1>5 DEF Phase, Stage, Inv, Safe
<1>8. NotYet' => NotYet
  BY <1>3, <1>7 DEF NotYet
<1>9. CASE /\ op.pc = "send" /\ UNCHANGED strays /\ (row.ref => prov.st = "draft")
           /\ copies' = [copies EXCEPT !.app = @ + 1]
           /\ prov' = IF row.ref THEN [prov EXCEPT !.st = "sent"] ELSE prov
  <2>1. copies \in [app : Nat, mail : Nat] /\ row.ref \in BOOLEAN
    BY <1>4 DEF Inv, Types, ProvTyped, Row
  <2>2. copies.app = 0 /\ row.status \in {"sending", "delivery_unknown"}
    BY <1>9 DEF Inv, Safe, NotYet
  <2>3. copies.mail = 0 /\ (~row.ref => prov.st = "none")
    BY <1>9, <2>1 DEF Inv, Safe
  <2>4. copies' \in [app : Nat, mail : Nat] /\ copies'.app = 1 /\ copies'.mail = 0
    BY <1>9, <2>1, <2>2, <2>3
  <2>5. ProvTyped' /\ (row.ref => prov'.st = "sent") /\ (~row.ref => prov'.st = "none")
    <3>1. CASE row.ref
      BY <1>1, <1>9, <2>4, <3>1 DEF Inv, Types, ProvTyped
    <3>2. CASE ~row.ref
      BY <1>1, <1>9, <2>3, <2>4, <3>2 DEF Inv, Types, ProvTyped
    <3> QED BY <2>1, <3>1, <3>2
  <2>6. Phase = "sending"
    BY <1>9 DEF Phase
  <2>7. ~NotYet'
    BY <1>3, <1>7, <2>6 DEF NotYet
  <2>8. Safe'
    BY <1>3, <1>5, <2>1, <2>4, <2>5, <2>7 DEF Safe
  <2>9. Sender = "nobody" /\ Sender' = "app"
    BY <2>2, <2>3, <2>4 DEF Sender
  <2>10. Abstract
    BY <1>7, <2>6, <2>9 DEF Abstract, D!Next, D!AppSends
  <2> QED BY <1>2, <1>3, <1>6, <2>5, <2>8, <2>10 DEF Types
<1>10. CASE \/ UNCHANGED <<prov, copies>> /\ (MadeUnknown \/ UNCHANGED strays)
            \/ op.pc = "write" /\ prov.st = "draft" /\ Written
               /\ UNCHANGED <<copies, strays>>
  <2>1. ProvTyped' /\ prov'.st = prov.st /\ copies' = copies
    <3>1. CASE UNCHANGED <<prov, copies>> /\ (MadeUnknown \/ UNCHANGED strays)
      BY <1>1, <3>1, MadeTypes DEF Inv, Types, ProvTyped
    <3>2. CASE op.pc = "write" /\ prov.st = "draft" /\ Written
               /\ UNCHANGED <<copies, strays>>
      <4>1. op.text \in Texts
        BY <3>2 DEF Inv, Types, OpTyped
      <4> QED BY <1>1, <3>2, <4>1, WrittenTypes
    <3> QED BY <1>10, <3>1, <3>2
  <2>2. Calm
    BY <1>3, <1>5, <1>7, <1>8, <2>1 DEF Calm
  <2>3. Types'
    BY <1>2, <1>3, <1>6, <2>1 DEF Types
  <2> QED BY <2>2, <2>3, CalmIsSafe, CalmIsAbstract
<1> QED BY <1>9, <1>10 DEF Crash

\* A draft is written: its row, and perhaps its copy next.
LEMMA draftMessageStep ==
  ASSUME Inv, NEW t \in Texts, NEW m, draftMessage(t, m)
  PROVE  Types' /\ Safe' /\ Abstract
<1> DEFINE n == clock + TTL
           c == m = "chat"
           r == [NoRow EXCEPT !.status = "draft", !.rev = 1, !.text = t,
                              !.exp = n, !.chat = c]
           o == [Idle EXCEPT !.pc = "make", !.kind = "create"]
<1>1. /\ row.status = "none" /\ PutRow(r) /\ op' \in {o, Idle}
      /\ UNCHANGED ops /\ Quiet /\ call' \in Nat /\ op = Idle
  BY DEF draftMessage, Inv, Types, RestTyped, OpTyped
<1>2. n \in Nat /\ c \in BOOLEAN
  BY ClockIsNat DEF Inv, Types
<1> HIDE DEF n, c
<1>3. r \in Row /\ r.status = "draft" /\ r.rev = 1 /\ r.text = t /\ ~r.ref
  BY <1>2 DEF NoRow, Row
<1> HIDE DEF r
<1>4. Aside /\ UNCHANGED outside
  BY <1>1, QuietIsAside DEF Inv
<1>5. row.rev = 0 /\ ~row.ref /\ copies.app = 0 /\ copies.mail = 0 /\ prov.st = "none"
  BY <1>1 DEF Inv, Types, RowTyped, Safe, NotYet, Phase, Stage
<1>6. Follows(row, r)
  BY <1>3, <1>5 DEF Follows
<1>7. RowTyped' /\ row' = r
  BY <1>1, <1>3, <1>6, RowSet DEF Inv, Types
<1>8. /\ o \in Op /\ o.kind = "create" /\ o.pc = "make"
      /\ Idle.pc = "idle"
  BY DEF Idle, Op
<1>9. OpTyped'
  <2>1. CASE op' = Idle
    BY <2>1, OpEnds
  <2>2. CASE op' = o
    <3> HIDE DEF o
    <3> QED BY <1>3, <1>7, <1>8, <2>2 DEF OpTyped
  <2> QED BY <1>1, <2>1, <2>2
<1> HIDE DEF o
<1>10. copies' = copies /\ prov' = prov /\ op'.pc \in {"make", "idle"}
  BY <1>1, <1>4, <1>8 DEF outside
<1>11. Phase = "unborn" /\ Phase' = "open" /\ Sender' = Sender
  BY <1>1, <1>3, <1>7, <1>10 DEF Phase, Stage, Sender, Idle
<1>12. Safe'
  BY <1>3, <1>5, <1>7, <1>10 DEF Safe
<1>13. Abstract
  BY <1>11 DEF Abstract, D!Next, D!Draft
<1> QED BY <1>4, <1>7, <1>9, <1>12, <1>13 DEF Types, Aside

-----------------------------------------------------------------------------
(* The theorems.                                                           *)

\* Each step keeps the invariant and is a step of Delivery or a stutter: one
\* step of the proof per action.
LEMMA StepIsSafe ==
  ASSUME Inv, [Next]_vars
  PROVE  Inv' /\ Abstract
<1> DEFINE Goal == \/ Types' /\ Calm
                   \/ Types' /\ Safe' /\ Abstract
<1> SUFFICES Goal
  BY CalmIsSafe, CalmIsAbstract DEF Inv
<1>1. CASE Begin
  <2>1. ASSUME NEW t \in Texts, NEW m \in Modes, draftMessage(t, m) PROVE Goal
    BY <2>1, draftMessageStep
  <2>2. ASSUME NEW rev \in 1..row.rev, confirmRow(rev) \/ sendDraft(rev) PROVE Goal
    <3>1. rev \in Nat
      BY DEF Inv, Types, RowTyped, Row
    <3> QED BY <2>2, <3>1, confirmRowStep, sendDraftStep
  <2>3. ASSUME NEW rev \in 1..row.rev, NEW t \in 0..(MaxTime - Late - 1),
               NEW reads \in BOOLEAN, scheduleLocked(rev, t, reads)
        PROVE Goal
    <3>1. rev \in Nat /\ t \in Nat
      BY BoundsAreNumbers DEF Inv, Types, RowTyped, Row
    <3> QED BY <2>3, <3>1, scheduleLockedStep
  <2>4. ASSUME NEW rev \in 1..row.rev, NEW t \in Texts, reviseLocked(rev, t)
        PROVE Goal
    <3>1. rev \in Nat
      BY DEF Inv, Types, RowTyped, Row
    <3> QED BY <2>4, <3>1, reviseLockedStep
  <2>5. ASSUME NEW kind \in {"discard", "refresh"}, Touch(kind) PROVE Goal
    BY <2>5, TouchStep
  <2>6. CASE unschedule \/ reopenLocked \/ redraft
    BY <2>6, unscheduleStep, reopenLockedStep, redraftStep
  <2> HIDE DEF Goal
  <2> QED BY <1>1, <2>1, <2>2, <2>3, <2>4, <2>5, <2>6 DEF Begin
<1>2. CASE Go
  <2>1. CASE \/ SyncRead \/ SyncFails \/ ConfirmSynced \/ PlanSynced
             \/ ReviseSynced \/ DiscardSynced
    BY <2>1, SyncReadStep, SyncFailsStep, ConfirmSyncedStep, PlanSyncedStep,
       ReviseSyncedStep, DiscardSyncedStep
  <2>2. CASE \/ WriteDone \/ WriteFails \/ ReadBack \/ ReadBackFails \/ ReRead
    BY <2>2, WriteDoneStep, WriteFailsStep, ReadBackStep, ReadBackFailsStep, ReReadStep
  <2>3. CASE \/ MakeDone \/ MakeFails \/ MakeRead \/ RemoveDone
    BY <2>3, MakeDoneStep, MakeFailsStep, MakeReadStep, RemoveDoneStep
  <2>4. CASE \/ PrepareRefuses \/ LastCheckStops \/ BeginSend \/ Delivered
             \/ NotDelivered \/ Settle
    BY <2>4, PrepareRefusesStep, LastCheckStopsStep, BeginSendStep, DeliveredStep,
       NotDeliveredStep, SettleStep
  <2> HIDE DEF Goal
  <2> QED BY <1>2, <2>1, <2>2, <2>3, <2>4 DEF Go
<1>3. CASE sendDraftLocked \/ sendScheduled \/ SettleFails \/ Sweep
  BY <1>3, sendDraftLockedStep, sendScheduledStep, SettleFailsStep, SweepStep
<1>4. CASE MailApp
  BY <1>4, MailAppEditsStep, MailAppSendsStep, MailAppDeletesStep, StrayStep
     DEF MailApp
<1>5. CASE \/ SetMode \/ SenderChanges \/ TimePasses \/ SweepAgain \/ Crash
           \/ UNCHANGED vars
  BY <1>5, SetModeStep, TimePassesStep, SweepAgainStep, CrashStep, StutterStep
<1> HIDE DEF Goal
<1> QED BY <1>1, <1>2, <1>3, <1>4, <1>5 DEF Next

\* At first there is no draft and nothing has left.
LEMMA InitIsSafe == Init => Inv /\ D!Init
<1> SUFFICES ASSUME Init PROVE Inv /\ D!Init
  OBVIOUS
<1>1. Types
  BY InitTypes
<1>2. /\ row.status = "none" /\ ~row.ref /\ op.pc = "idle" /\ prov.st = "none"
      /\ copies.app = 0 /\ copies.mail = 0
  BY DEF Init, NoRow, Idle
<1>3. Safe
  BY <1>2 DEF Safe
<1>4. D!Init
  BY <1>2 DEF D!Init, Phase, Stage, Sender
<1> QED BY <1>1, <1>3, <1>4 DEF Inv

\* Every reachable state satisfies the invariant.
LEMMA AlwaysInv == Spec => []Inv
<1>1. Init => Inv
  BY InitIsSafe
<1>2. Inv /\ [Next]_vars => Inv'
  BY StepIsSafe
<1> QED BY <1>1, <1>2, PTL DEF Spec

\* The types of the outbox model hold always: the row, its revisions and their
\* texts, the operation under way and the copy at the provider (outbox.ts,
\* service.ts).
THEOREM TypeCorrect == Spec => []TypeOK
<1>1. Inv => TypeOK
  BY TypesImplyTypeOK DEF Inv
<1> QED BY <1>1, AlwaysInv, PTL

\* At most one message leaves for a draft, through the app or from the copy its
\* row refers to (confirmLocked's compare-and-set, canRetry,
\* recoverOrphanedSending), for any contents, deadlines and histories of
\* requests, failures, restarts, sweeps and changes in the mail app.  What the
\* user sends from a copy createLocked lost track of is not counted.
THEOREM SentAtMostOnce == Spec => []AtMostOnce
<1>1. Inv => AtMostOnce
  BY SafeImpliesAtMostOnce DEF Inv
<1> QED BY <1>1, AlwaysInv, PTL

\* The pipeline implements Delivery: a draft the app may have sent is never
\* open for sending again, and a closed one stays closed.  A draft is being sent
\* as long as the call that sends it is under way, also when a promotion's sweep
\* (crash-recovery.ts) has written its row off already.
THEOREM ImplementsDelivery == Spec => Delivers
<1>1. Init => D!Init
  BY InitIsSafe
<1>2. Inv /\ [Next]_vars => [D!Next]_D!dvars
  BY StepIsSafe DEF Abstract
<1> QED BY <1>1, <1>2, AlwaysInv, PTL DEF Spec, Delivers, D!Spec

-----------------------------------------------------------------------------
(* What is sent is what was shown.  SentAsShown speaks of the moment of    *)
(* sending; why it holds then was decided when the copy was last read.     *)

\* The text of the row is the text shown for its revision.
Latest == row.text # None => row.rev # 0 /\ row.text = shown[row.rev]

\* A time in the row was asked for the revision the row has.
Planned == row.at # None => armed = row.rev

\* A scheduled send is of the revision its schedule was made for.
Timed == op.kind = "sched" => armed = op.rev

\* The copy is as the app last read it, and there was a sender to read it.
Watched == row.ref /\ ~touched /\ ~op.away /\ prov.st = "draft"

\* What a send relies on from its read to its end: the revision it was asked
\* for, and a copy that is the one seen, later the app's own rendering.
Vouched ==
  /\ op.pc \in {"write", "readback"} =>
       row.own = None /\ (op.kind # "revise" => row.rev = op.rev)
  /\ op.pc \in {"ready", "send"} => row.rev = op.rev
  /\ op.pc = "synced" /\ op.kind \in {"confirm", "sched"} /\ Watched =>
       prov.body = row.seen /\ prov.body.text = row.text
  /\ op.pc \in {"ready", "send"} /\ Watched =>
       prov.body = row.own /\ prov.body.text = row.text

Told == Latest /\ Planned /\ Timed /\ Vouched

\* s keeps the revision of r, or is a new one with no schedule (applyContent).
Renews(r, s) ==
  \/ s.rev = r.rev /\ s.text = r.text /\ s.at \in {r.at, None}
  \/ s.rev = r.rev + 1 /\ s.at = None

\* A row put in the table keeps the text shown and the schedule's revision.
LEMMA RenewedRow ==
  ASSUME Inv, Latest, Planned, armed' = armed,
         NEW r, Renews(row, r), r.text \in Texts, PutRow(r)
  PROVE  Latest' /\ Planned'
<1>1. /\ shown \in Seq(Texts) /\ Len(shown) = row.rev /\ row.rev \in Nat
      /\ row' = r
  BY DEF Inv, Types, RowTyped, Row, PutRow
<1>2. CASE r.rev = row.rev /\ r.text = row.text /\ r.at \in {row.at, None}
  <2>1. shown' = shown  BY <1>2 DEF PutRow
  <2> QED BY <1>1, <1>2, <2>1 DEF Latest, Planned
<1>3. CASE r.rev = row.rev + 1 /\ r.at = None
  <2>1. shown' = Append(shown, r.text)  BY <1>1, <1>3 DEF PutRow
  <2>2. shown'[Len(shown) + 1] = r.text  BY <1>1, <2>1, AppendProperties
  <2> QED BY <1>1, <1>3, <2>2 DEF Latest, Planned
<1> QED BY <1>2, <1>3 DEF Renews

\* A row whose revision, text and time stay keeps both as well.
LEMMA SameRow ==
  ASSUME Latest, Planned, UNCHANGED <<armed, shown>>,
         row'.rev = row.rev, row'.text = row.text, row'.at = row.at
  PROVE  Latest' /\ Planned'
BY DEF Latest, Planned

\* applyContent is a new revision without a schedule, or no change.
LEMMA EditedRenews ==
  ASSUME NEW r \in Row, NEW t \in Texts
  PROVE  /\ Renews(r, Edited(r, t)) /\ Edited(r, t).text = t
         /\ Edited(r, t).own = r.own /\ Edited(r, t).seen = r.seen
<1>1. CASE t = r.text
  BY <1>1 DEF Edited, Renews
<1>2. CASE t # r.text
  <2> DEFINE e == IF r.at = None THEN r.exp ELSE clock + TTL
             n == r.rev + 1
             s == [r EXCEPT !.text = t, !.rev = n, !.at = None, !.exp = e]
  <2>1. n = r.rev + 1  OBVIOUS
  <2>2. Edited(r, t) = s  BY <1>2 DEF Edited
  <2> HIDE DEF e, n
  <2>3. /\ s.rev = n /\ s.at = None /\ s.text = t /\ s.own = r.own
        /\ s.seen = r.seen
    BY DEF Row
  <2> HIDE DEF s
  <2> QED BY <2>1, <2>2, <2>3 DEF Renews
<1> QED BY <1>1, <1>2

\* Adopting a copy takes its text and notes it; a vouched one is the app's.
LEMMA AdoptedRenews ==
  ASSUME NEW r \in Row, NEW b \in Body, NEW v, r.text \in Texts,
         clock \in Nat, TTL \in Nat
  PROVE  /\ Renews(r, adopt(r, b, v)) /\ adopt(r, b, v).text = b.text
         /\ adopt(r, b, v).seen = b
         /\ adopt(r, b, v).own = IF v THEN b ELSE r.own
<1> DEFINE e == Edited(r, b.text)
           o == IF v THEN b ELSE e.own
           s == [e EXCEPT !.seen = b, !.own = o]
<1>0. b.text \in Texts
  BY DEF Body
<1>1. e \in Row /\ Renews(r, e) /\ e.text = b.text /\ e.own = r.own
  BY <1>0, EditedRow, EditedRenews DEF Follows
<1>2. adopt(r, b, v) = s
  BY DEF adopt
<1>3. o = IF v THEN b ELSE r.own
  BY <1>1
<1> HIDE DEF e, o
<1>4. s.seen = b /\ s.own = o /\ s.rev = e.rev /\ s.text = e.text /\ s.at = e.at
  BY <1>1 DEF Row
<1> HIDE DEF s
<1> QED BY <1>1, <1>2, <1>3, <1>4 DEF Renews

\* The sweep changes the status alone.
LEMMA ExpiredSame ==
  ASSUME NEW r \in Row
  PROVE  /\ Renews(r, expireOverdue(r)) /\ expireOverdue(r).text = r.text
         /\ expireOverdue(r).rev = r.rev /\ expireOverdue(r).own = r.own
         /\ expireOverdue(r).seen = r.seen /\ expireOverdue(r).ref = r.ref
BY DEF expireOverdue, Renews, Row

\* So does any other change of status.
LEMMA StatusSame ==
  ASSUME NEW r \in Row, NEW s
  PROVE  /\ Renews(r, [r EXCEPT !.status = s]) /\ [r EXCEPT !.status = s].text = r.text
         /\ [r EXCEPT !.status = s].rev = r.rev /\ [r EXCEPT !.status = s].own = r.own
         /\ [r EXCEPT !.status = s].seen = r.seen /\ [r EXCEPT !.status = s].ref = r.ref
         /\ [r EXCEPT !.status = s].status = s
BY DEF Renews, Row

\* A schedule dropped or missed takes the time away, and nothing else.
LEMMA MissedSame ==
  ASSUME NEW r \in Row, NEW t
  PROVE  /\ Renews(r, missSchedule(r, t)) /\ missSchedule(r, t).text = r.text
         /\ Renews(r, Unscheduled(r)) /\ Unscheduled(r).text = r.text
<1> DEFINE n == clock + TTL
           m == [r EXCEPT !.at = None, !.exp = n]
           e == IF r.at = None THEN r.exp ELSE n
           u == [r EXCEPT !.at = None, !.exp = e]
<1>1. missSchedule(r, t) \in {r, m} /\ Unscheduled(r) = u
  BY DEF missSchedule, Unscheduled
<1> HIDE DEF n, e
<1>2. /\ m.rev = r.rev /\ m.text = r.text /\ m.at = None
      /\ u.rev = r.rev /\ u.text = r.text /\ u.at = None
  BY DEF Row
<1> HIDE DEF m, u
<1> QED BY <1>1, <1>2 DEF Renews

\* An operation that ends, or waits for an answer that vouches for nothing.
LEMMA Unvouched ==
  ASSUME op'.pc \notin {"write", "readback", "ready", "send", "synced"}
  PROVE  Vouched'
BY DEF Vouched

\* No operation runs any more.
LEMMA IdleTold ==
  ASSUME op' = Idle, Latest', Planned'
  PROVE  Told'
BY Unvouched DEF Told, Timed, Idle

\* The operation waits where it waited; at most the mail app changed the copy.
LEMMA OpWaits ==
  ASSUME Told, op' = op, armed' = armed, Latest', Planned',
         row'.rev = row.rev, row'.text = row.text, row'.own = row.own,
         row'.seen = row.seen, row'.ref = row.ref,
         touched' = TRUE \/ UNCHANGED <<touched, prov>>
  PROVE  Told'
<1>1. Watched' => Watched /\ prov' = prov  BY DEF Watched
<1> QED BY <1>1 DEF Told, Timed, Vouched

\* What every step knows of the row and the clock.
LEMMA RowKnown ==
  ASSUME Inv
  PROVE  /\ row \in Row /\ (row.status # "none" => row.text \in Texts)
         /\ clock \in Nat /\ TTL \in Nat
BY ClockIsNat DEF Inv, Types, RowTyped

\* An operation begins with Enter: a send that does not read the copy has no
\* copy, or no sender to read it.
LEMMA EnterTold ==
  ASSUME Inv, Told, NEW o \in Op, NEW reads \in BOOLEAN, Enter(o, reads),
         o.kind \in {"confirm", "sched"} => reads,
         o.kind = "sched" => armed = o.rev,
         armed' = armed, UNCHANGED outside
  PROVE  Told'
<1> DEFINE r == expireOverdue(row)
           w == r.ref /\ ~up
           pc == IF Mirrors /\ reads THEN "read" ELSE "synced"
           q == [o EXCEPT !.pc = pc, !.away = w]
<1>0. row \in Row /\ row.status # "none" /\ row.text \in Texts
  BY RowKnown DEF Enter
<1>1. PutRow(r) /\ row' = r /\ op' = IF r.status # "draft" THEN Idle ELSE q
  BY DEF Enter, PutRow
<1>2. Renews(row, r) /\ r.text \in Texts /\ r.ref = row.ref  BY <1>0, ExpiredSame
<1>3. pc = "synced" /\ reads => (row.ref => w)  BY <1>2 DEF Mirrors
<1>4. pc \in {"read", "synced"}  OBVIOUS
<1> HIDE DEF r, w, pc
<1>5. Latest' /\ Planned'  BY <1>1, <1>2, RenewedRow DEF Told
<1>6. CASE op' = Idle  BY <1>5, <1>6, IdleTold
<1>7. CASE op' = q
  <2>1. q.pc = pc /\ q.kind = o.kind /\ q.rev = o.rev /\ q.away = w  BY DEF Op
  <2> HIDE DEF q
  <2>2. Timed'  BY <1>7, <2>1 DEF Timed
  <2>3. q.pc = "synced" /\ q.kind \in {"confirm", "sched"} => ~Watched'
    BY <1>1, <1>2, <1>3, <1>7, <2>1 DEF Watched
  <2>4. Vouched'  BY <1>4, <1>7, <2>1, <2>3 DEF Vouched
  <2> QED BY <1>5, <2>2, <2>4 DEF Told
<1> QED BY <1>1, <1>6, <1>7

\* readAdopt: the row takes the copy's text; a vouched copy becomes the app's
\* own rendering; a copy that is no draft any more settles the row.
LEMMA ReadTold ==
  ASSUME Inv, Told, NEW v, Read(row, v), row.status # "none", armed' = armed
  PROVE  /\ Latest' /\ Planned' /\ ~touched' /\ prov' = prov
         /\ row'.ref = row.ref
         /\ prov.st = "draft" =>
              row'.seen = prov.body /\ row'.text = prov.body.text
         /\ row'.own = IF prov.st = "draft" /\ v THEN prov.body ELSE row.own
         /\ prov.st # "draft" => row'.status # "draft"
<1>1. /\ row \in Row /\ row.text \in Texts /\ clock \in Nat /\ TTL \in Nat
  BY RowKnown
<1>2. ~touched' /\ prov' = prov  BY DEF Read
<1>3. CASE prov.st = "draft"
  <2> DEFINE r == adopt(row, prov.body, v)
  <2>1. prov.body \in Body  BY <1>3 DEF Inv, Types, ProvTyped
  <2>2. /\ Renews(row, r) /\ r.text = prov.body.text /\ r.seen = prov.body
        /\ r.own = IF v THEN prov.body ELSE row.own
    BY <1>1, <2>1, AdoptedRenews
  <2>3. r.ref = row.ref  BY <1>1, <2>1, AdoptedRow
  <2>4. PutRow(r) /\ row' = r  BY <1>3 DEF Read, PutRow
  <2>5. r.text \in Texts  BY <2>1, <2>2 DEF Body
  <2> HIDE DEF r
  <2>6. Latest' /\ Planned'  BY <2>2, <2>4, <2>5, RenewedRow DEF Told
  <2> QED BY <1>2, <1>3, <2>2, <2>3, <2>4, <2>6
<1>4. CASE prov.st # "draft"
  <2>1. PICK s \in {"delivery_unknown", "sent", "discarded"} :
          PutRow([row EXCEPT !.status = s])
    BY <1>4 DEF Read, Settled
  <2> DEFINE r == [row EXCEPT !.status = s]
  <2>2. /\ Renews(row, r) /\ r.text = row.text /\ r.own = row.own
        /\ r.ref = row.ref /\ r.status = s
    BY <1>1, StatusSame
  <2>3. PutRow(r) /\ row' = r  BY <2>1 DEF PutRow
  <2> HIDE DEF r
  <2>4. Latest' /\ Planned'  BY <1>1, <2>2, <2>3, RenewedRow DEF Told
  <2> QED BY <1>2, <1>4, <2>1, <2>2, <2>3, <2>4
<1> QED BY <1>3, <1>4

\* Requests that begin an operation: send, schedule, revise.
LEMMA EnteredTold ==
  ASSUME Inv, Told,
         \/ \E rev \in Nat : confirmRow(rev)
         \/ \E rev \in Nat, t \in Nat, reads \in BOOLEAN : scheduleLocked(rev, t, reads)
         \/ \E rev \in Nat, t \in Texts : reviseLocked(rev, t)
         \/ sendDraftLocked
  PROVE  Told'
<1>1. ASSUME NEW rev \in Nat, confirmRow(rev) PROVE Told'
  <2> DEFINE o == [Idle EXCEPT !.kind = "confirm", !.rev = rev]
  <2>1. o \in Op /\ o.kind = "confirm"  BY DEF Idle, Op
  <2>2. Enter(o, TRUE) /\ armed' = armed /\ UNCHANGED outside
    BY <1>1 DEF confirmRow, Quiet
  <2> HIDE DEF o
  <2> QED BY <2>1, <2>2, EnterTold
<1>2. ASSUME NEW rev \in Nat, NEW t \in Nat, NEW reads \in BOOLEAN,
             scheduleLocked(rev, t, reads)
      PROVE Told'
  <2> DEFINE o == [Idle EXCEPT !.kind = "plan", !.rev = rev, !.at = t]
  <2>1. o \in Op /\ o.kind = "plan"  BY DEF Idle, Op
  <2>2. Enter(o, reads) /\ armed' = armed /\ UNCHANGED outside
    BY <1>2 DEF scheduleLocked, Quiet
  <2> HIDE DEF o
  <2> QED BY <2>1, <2>2, EnterTold
<1>3. ASSUME NEW rev \in Nat, NEW t \in Texts, reviseLocked(rev, t) PROVE Told'
  <2> DEFINE o == [Idle EXCEPT !.kind = "revise", !.rev = rev, !.text = t]
  <2>1. o \in Op /\ o.kind = "revise"  BY DEF Idle, Op
  <2>2. Enter(o, TRUE) /\ armed' = armed /\ UNCHANGED outside
    BY <1>3 DEF reviseLocked, Quiet
  <2> HIDE DEF o
  <2> QED BY <2>1, <2>2, EnterTold
<1>4. CASE sendDraftLocked
  <2> DEFINE o == [Idle EXCEPT !.kind = "confirm", !.rev = call, !.tool = TRUE]
  <2>0. call \in Nat  BY DEF Inv, Types, RestTyped
  <2>1. o \in Op /\ o.kind = "confirm"  BY <2>0 DEF Idle, Op
  <2>2. Enter(o, TRUE) /\ armed' = armed /\ UNCHANGED outside
    BY <1>4 DEF sendDraftLocked, Quiet
  <2> HIDE DEF o
  <2> QED BY <2>1, <2>2, EnterTold
<1> QED BY <1>1, <1>2, <1>3, <1>4

\* sendScheduled takes the revision the row has, which is the one its time was
\* asked for.
LEMMA ScheduledTold ==
  ASSUME Inv, Told, sendScheduled
  PROVE  Told'
<1>1. /\ row \in Row /\ row.status = "draft" /\ row.text \in Texts /\ op = Idle
      /\ row.at # None /\ row.at \in Nat /\ row.rev \in Nat
      /\ armed' = armed /\ UNCHANGED outside
  BY RowKnown DEF sendScheduled, Quiet, Row
<1>2. CASE PutRow(missSchedule(row, row.at)) /\ UNCHANGED op
  <2> DEFINE r == missSchedule(row, row.at)
  <2>1. Renews(row, r) /\ r.text = row.text  BY <1>1, MissedSame
  <2>2. PutRow(r)  BY <1>2
  <2> HIDE DEF r
  <2>3. Latest' /\ Planned'  BY <1>1, <2>1, <2>2, RenewedRow DEF Told
  <2> QED BY <1>1, <1>2, <2>3, IdleTold
<1>3. CASE Enter([Idle EXCEPT !.kind = "sched", !.rev = row.rev, !.at = row.at], TRUE)
  <2> DEFINE o == [Idle EXCEPT !.kind = "sched", !.rev = row.rev, !.at = row.at]
  <2>1. o \in Op /\ o.kind = "sched" /\ o.rev = row.rev  BY <1>1 DEF Idle, Op
  <2>2. Enter(o, TRUE)  BY <1>3
  <2>3. armed = row.rev  BY <1>1 DEF Told, Planned
  <2> HIDE DEF o
  <2> QED BY <1>1, <2>1, <2>2, <2>3, EnterTold
<1> QED BY <1>2, <1>3 DEF sendScheduled

\* A request that only changes the row, while no operation runs.
LEMMA RowTold ==
  ASSUME Inv, Told, unschedule \/ reopenLocked \/ \E t \in Texts, m \in Modes : draftMessage(t, m)
  PROVE  Told'
<1>0. row \in Row /\ (row.status # "none" => row.text \in Texts)  BY RowKnown
<1>1. CASE unschedule
  <2> DEFINE e == expireOverdue(row)
             r == IF e.status = "draft" THEN Unscheduled(e) ELSE e
  <2>1. /\ row.status = "draft" /\ row.text \in Texts /\ PutRow(r)
        /\ op' = Idle /\ armed' = armed
    BY <1>0, <1>1 DEF unschedule, Quiet
  <2>2. e.status = "draft" => e = row  BY <1>0 DEF expireOverdue, Row
  <2>3. Renews(row, e) /\ e.text = row.text  BY <1>0, ExpiredSame
  <2> HIDE DEF e
  <2>4. Renews(row, r) /\ r.text = row.text  BY <1>0, <2>2, <2>3, MissedSame
  <2> HIDE DEF r
  <2> QED BY <2>1, <2>4, RenewedRow, IdleTold DEF Told
<1>2. CASE reopenLocked
  <2> DEFINE v == row.rev + 1
             n == clock + TTL
             r == [row EXCEPT !.status = "draft", !.rev = v, !.at = None,
                              !.exp = n, !.retry = FALSE]
  <2>1. /\ row.text \in Texts /\ PutRow(r) /\ op' = Idle /\ armed' = armed
    BY <1>0, <1>2 DEF reopenLocked, isReopenable, Quiet
  <2>2. v = row.rev + 1  OBVIOUS
  <2> HIDE DEF v, n
  <2>3. r.rev = v /\ r.at = None /\ r.text = row.text  BY <1>0 DEF Row
  <2> HIDE DEF r
  <2>4. Renews(row, r)  BY <2>2, <2>3 DEF Renews
  <2> QED BY <2>1, <2>3, <2>4, RenewedRow, IdleTold DEF Told
<1>3. ASSUME NEW t \in Texts, NEW m \in Modes, draftMessage(t, m) PROVE Told'
  <2> DEFINE n == clock + TTL
             c == m = "chat"
             r == [NoRow EXCEPT !.status = "draft", !.rev = 1, !.text = t,
                                !.exp = n, !.chat = c]
             o == [Idle EXCEPT !.pc = "make", !.kind = "create"]
  <2>1. row.status = "none" /\ PutRow(r) /\ op' \in {o, Idle} /\ armed' = armed
    BY <1>3 DEF draftMessage, Quiet
  <2> HIDE DEF n, c
  <2>2. r.rev = 1 /\ r.at = None /\ r.text = t  BY DEF NoRow
  <2> HIDE DEF r
  <2>3. row.rev = 0  BY <2>1 DEF Inv, Types, RowTyped
  <2>4. Renews(row, r)  BY <2>2, <2>3 DEF Renews
  <2>5. Latest' /\ Planned'  BY <2>1, <2>2, <2>4, RenewedRow DEF Told
  <2>6. o.pc = "make" /\ o.kind = "create"  BY DEF Idle
  <2> HIDE DEF o
  <2>7. CASE op' = o
    <3>1. Vouched' /\ Timed'  BY <2>6, <2>7, Unvouched DEF Timed
    <3> QED BY <2>5, <3>1 DEF Told
  <2> QED BY <2>1, <2>5, <2>7, IdleTold
<1> QED BY <1>1, <1>2, <1>3

\* Discard, refresh and redraft begin without a change of the row.
LEMMA TouchTold ==
  ASSUME Inv, Told, redraft \/ \E kind \in {"discard", "refresh"} : Touch(kind)
  PROVE  Told'
<1>1. UNCHANGED <<row, shown, armed>>  BY DEF redraft, Touch, Quiet
<1>2. Latest' /\ Planned'  BY <1>1 DEF Told, Latest, Planned
<1> DEFINE Begun == /\ op'.kind \in {"discard", "refresh", "redraft"}
                    /\ op'.pc \in {"read", "synced", "remove"}
<1>3. Begun
  <2>1. CASE redraft  BY <2>1 DEF redraft, Idle
  <2>2. ASSUME NEW kind \in {"discard", "refresh"}, Touch(kind) PROVE Begun
    <3> DEFINE pc == IF Mirrors THEN "read" ELSE "synced"
    <3>1. pc \in {"read", "synced"}  OBVIOUS
    <3>2. op' = [Idle EXCEPT !.kind = kind, !.pc = pc]  BY <2>2 DEF Touch
    <3> HIDE DEF pc
    <3>3. op'.kind = kind /\ op'.pc = pc  BY <3>2 DEF Idle
    <3> QED BY <3>1, <3>3
  <2> QED BY <2>1, <2>2
<1>4. Timed' /\ Vouched'  BY <1>3 DEF Timed, Vouched
<1> QED BY <1>2, <1>4 DEF Told

\* What the lock does not cover, and a chat that asks to send, leave the
\* operation where it is.
LEMMA AsideTold ==
  ASSUME Inv, Told,
         \/ Sweep \/ SweepAgain \/ MailApp \/ SetMode \/ SenderChanges \/ TimePasses
         \/ UNCHANGED vars
         \/ \E rev \in Nat : sendDraft(rev)
  PROVE  Told'
<1>0. row \in Row /\ (row.status # "none" => row.text \in Texts)  BY RowKnown
<1>1. CASE Sweep \/ \E rev \in Nat : sendDraft(rev)
  <2> DEFINE r == expireOverdue(row)
  <2>1. /\ PutRow(r) /\ row' = r /\ op' = op /\ armed' = armed
        /\ UNCHANGED <<touched, prov>>
    BY <1>1 DEF Sweep, sendDraft, PutRow, Quiet, outside
  <2>2. row.text \in Texts
    BY <1>0, <1>1 DEF Sweep, Overdue, sendDraft, expireOverdue
  <2>3. /\ Renews(row, r) /\ r.text = row.text /\ r.rev = row.rev
        /\ r.own = row.own /\ r.seen = row.seen /\ r.ref = row.ref
    BY <1>0, ExpiredSame
  <2> HIDE DEF r
  <2>4. Latest' /\ Planned'  BY <2>1, <2>2, <2>3, RenewedRow DEF Told
  <2> QED BY <2>1, <2>3, <2>4, OpWaits
<1>2. CASE MailApp \/ SetMode \/ SenderChanges \/ TimePasses \/ UNCHANGED vars
  <2>1. /\ UNCHANGED <<row, op, shown, armed>>
        /\ touched' = TRUE \/ UNCHANGED <<touched, prov>>
    BY <1>2 DEF MailApp, MailAppEdits, MailAppSends, MailAppDeletes,
       StrayGoes, StraySent, SetMode, SenderChanges, TimePasses, Event, Kept,
       outside, vars
  <2>2. Latest' /\ Planned'  BY <2>1 DEF Told, Latest, Planned
  <2> QED BY <2>1, <2>2, OpWaits
<1>3. CASE SweepAgain
  <2> DEFINE r == [row EXCEPT !.status = "delivery_unknown"]
  <2>1. /\ row' = r /\ row.status = "sending" /\ UNCHANGED <<op, shown, armed>>
        /\ UNCHANGED outside
    BY <1>3 DEF SweepAgain, Recovered, Event
  <2>2. /\ r.text = row.text /\ r.rev = row.rev /\ r.at = row.at
        /\ r.own = row.own /\ r.seen = row.seen /\ r.ref = row.ref
    BY <1>0 DEF Row
  <2> HIDE DEF r
  <2>3. Latest' /\ Planned'  BY <2>1, <2>2, SameRow DEF Told
  <2> QED BY <2>1, <2>2, <2>3, OpWaits DEF outside
<1> QED BY <1>1, <1>2, <1>3

\* syncLocked: what goes on has adopted the copy it read.
LEMMA SyncTold ==
  ASSUME Inv, Told, SyncRead \/ SyncFails
  PROVE  Told'
<1>1. op.pc = "read" /\ armed' = armed  BY DEF SyncRead, SyncFails
<1>2. row.status # "none" /\ op \in Op
  BY <1>1, RowExists DEF Inv, Types, OpTyped
<1>3. CASE SyncRead
  <2>1. Read(row, FALSE)  BY <1>3 DEF SyncRead
  <2> DEFINE v == FALSE
  <2>2. Read(row, v)  BY <2>1
  <2> HIDE DEF v
  <2>3. /\ Latest' /\ Planned' /\ prov' = prov
        /\ prov.st = "draft" => row'.seen = prov.body /\ row'.text = prov.body.text
        /\ prov.st # "draft" => row'.status # "draft"
    BY <1>1, <1>2, <2>2, ReadTold
  <2>4. CASE row'.status = "draft" /\ op' = [op EXCEPT !.pc = "synced"]
    <3>1. op'.pc = "synced" /\ op'.kind = op.kind /\ op'.rev = op.rev
      BY <1>2, <2>4 DEF Op
    <3>2. Timed'  BY <1>1, <3>1 DEF Told, Timed
    <3>3. Vouched'  BY <2>3, <2>4, <3>1 DEF Vouched
    <3> QED BY <2>3, <3>2, <3>3 DEF Told
  <2>5. CASE op' = Idle  BY <2>3, <2>5, IdleTold
  <2> QED BY <1>3, <2>4, <2>5 DEF SyncRead
<1>4. CASE SyncFails
  <2>1. UNCHANGED <<row, shown>>  BY <1>4 DEF SyncFails
  <2>2. Latest' /\ Planned'  BY <1>1, <2>1 DEF Told, Latest, Planned
  <2>3. CASE op.kind = "discard" /\ op' = [op EXCEPT !.pc = "synced"]
    <3>1. op'.pc = "synced" /\ op'.kind = "discard"  BY <1>2, <2>3 DEF Op
    <3>2. Timed' /\ Vouched'  BY <3>1 DEF Timed, Vouched
    <3> QED BY <2>2, <3>2 DEF Told
  <2>4. CASE op' = Idle  BY <2>2, <2>4, IdleTold
  <2> QED BY <1>4, <2>3, <2>4 DEF SyncFails
<1> QED BY <1>3, <1>4

\* confirmLocked after its read: the revision is the one asked for, and a copy
\* that is sent as it is is the one the app vouches for.
LEMMA ConfirmTold ==
  ASSUME Inv, Told, ConfirmSynced
  PROVE  Told'
<1>1. /\ op.pc = "synced" /\ op.kind \in {"confirm", "sched"}
      /\ UNCHANGED <<shown, armed, outside>>
  BY DEF ConfirmSynced
<1>2. row \in Row /\ op \in Op /\ row.ref \in BOOLEAN
  BY RowKnown DEF Inv, Types, OpTyped, Row
<1>3. CASE op' = Idle /\ UNCHANGED row
  <2>1. Latest' /\ Planned'  BY <1>1, <1>3 DEF Told, Latest, Planned
  <2> QED BY <1>3, <2>1, IdleTold
<1>4. CASE /\ Still /\ row' = [row EXCEPT !.own = None]
           /\ op' = [op EXCEPT !.pc = "write", !.text = row.text]
  <2>1. /\ row'.rev = row.rev /\ row'.text = row.text /\ row'.at = row.at
        /\ row'.own = None
    BY <1>2, <1>4 DEF Row
  <2>2. op'.pc = "write" /\ op'.kind = op.kind /\ op'.rev = op.rev
    BY <1>2, <1>4 DEF Op
  <2>3. Latest' /\ Planned'  BY <1>1, <2>1, SameRow DEF Told
  <2>4. Timed'  BY <1>1, <2>2 DEF Told, Timed
  <2>5. Vouched'  BY <1>4, <2>1, <2>2 DEF Vouched, Still
  <2> QED BY <2>3, <2>4, <2>5 DEF Told
<1>5. CASE /\ Still /\ (Mirrors => row.own # None /\ row.own = row.seen)
           /\ op' = [op EXCEPT !.pc = "ready", !.away = @ \/ (row.ref /\ ~up)]
           /\ UNCHANGED row
  <2> DEFINE w == op.away \/ (row.ref /\ ~up)
  <2>1. op' = [op EXCEPT !.pc = "ready", !.away = w]  BY <1>5
  <2>2. ~w => ~op.away /\ (row.ref => Mirrors)  BY DEF Mirrors
  <2> HIDE DEF w
  <2>3. op'.pc = "ready" /\ op'.kind = op.kind /\ op'.rev = op.rev /\ op'.away = w
    BY <1>2, <2>1 DEF Op
  <2>4. Latest' /\ Planned'  BY <1>1, <1>5 DEF Told, Latest, Planned
  <2>5. Timed'  BY <1>1, <2>3 DEF Told, Timed
  <2>6. Watched' => Watched /\ Mirrors /\ prov' = prov
    BY <1>1, <1>5, <2>2, <2>3 DEF Watched, outside
  <2>7. Vouched'  BY <1>1, <1>5, <2>3, <2>6 DEF Told, Vouched, Still
  <2> QED BY <2>4, <2>5, <2>7 DEF Told
<1> QED BY <1>3, <1>4, <1>5 DEF ConfirmSynced

\* A schedule is made for the revision the row has.
LEMMA PlanTold ==
  ASSUME Inv, Told, PlanSynced
  PROVE  Told'
<1>1. op' = Idle /\ UNCHANGED shown /\ row \in Row
  BY RowKnown DEF PlanSynced
<1>2. CASE UNCHANGED <<row, armed>>
  BY <1>1, <1>2, IdleTold DEF Told, Latest, Planned
<1>3. CASE Still /\ row' = [row EXCEPT !.at = op.at] /\ armed' = op.rev
  <2>1. row'.rev = row.rev /\ row'.text = row.text  BY <1>1, <1>3 DEF Row
  <2>2. Latest' /\ Planned'
    BY <1>1, <1>3, <2>1 DEF Told, Latest, Planned, Still
  <2> QED BY <1>1, <2>2, IdleTold
<1> QED BY <1>2, <1>3 DEF PlanSynced

\* A revision: to the copy first, or a new text in the row.
LEMMA ReviseTold ==
  ASSUME Inv, Told, ReviseSynced
  PROVE  Told'
<1>1. op.pc = "synced" /\ op.kind = "revise" /\ armed' = armed
  BY DEF ReviseSynced
<1>2. row \in Row /\ op \in Op /\ op.text \in Texts
  BY <1>1, RowKnown DEF Inv, Types, OpTyped
<1>3. CASE op' = Idle /\ UNCHANGED <<row, shown>>
  BY <1>1, <1>3, IdleTold DEF Told, Latest, Planned
<1>4. CASE /\ row' = [row EXCEPT !.own = None] /\ UNCHANGED shown
           /\ op' = [op EXCEPT !.pc = "write"]
  <2>1. /\ row'.rev = row.rev /\ row'.text = row.text /\ row'.at = row.at
        /\ row'.own = None
    BY <1>2, <1>4 DEF Row
  <2>2. op'.pc = "write" /\ op'.kind = "revise"  BY <1>1, <1>2, <1>4 DEF Op
  <2>3. Latest' /\ Planned'  BY <1>1, <1>4, <2>1, SameRow DEF Told
  <2>4. Timed' /\ Vouched'  BY <2>1, <2>2 DEF Timed, Vouched
  <2> QED BY <2>3, <2>4 DEF Told
<1>5. CASE /\ PutRow(Edited(row, op.text))
           /\ op' = IF up THEN [op EXCEPT !.pc = "make"] ELSE Idle
  <2> DEFINE r == Edited(row, op.text)
  <2>1. Renews(row, r) /\ r.text = op.text  BY <1>2, EditedRenews
  <2>2. PutRow(r)  BY <1>5
  <2> HIDE DEF r
  <2>3. Latest' /\ Planned'  BY <1>1, <1>2, <2>1, <2>2, RenewedRow DEF Told
  <2>4. CASE op' = [op EXCEPT !.pc = "make"]
    <3>1. op'.pc = "make" /\ op'.kind = "revise"  BY <1>1, <1>2, <2>4 DEF Op
    <3>2. Timed' /\ Vouched'  BY <3>1 DEF Timed, Vouched
    <3> QED BY <2>3, <3>2 DEF Told
  <2> QED BY <1>5, <2>3, <2>4, IdleTold
<1> QED BY <1>3, <1>4, <1>5 DEF ReviseSynced

\* updateLocked's write, answered or not; its text is vouched for by nothing yet.
LEMMA WriteTold ==
  ASSUME Inv, Told, WriteDone \/ WriteFails
  PROVE  Told'
<1>1. op.pc = "write" /\ UNCHANGED <<row, shown, armed>> /\ op \in Op
  BY DEF WriteDone, WriteFails, Inv, Types, OpTyped
<1>2. PICK pc \in {"readback", "reread"} : op' = [op EXCEPT !.pc = pc]
  BY DEF WriteDone, WriteFails
<1>3. op'.pc = pc /\ op'.kind = op.kind /\ op'.rev = op.rev  BY <1>1, <1>2 DEF Op
<1>4. Latest' /\ Planned'  BY <1>1 DEF Told, Latest, Planned
<1>5. Timed'  BY <1>1, <1>3 DEF Told, Timed
<1>6. Vouched'  BY <1>1, <1>3 DEF Told, Vouched
<1> QED BY <1>4, <1>5, <1>6 DEF Told

\* The write's readback: a send goes on only with the copy vouched for.
LEMMA ReadBackTold ==
  ASSUME Inv, Told, ReadBack \/ ReadBackFails
  PROVE  Told'
<1>1. op.pc = "readback" /\ armed' = armed  BY DEF ReadBack, ReadBackFails
<1>2. /\ row.status # "none" /\ row \in Row /\ op \in Op /\ op.text \in Texts
  BY <1>1, RowExists, RowKnown DEF Inv, Types, OpTyped
<1>3. CASE ReadBack
  <2> DEFINE v == prov.st = "draft" /\ prov.body.text = op.text
  <2>1. Read(row, v)  BY <1>3 DEF ReadBack
  <2> HIDE DEF v
  <2>2. /\ Latest' /\ Planned' /\ prov' = prov
        /\ prov.st = "draft" => row'.text = prov.body.text
        /\ row'.own = IF prov.st = "draft" /\ v THEN prov.body ELSE row.own
    BY <1>1, <1>2, <2>1, ReadTold
  <2>3. row.own = None  BY <1>1 DEF Told, Vouched
  <2>4. CASE /\ op.kind # "revise" /\ row'.rev = row.rev /\ row'.own # None
             /\ op' = [op EXCEPT !.pc = "ready"]
    <3>1. op'.pc = "ready" /\ op'.kind = op.kind /\ op'.rev = op.rev
      BY <1>2, <2>4 DEF Op
    <3>2. row.rev = op.rev  BY <1>1, <2>4 DEF Told, Vouched
    <3>3. Timed'  BY <1>1, <3>1 DEF Told, Timed
    <3>4. Vouched'  BY <2>2, <2>3, <2>4, <3>1, <3>2 DEF Vouched
    <3> QED BY <2>2, <3>3, <3>4 DEF Told
  <2>5. CASE op' = Idle  BY <2>2, <2>5, IdleTold
  <2> QED BY <1>3, <2>4, <2>5 DEF ReadBack
<1>4. CASE ReadBackFails
  <2> DEFINE r == Edited(row, op.text)
  <2>1. Renews(row, r) /\ r.text = op.text  BY <1>2, EditedRenews
  <2>2. PutRow(r) /\ op' = Idle  BY <1>4 DEF ReadBackFails
  <2> HIDE DEF r
  <2> QED BY <1>1, <1>2, <2>1, <2>2, RenewedRow, IdleTold DEF Told
<1> QED BY <1>3, <1>4

\* What ends with a last read of the copy, or without one.
LEMMA LastReadTold ==
  ASSUME Inv, Told, ReRead \/ MakeRead
  PROVE  Told'
<1>1. op.pc \in {"reread", "makeread"} /\ armed' = armed /\ op' = Idle
  BY DEF ReRead, MakeRead
<1>2. row.status # "none"  BY <1>1, RowExists
<1>3. CASE UNCHANGED <<row, shown, outside>>
  BY <1>1, <1>3, IdleTold DEF Told, Latest, Planned
<1>4. ASSUME NEW v, Read(row, v) PROVE Told'
  BY <1>1, <1>2, <1>4, ReadTold, IdleTold
<1>5. CASE ReRead
  BY <1>3, <1>4, <1>5 DEF ReRead
<1>6. CASE MakeRead
  BY <1>3, <1>4, <1>6 DEF MakeRead
<1> QED BY <1>5, <1>6

\* A copy is made or not: neither is a send.
LEMMA MakeTold ==
  ASSUME Inv, Told, MakeDone \/ MakeFails
  PROVE  Told'
<1>1. op.pc = "make" /\ UNCHANGED <<shown, armed>> /\ row \in Row /\ op \in Op
  BY RowKnown DEF MakeDone, MakeFails, Inv, Types, OpTyped
<1>2. CASE MakeDone
  <2>1. /\ row' = [row EXCEPT !.ref = TRUE, !.seen = None, !.own = None]
        /\ op' = [op EXCEPT !.pc = "makeread"]
    BY <1>2 DEF MakeDone
  <2>2. row'.rev = row.rev /\ row'.text = row.text /\ row'.at = row.at
    BY <1>1, <2>1 DEF Row
  <2>3. op'.pc = "makeread" /\ op'.kind = op.kind /\ op'.rev = op.rev
    BY <1>1, <2>1 DEF Op
  <2>4. Latest' /\ Planned'  BY <1>1, <2>2, SameRow DEF Told
  <2>5. Timed' /\ Vouched'  BY <1>1, <2>3, Unvouched DEF Told, Timed
  <2> QED BY <2>4, <2>5 DEF Told
<1>3. CASE MakeFails
  BY <1>1, <1>3, IdleTold DEF MakeFails, Told, Latest, Planned
<1> QED BY <1>2, <1>3

\* A discard closes the row and may remove the copy.
LEMMA DiscardTold ==
  ASSUME Inv, Told, DiscardSynced \/ RemoveDone
  PROVE  Told'
<1>1. op.pc \in {"synced", "remove"} /\ armed' = armed /\ op \in Op
  BY DEF DiscardSynced, RemoveDone, Inv, Types, OpTyped
<1>2. row.status # "none" /\ row \in Row /\ row.text \in Texts
  BY <1>1, RowExists, RowKnown
<1>3. CASE UNCHANGED <<row, shown>> /\ op' = Idle
  BY <1>1, <1>3, IdleTold DEF Told, Latest, Planned
<1>4. CASE /\ op.kind = "discard" /\ PutRow([row EXCEPT !.status = "discarded"])
           /\ op' = IF Mirrors THEN [op EXCEPT !.pc = "remove"] ELSE Idle
  <2> DEFINE r == [row EXCEPT !.status = "discarded"]
  <2>1. Renews(row, r) /\ r.text = row.text  BY <1>2, StatusSame
  <2>2. PutRow(r)  BY <1>4
  <2> HIDE DEF r
  <2>3. Latest' /\ Planned'  BY <1>1, <1>2, <2>1, <2>2, RenewedRow DEF Told
  <2>4. CASE op' = [op EXCEPT !.pc = "remove"]
    <3>1. op'.pc = "remove" /\ op'.kind = "discard"  BY <1>1, <1>4, <2>4 DEF Op
    <3>2. Timed' /\ Vouched'  BY <3>1, Unvouched DEF Timed
    <3> QED BY <2>3, <3>2 DEF Told
  <2> QED BY <1>4, <2>3, <2>4, IdleTold
<1> QED BY <1>3, <1>4 DEF DiscardSynced, RemoveDone

\* The last checks and the compare-and-set of a send.
LEMMA BeginTold ==
  ASSUME Inv, Told, PrepareRefuses \/ LastCheckStops \/ BeginSend
  PROVE  Told'
<1>1. /\ op.pc = "ready" /\ op \in Op /\ armed' = armed
      /\ UNCHANGED outside
  BY DEF PrepareRefuses, LastCheckStops, BeginSend, Inv, Types, OpTyped
<1>2. row.status # "none" /\ row \in Row /\ row.text \in Texts
  BY <1>1, RowExists, RowKnown
<1>3. CASE UNCHANGED <<row, shown>> /\ op' = Idle
  BY <1>1, <1>3, IdleTold DEF Told, Latest, Planned
<1>4. CASE PutRow(missSchedule(row, op.at)) /\ op' = Idle
  <2> DEFINE r == missSchedule(row, op.at)
  <2>1. Renews(row, r) /\ r.text = row.text  BY <1>2, MissedSame
  <2>2. PutRow(r)  BY <1>4
  <2> HIDE DEF r
  <2> QED BY <1>1, <1>2, <1>4, <2>1, <2>2, RenewedRow, IdleTold DEF Told
<1>5. CASE /\ PutRow([row EXCEPT !.status = "sending"])
           /\ op' = [op EXCEPT !.pc = "send"]
  <2> DEFINE r == [row EXCEPT !.status = "sending"]
  <2>1. /\ Renews(row, r) /\ r.text = row.text /\ r.rev = row.rev
        /\ r.own = row.own /\ r.ref = row.ref
    BY <1>2, StatusSame
  <2>2. PutRow(r) /\ row' = r  BY <1>5 DEF PutRow
  <2> HIDE DEF r
  <2>3. /\ op'.pc = "send" /\ op'.kind = op.kind /\ op'.rev = op.rev
        /\ op'.away = op.away
    BY <1>1, <1>5 DEF Op
  <2>4. Latest' /\ Planned'  BY <1>1, <1>2, <2>1, <2>2, RenewedRow DEF Told
  <2>5. Timed'  BY <1>1, <2>3 DEF Told, Timed
  <2>6. Watched' => Watched /\ prov' = prov
    BY <1>1, <2>1, <2>2, <2>3 DEF Watched, outside
  <2>7. Vouched'  BY <1>1, <2>1, <2>2, <2>3, <2>6 DEF Told, Vouched
  <2> QED BY <2>4, <2>5, <2>7 DEF Told
<1> QED BY <1>3, <1>4, <1>5 DEF PrepareRefuses, LastCheckStops, BeginSend

\* The send gets its answer, which is written to the row or not.
LEMMA SettleTold ==
  ASSUME Inv, Told, Delivered \/ NotDelivered \/ Settle \/ SettleFails
  PROVE  Told'
<1>1. op.pc \in {"send", "settle"} /\ op \in Op /\ armed' = armed
  BY DEF Delivered, NotDelivered, Settle, SettleFails, Inv, Types, OpTyped
<1>2. row.status # "none" /\ row \in Row /\ row.text \in Texts
  BY <1>1, RowExists, RowKnown
<1>3. CASE Delivered \/ NotDelivered
  <2>1. UNCHANGED <<row, shown>>  BY <1>3 DEF Delivered, NotDelivered
  <2>2. PICK res \in {"sent", "rejected", "unsure"} :
          op' = [op EXCEPT !.pc = "settle", !.res = res]
    BY <1>3 DEF Delivered, NotDelivered
  <2>3. op'.pc = "settle" /\ op'.kind = op.kind /\ op'.rev = op.rev
    BY <1>1, <2>2 DEF Op
  <2>4. Latest' /\ Planned'  BY <1>1, <2>1 DEF Told, Latest, Planned
  <2>5. Timed' /\ Vouched'  BY <1>1, <2>3, Unvouched DEF Told, Timed
  <2> QED BY <2>4, <2>5 DEF Told
<1>4. CASE Settle
  <2> DEFINE w == canRetry(op.res)
             f == [row EXCEPT !.status = "failed", !.retry = w]
             s == [row EXCEPT !.status = "sent"]
  <2>1. op' = Idle /\ (PutRow(s) \/ PutRow(f) \/ PutRow(row))
    BY <1>4 DEF Settle
  <2> HIDE DEF w
  <2>2. Renews(row, f) /\ f.text = row.text  BY <1>2 DEF Renews, Row
  <2>3. Renews(row, s) /\ s.text = row.text  BY <1>2, StatusSame
  <2> HIDE DEF f, s
  <2>4. CASE PutRow(s) \/ PutRow(f)
    BY <1>1, <1>2, <2>1, <2>2, <2>3, <2>4, RenewedRow, IdleTold DEF Told
  <2>5. CASE PutRow(row)
    BY <1>1, <2>1, <2>5, SameRow, IdleTold DEF Told, PutRow
  <2> QED BY <2>1, <2>4, <2>5
<1>5. CASE SettleFails
  BY <1>1, <1>5, IdleTold DEF SettleFails, Told, Latest, Planned
<1> QED BY <1>3, <1>4, <1>5

\* A restart keeps the row's revision, text and time.
LEMMA CrashTold ==
  ASSUME Inv, Told, Crash
  PROVE  Told'
<1>1. op' = Idle /\ UNCHANGED <<shown, armed>> /\ row' \in {Recovered(row), row}
  BY DEF Crash, Event
<1>2. row \in Row  BY RowKnown
<1>3. row'.rev = row.rev /\ row'.text = row.text /\ row'.at = row.at
  BY <1>1, <1>2 DEF Recovered, Row
<1> QED BY <1>1, <1>3, SameRow, IdleTold DEF Told

\* Each step keeps it: one step of the proof per group of actions.
LEMMA StepTold ==
  ASSUME Inv, Told, [Next]_vars
  PROVE  Told'
<1>0. \A rev \in 1..row.rev : rev \in Nat
  BY DEF Inv, Types, RowTyped, Row
<1>1. CASE Begin
  <2>1. \A t \in 0..(MaxTime - Late - 1) : t \in Nat  BY BoundsAreNumbers
  <2>2. CASE unschedule \/ reopenLocked \/ \E t \in Texts, m \in Modes : draftMessage(t, m)
    BY <2>2, RowTold
  <2>3. CASE redraft \/ \E kind \in {"discard", "refresh"} : Touch(kind)
    BY <2>3, TouchTold
  <2>4. CASE \E rev \in 1..row.rev : sendDraft(rev)  BY <1>0, <2>4, AsideTold
  <2>5. CASE \E rev \in 1..row.rev : confirmRow(rev)  BY <1>0, <2>5, EnteredTold
  <2>6. CASE \E rev \in 1..row.rev, t \in Texts : reviseLocked(rev, t)
    BY <1>0, <2>6, EnteredTold
  <2>7. CASE \E rev \in 1..row.rev, t \in 0..(MaxTime - Late - 1),
                reads \in BOOLEAN : scheduleLocked(rev, t, reads)
    BY <1>0, <2>1, <2>7, EnteredTold
  <2> QED BY <1>1, <2>2, <2>3, <2>4, <2>5, <2>6, <2>7 DEF Begin
<1>2. CASE Go
  <2>1. CASE \/ SyncRead \/ SyncFails \/ ConfirmSynced \/ PlanSynced
             \/ ReviseSynced \/ DiscardSynced
    BY <2>1, SyncTold, ConfirmTold, PlanTold, ReviseTold, DiscardTold
  <2>2. CASE \/ WriteDone \/ WriteFails \/ ReadBack \/ ReadBackFails \/ ReRead
    BY <2>2, WriteTold, ReadBackTold, LastReadTold
  <2>3. CASE \/ MakeDone \/ MakeFails \/ MakeRead \/ RemoveDone
    BY <2>3, MakeTold, LastReadTold, DiscardTold
  <2>4. CASE \/ PrepareRefuses \/ LastCheckStops \/ BeginSend \/ Delivered
             \/ NotDelivered \/ Settle
    BY <2>4, BeginTold, SettleTold
  <2> QED BY <1>2, <2>1, <2>2, <2>3, <2>4 DEF Go
<1>3. CASE sendDraftLocked \/ sendScheduled \/ SettleFails
  BY <1>3, EnteredTold, ScheduledTold, SettleTold
<1>4. CASE \/ Sweep \/ SweepAgain \/ MailApp \/ SetMode \/ SenderChanges
           \/ TimePasses \/ UNCHANGED vars
  BY <1>4, AsideTold
<1>5. CASE Crash
  BY <1>5, CrashTold
<1> QED BY <1>1, <1>2, <1>3, <1>4, <1>5 DEF Next

\* Only a send under way makes the app's message leave.
LEMMA OnlySends ==
  ASSUME Inv, [Next]_vars, copies'.app > copies.app
  PROVE  op.pc = "send" /\ (row.ref => prov.st = "draft")
<1>1. copies.app \in Nat /\ copies \in [app : Nat, mail : Nat]
  BY DEF Inv, Types, ProvTyped
<1>2. copies' # copies  BY <1>1
<1>3. CASE Begin
  <2>1. UNCHANGED outside
    BY <1>3 DEF Begin, draftMessage, confirmRow, sendDraft, scheduleLocked,
       reviseLocked, Touch, unschedule, reopenLocked, redraft, Quiet
  <2> QED BY <1>2, <2>1 DEF outside
<1>4. CASE Go
  <2>1. CASE Delivered  BY <2>1 DEF Delivered
  <2>2. ASSUME ~Delivered PROVE copies' = copies
    BY <1>4, <2>2 DEF Go, SyncRead, SyncFails, ConfirmSynced, PlanSynced,
       ReviseSynced, DiscardSynced, WriteDone, WriteFails, ReadBack,
       ReadBackFails, ReRead, MakeDone, MakeFails, MakeRead, RemoveDone,
       PrepareRefuses, LastCheckStops, BeginSend, NotDelivered, Settle, Read,
       outside
  <2> QED BY <1>2, <2>1, <2>2
<1>5. CASE sendDraftLocked \/ sendScheduled \/ SettleFails \/ Sweep
  BY <1>2, <1>5 DEF sendDraftLocked, sendScheduled, SettleFails, Sweep, Quiet, outside
<1>6. CASE MailApp
  BY <1>1, <1>6 DEF MailApp, MailAppEdits, MailAppSends, MailAppDeletes,
     StrayGoes, StraySent
<1>7. CASE SetMode \/ SenderChanges \/ TimePasses \/ SweepAgain \/ UNCHANGED vars
  BY <1>2, <1>7 DEF SetMode, SenderChanges, TimePasses, SweepAgain, outside, vars
<1>8. CASE Crash
  BY <1>2, <1>8 DEF Crash
<1> QED BY <1>3, <1>4, <1>5, <1>6, <1>7, <1>8 DEF Next

\* A send is of the revision agreed to, with the copy as the app vouched for it.
LEMMA ToldSends ==
  ASSUME Inv, Told, op.pc = "send", ~touched, ~op.away,
         row.ref => prov.st = "draft"
  PROVE  IF row.ref
         THEN prov.body.text = shown[Agreed] /\ prov.body = row.own
         ELSE row.text = shown[Agreed]
<1>1. row.rev = op.rev /\ Agreed = op.rev
  BY DEF Told, Vouched, Timed, Agreed
<1>2. row.text # None  BY BoundsAreNumbers DEF Inv, Safe, Types, RowTyped
<1>3. row.text = shown[Agreed]  BY <1>1, <1>2 DEF Told, Latest
<1> QED BY <1>3 DEF Told, Vouched, Watched

\* What the app sends is the text of the revision the user agreed to, in the
\* rendering it read back from its own write (confirmLocked, ownBodyLocked,
\* sendScheduled), unless the mail app changed the copy after that read or no
\* sender was there to read it.
THEOREM SendsWhatWasShown == Spec => SentAsShown
<1>1. Init => Told
  <2>1. Init => row.text = None /\ row.at = None /\ op = Idle  BY DEF Init, NoRow
  <2>2. op = Idle => op.pc = "idle" /\ op.kind = "none"  BY DEF Idle
  <2> QED BY <2>1, <2>2 DEF Told, Latest, Planned, Timed, Vouched
<1>2. Inv /\ Told /\ [Next]_vars => Told'
  BY StepTold
<1>3. Spec => []Told
  BY <1>1, <1>2, AlwaysInv, PTL DEF Spec
<1>4. Inv /\ Told /\ [Next]_vars =>
        [copies'.app > copies.app /\ ~touched /\ ~op.away =>
           IF row.ref
           THEN prov.body.text = shown[Agreed] /\ prov.body = row.own
           ELSE row.text = shown[Agreed]]_vars
  BY OnlySends, ToldSends
<1> QED BY <1>3, <1>4, AlwaysInv, PTL DEF Spec, SentAsShown
=============================================================================
