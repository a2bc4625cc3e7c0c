------------------------------- MODULE Outbox -------------------------------
(***************************************************************************)
(* The outbound pipeline: a draft in the outbox table, its copy in the     *)
(* mail provider, and every way it is sent.  Drafts share nothing but the  *)
(* account's sending rate (SendRate), so one is modelled.                  *)
(*                                                                         *)
(* Each draft has a lock (createDraftLock): an operation on it runs from   *)
(* its first step to its last before the next one begins.  op is where  *)
(* the running operation waits for an answer; what it does between two     *)
(* answers is one step.  Only what the lock does not cover comes between:  *)
(* the expiry sweep, the user in the mail app, the clock, a restart.  A    *)
(* waiting operation keeps its arguments alone, so it needs no queue: a    *)
(* revision the caller saw is any revision the row has had.                *)
(*                                                                         *)
(* A draft's whole content (recipients, subject, body, files) is one text. *)
(* The provider's copy also has a mark: 0 while it is the app's own        *)
(* rendering, 1 once the mail app has formatted it anew.  Both together    *)
(* are what bodyHash tells apart.                                          *)
(***************************************************************************)
EXTENDS Integers, Sequences

CONSTANTS
  Texts,      \* contents of a draft
  TTL,        \* DRAFT_TTL_MS
  Late,       \* SCHEDULE_LATE_MS
  MaxTime,    \* bound on the clock
  MaxOps,     \* bound on what users and assistants ask for
  MaxEvents,  \* bound on what the mail app, the settings and crashes do
  Modes,      \* confirm modes drafts are made with: "chat", "review"
  None

ASSUME OutboxAssumption ==
  /\ {TTL, Late, MaxTime, MaxOps, MaxEvents} \subseteq Nat
  /\ Modes \subseteq {"chat", "review"}
  /\ None \notin Nat \cup Texts

VARIABLES
  row,      \* the outbox table
  op,       \* the operation that holds the draft's lock
  call,     \* send_draft calls past their checks, waiting for the lock
  prov,     \* the provider's copy the row refers to
  touched,  \* the mail app changed the copy since the app last read it
  copies,   \* messages that left: through the app, through the mail app
  strays,   \* provider drafts no row refers to, and those the user has sent
  shown,    \* the text of each revision
  armed,    \* the revision a schedule was made for
  chatOn,   \* the account is in chat mode now
  up,       \* a sender is registered for the account's source
  clock,
  ops, events

vars == <<row, op, call, prov, touched, copies, strays, shown, armed, chatOn,
          up, clock, ops, events>>
outside == <<prov, touched, copies, strays>>
bounds == <<ops, events>>

Body == [text : Texts, mark : {0, 1}]
Row == [status : {"none", "draft", "sending", "sent", "failed", "expired",
                  "discarded", "delivery_unknown"},
        rev : Nat, text : Texts \cup {None},
        ref : BOOLEAN,                  \* mirror.ref: the row has a copy
        seen : Body \cup {None},        \* mirror.seenKey
        own : Body \cup {None},         \* mirror.ownKey
        at : Nat \cup {None},           \* send_at
        exp : Nat,                      \* expires_at
        retry : BOOLEAN,                \* its error proves it was not sent
        chat : BOOLEAN]                 \* frozen confirm mode
Op == [pc : {"idle", "read", "synced", "write", "readback", "reread",
             "ready", "send", "settle", "make", "makeread", "remove"},
       kind : {"none", "confirm", "sched", "plan", "revise", "discard",
               "refresh", "create", "redraft"},
       rev : Nat, text : Texts \cup {None}, at : Nat \cup {None},
       res : {"none", "sent", "rejected", "unsure"},
       tool : BOOLEAN,                  \* asked for by send_draft
       away : BOOLEAN]                  \* no sender to check the copy with

NoRow == [status |-> "none", rev |-> 0, text |-> None, ref |-> FALSE,
          seen |-> None, own |-> None, at |-> None, exp |-> 0,
          retry |-> FALSE, chat |-> FALSE]
Idle == [pc |-> "idle", kind |-> "none", rev |-> 0, text |-> None,
         at |-> None, res |-> "none", tool |-> FALSE, away |-> FALSE]

\* Every variable keeps to its range.
TypeOK ==
  /\ row \in Row /\ op \in Op /\ call \in Nat
  /\ prov \in [st : {"none", "draft", "sent", "deleted"},
               body : Body \cup {None}]
  /\ touched \in BOOLEAN /\ copies \in [app : Nat, mail : Nat]
  /\ strays \in [live : Nat, sent : Nat]
  /\ shown \in Seq(Texts) /\ Len(shown) = row.rev /\ armed \in Nat
  /\ chatOn \in BOOLEAN /\ up \in BOOLEAN
  /\ clock \in 0..MaxTime /\ ops \in 0..MaxOps /\ events \in 0..MaxEvents

Init ==
  /\ row = NoRow /\ op = Idle /\ call = 0
  /\ prov = [st |-> "none", body |-> None] /\ touched = FALSE
  /\ copies = [app |-> 0, mail |-> 0] /\ strays = [live |-> 0, sent |-> 0]
  /\ shown = <<>> /\ armed = 0
  /\ chatOn = TRUE /\ up = TRUE
  /\ clock = 0 /\ ops = 0 /\ events = 0

-----------------------------------------------------------------------------
(* The outbox table: outbox.ts.                                            *)

\* An unscheduled draft past its wait.  One with a copy never expires.
Overdue(r) ==
  r.status = "draft" /\ r.exp =< clock /\ r.at = None /\ ~r.ref

expireOverdue(r) == IF Overdue(r) THEN [r EXCEPT !.status = "expired"] ELSE r

\* Mutant: a schedule survives the edit.
Edited_KeepsSchedule(r, t) ==
  IF t = r.text THEN r ELSE [r EXCEPT !.text = t, !.rev = @ + 1]

\* applyContent's change: a new revision, and no schedule any more.
Edited(r, t) ==
  IF t = r.text THEN r
  ELSE [r EXCEPT !.text = t, !.rev = @ + 1, !.at = None,
                 !.exp = IF r.at = None THEN @ ELSE clock + TTL]

\* The row after adopting the provider's copy b; vouched: the copy is the
\* app's own rendering as the provider holds it.
adopt(r, b, vouched) ==
  [Edited(r, b.text) EXCEPT !.seen = b, !.own = IF vouched THEN b ELSE @]

\* A schedule cleared, with a fresh wait if there was one.
Unscheduled(r) ==
  [r EXCEPT !.at = None, !.exp = IF r.at = None THEN @ ELSE clock + TTL]

missSchedule(r, t) ==
  IF r.status = "draft" /\ r.at = t
  THEN [r EXCEPT !.at = None, !.exp = clock + TTL] ELSE r

\* Mutant: a failure nobody can vouch for is tried again.
isReopenable_Any(r) == r.status \in {"expired", "failed"}

\* An expired draft, or a failure that provably never went out.
isReopenable(r) ==
  r.status = "expired" \/ (r.status = "failed" /\ r.retry)

\* What the provider's copy says: settles a row whose copy is no draft any
\* more.  Gmail cannot tell a sent draft from a deleted one.
Settled(r, st) ==
  {[r EXCEPT !.status = s] :
     s \in {"delivery_unknown",
            IF st = "sent" THEN "sent" ELSE "discarded"}}

\* Set the row; its text, when the revision is new, is what is shown.
PutRow(r) ==
  /\ row' = r
  /\ shown' = IF r.rev = row.rev THEN shown
              ELSE Append(shown, r.text)

-----------------------------------------------------------------------------
(* Operations begin: the lock is free.                                     *)

Asked == ops < MaxOps /\ ops' = ops + 1
Quiet == UNCHANGED <<outside, armed, chatOn, up, clock, events>>

\* draftsFor: the account's sender, when there is one, keeps drafts.
Mirrors == row.ref /\ up

\* Sweep, read the row, and read the provider's copy unless the caller has
\* just done that; a row that is no draft ends it.
Enter(o, reads) ==
  LET r == expireOverdue(row) IN
  /\ op = Idle /\ row.status # "none"
  /\ PutRow(r)
  /\ op' = IF r.status # "draft" THEN Idle
           ELSE [o EXCEPT !.pc = IF Mirrors /\ reads THEN "read" ELSE "synced",
                          !.away = r.ref /\ ~up]

\* draft_reply, draft_message: the row, and its copy if the account mirrors.
draftMessage(t, m) ==
  /\ row.status = "none"
  /\ m = "chat" => chatOn
  /\ PutRow([NoRow EXCEPT !.status = "draft", !.rev = 1, !.text = t,
                          !.exp = clock + TTL, !.chat = m = "chat"])
  /\ op' = IF up THEN [Idle EXCEPT !.pc = "make", !.kind = "create"] ELSE Idle
  /\ UNCHANGED <<call, ops>> /\ Quiet

\* The page's Send, the panel's Send.
confirmRow(rev) ==
  /\ Asked /\ Enter([Idle EXCEPT !.kind = "confirm", !.rev = rev], TRUE)
  /\ UNCHANGED call /\ Quiet

\* send_draft before its locks: frozen mode and live mode are both chat.
sendDraft(rev) ==
  /\ Asked /\ call = 0
  /\ expireOverdue(row).status # "none"
  /\ row.chat /\ chatOn
  /\ PutRow(expireOverdue(row))
  /\ call' = rev
  /\ UNCHANGED op /\ Quiet

\* send_draft once it holds the locks.
sendDraftLocked ==
  /\ call # 0
  /\ Enter([Idle EXCEPT !.kind = "confirm", !.rev = call, !.tool = TRUE],
           TRUE)
  /\ call' = 0
  /\ UNCHANGED ops /\ Quiet

\* Mutant: a schedule found too late is left alone.
sendScheduled_KeepsLate ==
  LET r == row IN
  /\ op = Idle /\ r.status = "draft" /\ r.at # None /\ r.at =< clock
  /\ clock - r.at =< Late /\ up
  /\ Enter([Idle EXCEPT !.kind = "sched", !.rev = r.rev, !.at = r.at], TRUE)
  /\ UNCHANGED <<call, ops>> /\ Quiet

\* The scheduler hands over a draft that listDue found.
sendScheduled ==
  LET r == row IN
  /\ op = Idle /\ r.status = "draft" /\ r.at # None /\ r.at =< clock
  /\ \/ /\ clock - r.at > Late
        /\ PutRow(missSchedule(r, r.at)) /\ UNCHANGED op
     \/ /\ clock - r.at =< Late /\ up
        /\ Enter([Idle EXCEPT !.kind = "sched", !.rev = r.rev, !.at = r.at],
                 TRUE)
  /\ UNCHANGED <<call, ops>> /\ Quiet

\* scheduleById, scheduleByToken; a batch has read its copies before.
scheduleLocked(rev, t, reads) ==
  /\ Asked /\ t > clock
  /\ Enter([Idle EXCEPT !.kind = "plan", !.rev = rev, !.at = t], reads)
  /\ UNCHANGED call /\ Quiet

\* The same with no time: the schedule is cancelled.
unschedule ==
  /\ Asked /\ op = Idle /\ row.status = "draft"
  /\ PutRow(LET r == expireOverdue(row) IN
               IF r.status = "draft" THEN Unscheduled(r) ELSE r)
  /\ UNCHANGED <<op, call>> /\ Quiet

reviseLocked(rev, t) ==
  /\ Asked
  /\ Enter([Idle EXCEPT !.kind = "revise", !.rev = rev, !.text = t], TRUE)
  /\ UNCHANGED call /\ Quiet

\* Discard and refresh do not sweep first.
Touch(kind) ==
  /\ Asked /\ op = Idle /\ row.status = "draft"
  /\ kind = "refresh" => Mirrors
  /\ op' = [Idle EXCEPT !.kind = kind,
                           !.pc = IF Mirrors THEN "read" ELSE "synced"]
  /\ UNCHANGED <<row, shown, call>> /\ Quiet

\* Mutant: the wait is not set.
reopenLocked_NoWait ==
  /\ op = Idle /\ isReopenable(row)
  /\ PutRow([row EXCEPT !.status = "draft", !.rev = @ + 1, !.at = None,
                        !.exp = None, !.retry = FALSE])
  /\ UNCHANGED <<op, call, ops>> /\ Quiet

\* Try again: reopen.
reopenLocked ==
  /\ op = Idle /\ isReopenable(row)
  /\ PutRow([row EXCEPT !.status = "draft", !.rev = @ + 1, !.at = None,
                        !.exp = clock + TTL, !.retry = FALSE])
  /\ UNCHANGED <<op, call, ops>> /\ Quiet

\* A discarded draft, or a failure that is not tried again, is written anew.
\* The new row is another draft, made as draftMessage makes one; of this one
\* only a failed row's copy changes: it goes first.
Redraftable(r) == r.status \in {"discarded", "failed"} /\ ~isReopenable(r)

redraft ==
  /\ op = Idle /\ Redraftable(row) /\ row.status = "failed" /\ Mirrors
  /\ op' = [Idle EXCEPT !.pc = "remove", !.kind = "redraft"]
  /\ UNCHANGED <<row, shown, call, ops>> /\ Quiet

-----------------------------------------------------------------------------
(* An operation goes on: its answer is in.                                 *)

Kept == UNCHANGED <<call, chatOn, up, clock, bounds>>

\* readAdopt's answer: the copy adopted (vouched as given), or the row
\* settled because the copy is no draft any more.
Read(r, vouched) ==
  /\ touched' = FALSE
  /\ UNCHANGED <<prov, copies, strays>>
  /\ IF prov.st = "draft"
     THEN PutRow(adopt(r, prov.body, vouched))
     ELSE \E s \in Settled(r, prov.st) : PutRow(s)

\* syncLocked: the provider's current draft into the row.
SyncRead ==
  /\ op.pc = "read"
  /\ Read(row, FALSE)
  /\ op' = IF row'.status = "draft" /\ op.kind # "refresh"
           THEN [op EXCEPT !.pc = "synced"] ELSE Idle
  /\ UNCHANGED armed /\ Kept

\* The provider is out of reach: only a discard goes on.
SyncFails ==
  /\ op.pc = "read"
  /\ op' = IF op.kind = "discard" THEN [op EXCEPT !.pc = "synced"] ELSE Idle
  /\ UNCHANGED <<row, shown, outside, armed>> /\ Kept

Still == row.status = "draft" /\ row.rev = op.rev

\* confirmLocked after its read, up to prepareSend: another revision than
\* the one shown ends it, and a copy that is not the app's own rendering
\* (ownBodyLocked) is written first.
ConfirmSynced ==
  /\ op.pc = "synced" /\ op.kind \in {"confirm", "sched"}
  /\ UNCHANGED <<shown, outside, armed>> /\ Kept
  /\ \/ ~Still /\ op' = Idle /\ UNCHANGED row
     \/ /\ Still /\ Mirrors
        /\ row.own = None \/ row.own # row.seen
        /\ row' = [row EXCEPT !.own = None]
        /\ op' = [op EXCEPT !.pc = "write", !.text = row.text]
     \/ /\ Still
        /\ Mirrors => row.own # None /\ row.own = row.seen
        /\ op' = [op EXCEPT !.pc = "ready", !.away = @ \/ (row.ref /\ ~up)]
        /\ UNCHANGED row

\* scheduleLocked after its read: prepareSend may refuse.
PlanSynced ==
  /\ op.pc = "synced" /\ op.kind = "plan"
  /\ op' = Idle
  /\ UNCHANGED <<shown, outside>> /\ Kept
  /\ \/ ~Still /\ UNCHANGED <<row, armed>>
     \/ Still /\ ~row.ref /\ UNCHANGED <<row, armed>>
     \/ /\ Still
        /\ row' = [row EXCEPT !.at = op.at]
        /\ armed' = op.rev

\* reviseLocked after its read: to the provider if the row has a copy, else
\* into the row, and a copy is tried again.
ReviseSynced ==
  /\ op.pc = "synced" /\ op.kind = "revise"
  /\ UNCHANGED <<outside, armed>> /\ Kept
  /\ \/ /\ ~Still \/ row.text = op.text
        /\ op' = Idle /\ UNCHANGED <<row, shown>>
     \/ /\ Still /\ row.text # op.text /\ Mirrors
        /\ row' = [row EXCEPT !.own = None]
        /\ op' = [op EXCEPT !.pc = "write"] /\ UNCHANGED shown
     \/ /\ Still /\ row.text # op.text /\ ~Mirrors
        /\ PutRow(Edited(row, op.text))
        /\ op' = IF up THEN [op EXCEPT !.pc = "make"] ELSE Idle

\* discardLocked after its read.
DiscardSynced ==
  /\ op.pc = "synced" /\ op.kind = "discard"
  /\ IF row.status = "draft"
     THEN /\ PutRow([row EXCEPT !.status = "discarded"])
          /\ op' = IF Mirrors THEN [op EXCEPT !.pc = "remove"] ELSE Idle
     ELSE UNCHANGED <<row, shown>> /\ op' = Idle
  /\ UNCHANGED <<outside, armed>> /\ Kept

\* updateLocked's write.  The provider keeps what the mail app changed in
\* other fields meanwhile, so the copy may come out as another text.
Written ==
  \E t \in IF touched THEN Texts ELSE {op.text} :
    prov' = [prov EXCEPT !.body = [text |-> t, mark |-> 0]]

WriteDone ==
  /\ op.pc = "write" /\ prov.st = "draft"
  /\ Written /\ op' = [op EXCEPT !.pc = "readback"]
  /\ UNCHANGED <<row, shown, touched, copies, strays, armed>> /\ Kept

\* It fails, applied or not; a copy that is gone cannot be written.
WriteFails ==
  /\ op.pc = "write"
  /\ \/ UNCHANGED prov
     \/ prov.st = "draft" /\ Written
  /\ op' = [op EXCEPT !.pc = "reread"]
  /\ UNCHANGED <<row, shown, touched, copies, strays, armed>> /\ Kept

\* The write's readback.  A send goes on only from the revision it was asked
\* for, with the copy vouched for.
ReadBack ==
  /\ op.pc = "readback"
  /\ Read(row, prov.st = "draft" /\ prov.body.text = op.text)
  /\ op' = IF op.kind # "revise" /\ row'.rev = row.rev /\ row'.own # None
           THEN [op EXCEPT !.pc = "ready"] ELSE Idle
  /\ UNCHANGED armed /\ Kept

\* No readback: the row takes the app's text, and nothing vouches for it.
ReadBackFails ==
  /\ op.pc = "readback"
  /\ PutRow(Edited(row, op.text))
  /\ op' = Idle
  /\ UNCHANGED <<outside, armed>> /\ Kept

\* After a failed write the row shows what the provider has, if it says.
ReRead ==
  /\ op.pc = "reread" /\ op' = Idle
  /\ \/ Read(row, FALSE)
     \/ UNCHANGED <<row, shown, outside>>
  /\ UNCHANGED armed /\ Kept

\* createLocked: the copy is the row's from here on.
MakeDone ==
  /\ op.pc = "make"
  /\ prov' = [st |-> "draft", body |-> [text |-> row.text, mark |-> 0]]
  /\ row' = [row EXCEPT !.ref = TRUE, !.seen = None, !.own = None]
  /\ op' = [op EXCEPT !.pc = "makeread"]
  /\ UNCHANGED <<shown, touched, copies, strays, armed>> /\ Kept

MadeUnknown == strays' = [strays EXCEPT !.live = @ + 1]

\* It fails or runs past its deadline: the row stays in the outbox alone.  It
\* may have been carried out all the same, now or later, or the row cannot
\* take the reference: a copy then stays that is no row's.
MakeFails ==
  /\ op.pc = "make" /\ op' = Idle
  /\ MadeUnknown \/ UNCHANGED strays
  /\ UNCHANGED <<row, shown, prov, touched, copies, armed>> /\ Kept

\* The readback of a new copy; only a draft is believed.
MakeRead ==
  /\ op.pc = "makeread" /\ op' = Idle
  /\ \/ /\ prov.st = "draft" /\ row.status = "draft"
        /\ Read(row, prov.body.text = row.text)
     \/ UNCHANGED <<row, shown, outside>>
  /\ UNCHANGED armed /\ Kept

\* removeLocked, best effort.
RemoveDone ==
  /\ op.pc = "remove" /\ op' = Idle
  /\ \/ UNCHANGED prov
     \/ prov.st = "draft" /\ prov' = [prov EXCEPT !.st = "deleted"]
  /\ UNCHANGED <<row, shown, touched, copies, strays, armed>> /\ Kept

\* prepareSend and a scheduled send's last check of its time: what refuses
\* the send leaves the row a draft.
PrepareRefuses ==
  /\ op.pc = "ready" /\ ~row.ref /\ op' = Idle
  /\ \/ UNCHANGED <<row, shown>>                \* reading the files timed out
     \/ op.kind = "sched" /\ PutRow(missSchedule(row, op.at))
  /\ UNCHANGED <<outside, armed>> /\ Kept

LastCheckStops ==
  /\ op.pc = "ready" /\ op.kind = "sched" /\ op' = Idle
  /\ \/ /\ row.at # op.at \/ clock < op.at
        /\ UNCHANGED <<row, shown>>
     \/ /\ row.at = op.at /\ clock - op.at > Late
        /\ PutRow(missSchedule(row, op.at))
  /\ UNCHANGED <<outside, armed>> /\ Kept

\* The compare-and-set: only a draft moves to sending.
BeginSend ==
  /\ op.pc = "ready"
  /\ op.kind = "sched" =>
       row.at = op.at /\ clock \in op.at..(op.at + Late)
  /\ IF row.status = "draft"
     THEN /\ PutRow([row EXCEPT !.status = "sending"])
          /\ op' = [op EXCEPT !.pc = "send"]
     ELSE UNCHANGED <<row, shown>> /\ op' = Idle
  /\ UNCHANGED <<outside, armed>> /\ Kept

\* The message leaves: the provider's draft as it is, or the row's content.
\* The answer may be lost, and then nobody can tell.
Delivered ==
  /\ op.pc = "send" /\ up
  /\ row.ref => prov.st = "draft"
  /\ copies' = [copies EXCEPT !.app = @ + 1]
  /\ prov' = IF row.ref THEN [prov EXCEPT !.st = "sent"] ELSE prov
  /\ \E res \in {"sent", "unsure"} :
       op' = [op EXCEPT !.pc = "settle", !.res = res]
  /\ UNCHANGED <<row, shown, touched, strays, armed>> /\ Kept

\* It does not leave: refused for certain, or with an error that does not
\* prove it; with no sender registered it is never tried.
NotDelivered ==
  /\ op.pc = "send"
  /\ \E res \in IF up THEN {"rejected", "unsure"} ELSE {"unsure"} :
       op' = [op EXCEPT !.pc = "settle", !.res = res]
  /\ UNCHANGED <<row, shown, outside, armed>> /\ Kept

\* shapeOutboundError: only a refusal for certain may be tried again.
canRetry(res) == res = "rejected"

\* executeSend's bookkeeping: only a row still in sending takes the result.
Settle ==
  /\ op.pc = "settle" /\ op' = Idle
  /\ PutRow(IF row.status # "sending" THEN row
            ELSE IF op.res = "sent" THEN [row EXCEPT !.status = "sent"]
            ELSE [row EXCEPT !.status = "failed", !.retry = canRetry(op.res)])
  /\ UNCHANGED <<outside, armed>> /\ Kept

\* The bookkeeping itself fails: the row stays in sending until a sweep.
SettleFails ==
  /\ op.pc = "settle" /\ events < MaxEvents /\ events' = events + 1
  /\ op' = Idle
  /\ UNCHANGED <<row, shown, outside, armed, call, chatOn, up, clock, ops>>

-----------------------------------------------------------------------------
(* What no lock covers.                                                    *)

\* expireOverdue, run for some other draft or by a listing.
Sweep ==
  /\ Overdue(row) /\ PutRow(expireOverdue(row))
  /\ UNCHANGED <<op, armed, outside>> /\ Kept

Event == /\ events < MaxEvents /\ events' = events + 1
         /\ UNCHANGED <<armed, clock, ops>>

\* The user in the mail app: edits, formats, sends or deletes the copy.
MailAppEdits ==
  /\ Event /\ prov.st = "draft"
  /\ \E b \in [text : Texts, mark : {1}] \ {prov.body} :
       prov' = [prov EXCEPT !.body = b]
  /\ touched' = TRUE
  /\ UNCHANGED <<row, op, call, copies, strays, shown, chatOn, up>>

MailAppSends ==
  /\ Event /\ prov.st = "draft"
  /\ prov' = [prov EXCEPT !.st = "sent"]
  /\ touched' = TRUE
  /\ copies' = [copies EXCEPT !.mail = @ + 1]
  /\ UNCHANGED <<row, op, call, strays, shown, chatOn, up>>

MailAppDeletes ==
  /\ Event /\ prov.st = "draft"
  /\ prov' = [prov EXCEPT !.st = "deleted"]
  /\ touched' = TRUE
  /\ UNCHANGED <<row, op, call, copies, strays, shown, chatOn, up>>

\* What becomes of a copy no row refers to: one that came late is removed
\* again by the app, the user deletes one, or sends it.
StrayGoes ==
  /\ strays.live > 0 /\ strays' = [strays EXCEPT !.live = @ - 1]
  /\ UNCHANGED <<row, op, prov, touched, copies, shown, armed>> /\ Kept

StraySent ==
  /\ Event /\ strays.live > 0
  /\ strays' = [live |-> strays.live - 1, sent |-> strays.sent + 1]
  /\ UNCHANGED <<row, op, call, prov, touched, copies, shown, chatOn, up>>

\* The user switches chat mode; an extension's sender comes and goes.
SetMode ==
  /\ Event /\ chatOn' = ~chatOn
  /\ UNCHANGED <<row, op, call, outside, shown, up>>

SenderChanges ==
  /\ Event /\ up' = ~up
  /\ UNCHANGED <<row, op, call, outside, shown, chatOn>>

TimePasses ==
  /\ clock < MaxTime /\ clock' = clock + 1
  /\ UNCHANGED <<row, op, call, outside, shown, armed, chatOn, up, bounds>>

\* Mutant: what was being sent is a draft again.
Recovered_Draft(r) ==
  IF r.status = "sending" THEN [r EXCEPT !.status = "draft"] ELSE r

\* recoverOrphanedSending: nobody knows whether it left.
Recovered(r) ==
  IF r.status = "sending" THEN [r EXCEPT !.status = "delivery_unknown"] ELSE r

\* A promotion or a fence lift runs the sweep in a process that lives, and
\* perhaps is sending: its request goes on.
SweepAgain ==
  /\ Event /\ row.status = "sending" /\ row' = Recovered(row)
  /\ UNCHANGED <<op, call, outside, shown, chatOn, up>>

\* The app dies and starts again.  A request under way may still arrive: the
\* message leaves, the copy is written, or one is made that no row knows.  The
\* sweep may fail until the next one.
Crash ==
  /\ Event
  /\ op' = Idle /\ call' = 0
  /\ \/ row' = Recovered(row)
     \/ row' = row
  /\ \/ UNCHANGED <<prov, copies, strays>>
     \/ op.pc = "make" /\ MadeUnknown /\ UNCHANGED <<prov, copies>>
     \/ /\ op.pc = "send" /\ up /\ UNCHANGED strays
        /\ row.ref => prov.st = "draft"
        /\ copies' = [copies EXCEPT !.app = @ + 1]
        /\ prov' = IF row.ref THEN [prov EXCEPT !.st = "sent"] ELSE prov
     \/ /\ op.pc = "write" /\ prov.st = "draft"
        /\ Written /\ UNCHANGED <<copies, strays>>
  /\ UNCHANGED <<touched, shown, chatOn, up>>

-----------------------------------------------------------------------------
Begin ==
  \/ \E t \in Texts, m \in Modes : draftMessage(t, m)
  \/ \E rev \in 1..row.rev : confirmRow(rev) \/ sendDraft(rev)
  \/ \E rev \in 1..row.rev, t \in 0..(MaxTime - Late - 1),
        reads \in BOOLEAN : scheduleLocked(rev, t, reads)
  \/ \E rev \in 1..row.rev, t \in Texts : reviseLocked(rev, t)
  \/ \E kind \in {"discard", "refresh"} : Touch(kind)
  \/ unschedule \/ reopenLocked \/ redraft

Go ==
  \/ SyncRead \/ SyncFails \/ ConfirmSynced \/ PlanSynced
  \/ ReviseSynced \/ DiscardSynced \/ WriteDone \/ WriteFails
  \/ ReadBack \/ ReadBackFails \/ ReRead \/ MakeDone
  \/ MakeFails \/ MakeRead \/ RemoveDone \/ PrepareRefuses
  \/ LastCheckStops \/ BeginSend \/ Delivered \/ NotDelivered
  \/ Settle

MailApp ==
  \/ MailAppEdits \/ MailAppSends \/ MailAppDeletes
  \/ StrayGoes \/ StraySent

Next ==
  \/ Begin \/ Go \/ sendDraftLocked \/ sendScheduled
  \/ SettleFails \/ Sweep \/ MailApp
  \/ SetMode \/ SenderChanges \/ TimePasses
  \/ SweepAgain \/ Crash

Spec == Init /\ [][Next]_vars

\* Provider calls are bounded (deadlines, per-attempt timeouts) and the lock
\* is first come, first served; ticks and time go on.
FairSpec ==
  /\ Spec /\ WF_vars(TimePasses)
  /\ WF_vars(Go) /\ WF_vars(sendDraftLocked) /\ WF_vars(sendScheduled)

-----------------------------------------------------------------------------
(* Properties.                                                             *)

\* At most one message leaves for a draft, whoever sends it: the app (page,
\* panel, chat, schedule, a retry after a failure, a restart or a sweep in
\* between) or the user in the mail app, from the copy the row refers to.  A
\* copy no row refers to (createLocked's answer was lost) is the user's to
\* find and send as well: strays.sent counts those, and nothing prevents them.
AtMostOnce == copies.app + copies.mail =< 1

\* Where the row says the draft stands.
Stage ==
  CASE row.status = "none" -> "unborn"
    [] row.status \in {"draft", "expired"} -> "open"
    [] row.status = "failed" /\ row.retry -> "open"
    [] row.status = "sending" -> "sending"
    [] OTHER -> "closed"

\* Where it stands, as Delivery sees it: being sent until the call that sends
\* it is over, whatever a sweep wrote into the row meanwhile.
Phase == IF op.pc \in {"send", "settle"} THEN "sending" ELSE Stage

Sender == IF copies.app > 0 THEN "app"
          ELSE IF copies.mail > 0 THEN "mail" ELSE "nobody"

D == INSTANCE Delivery WITH phase <- Phase, out <- Sender

\* The pipeline implements Delivery: a draft the app may have sent is never
\* open again, a closed draft stays closed, and no second message leaves.
Delivers == D!Spec

\* The revision the user agreed to.
Agreed == IF op.kind = "sched" THEN armed ELSE op.rev

\* What the app sends is the text of the revision the user agreed to, in the
\* rendering it read back from its own write, unless the mail app changed the
\* copy after the app's last read of it (or no sender was there to check it).
SentAsShown ==
  [][copies'.app > copies.app /\ ~touched /\ ~op.away =>
       IF row.ref
       THEN prov.body.text = shown[Agreed] /\ prov.body = row.own
       ELSE row.text = shown[Agreed]]_vars

\* A send is settled: the row leaves sending, unless the bookkeeping failed
\* (no operation holds the row any more).  A schedule is kept, missed or
\* dropped, never left behind (executeSend, sendScheduled).
DraftsSettle ==
  /\ (row.status = "sending" /\ op # Idle) ~> (op = Idle)
  /\ (row.status = "draft" /\ row.at # None)
       ~> (row.status # "draft" \/ row.at = None)

\* Turning chat mode off kills a send_draft that has not begun to send.
ChatOffKills ==
  [][row.status = "draft" /\ row'.status = "sending" /\ op.tool
       => chatOn]_vars
=============================================================================
