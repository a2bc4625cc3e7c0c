----------------------------- MODULE Replication -----------------------------
(***************************************************************************)
(* How the devices of one account copy each other's rows                   *)
(* (src/main/core/sync).  One device leads at a time; the others pull its  *)
(* rows above a two-part position.  A document is found by its own number  *)
(* (documents.seq), everything else by the number of its key in sync_rows; *)
(* both counters start at epoch * EPOCH_GAP in a new epoch, so that no     *)
(* number is ever used twice.  A leader that was led past still has rows   *)
(* numbered in its old epoch that no one saw, a follower may have skipped  *)
(* a leader, and the ledger of grants (sync_epochs) is what both are       *)
(* repaired from.                                                          *)
(*                                                                         *)
(* The transactions are the code's own: one SQLite transaction, one        *)
(* action.  Who leads is decided outside this code; the lease is modelled  *)
(* from what the code asks of it.  A row's content is its ghost version:   *)
(* the epoch of the device that wrote it, then the order of writes.        *)
(***************************************************************************)
EXTENDS Integers, FiniteSets, SequencesExt

CONSTANTS
  Devices,      \* the devices of the account
  First,        \* the device that leads first
  Docs,         \* documents: numbered by documents.seq
  Rows,         \* rows of the other copied tables: numbered by their key
  EPOCH_GAP,    \* the numbers an epoch has (10^10 in the code)
  MaxEpoch,     \* bound: the last epoch the lease grants
  MaxWrites,    \* bound: rows written
  ToldAgain,    \* bound: the devices that, demoted, are told so again
  Apart,        \* bound: what also happens while another device lacks a
                \* row of the leader's: a document updated in place, a join
  Nil

ASSUME ReplicationAssumption ==
  /\ First \in Devices
  /\ Apart \subseteq {"touch", "join"}
  /\ EPOCH_GAP \in Nat /\ MaxEpoch \in Nat /\ MaxWrites \in Nat
  /\ Docs \cap Rows = {}

Epochs == 1..MaxEpoch
Data == Docs \cup Rows
\* What sync_rows can name: a document, a row, or a grant (sync_epochs is
\* itself a copied table).
Keys == Data \cup Epochs

VARIABLES
  state,      \* sync_state of each device
  counter,    \* sqlite_sequence: the last number given by changes, sync_rows
  cell,       \* each device's copy of each document and row
  grants,     \* sync_epochs: where each leader stood when it took over
  tracked,    \* sync_rows: the number of each tracked key, 0 if none
  imported,   \* sync_imported: keys applied as a follower, not published
  stage,      \* the delta a device pulled and has not applied, or Nil
  lease,      \* outside: the last epoch granted, the head epoch, the holder
  writes      \* ghost: how many rows were written

vars == <<state, counter, cell, grants, tracked, imported, stage, lease, writes>>

-----------------------------------------------------------------------------
(* Positions and numbers. *)

Number(s, c) == [seq |-> s, cur |-> c]
Larger(a, b) == IF a > b THEN a ELSE b
Smaller(a, b) == IF a < b THEN a ELSE b
MaxOf(S) == CHOOSE x \in S \cup {0} : \A y \in S : y <= x
MinOf(S) == CHOOSE x \in S : \A y \in S : x <= y

Exists(d, k) == k \in Epochs \/ cell[d][k].there

\* The highest number of a document, and of a tracked key.
HeadOf(d) ==
  Number(MaxOf({cell[d][k].seq : k \in {j \in Docs : cell[d][j].there}}),
         MaxOf({tracked[d][k] : k \in Keys}))

Granted(d) == {e \in Epochs : grants[d][e] # Nil}

\* A ghost version: a later epoch's write outranks an earlier one's.
Version(e, n) == e * (MaxWrites + 1) + n

\* Mutant: the counter is read after it was raised.
Renumbered_Next(t, S, from) ==
  LET order == SetToSeq(S) IN
  [k \in DOMAIN t |-> IF k \in S
                      THEN from + 1 + CHOOSE i \in DOMAIN order : order[i] = k
                      ELSE t[k]]

(* The keys of S under new numbers of the counter, in some order. *)
Renumbered(t, S, from) ==
  LET order == SetToSeq(S) IN
  [k \in DOMAIN t |-> IF k \in S
                      THEN from + CHOOSE i \in DOMAIN order : order[i] = k
                      ELSE t[k]]

-----------------------------------------------------------------------------
(* A leader writes.  A new or changed document takes the next number of    *)
(* changes; an update that keeps its number, a delete and every row of the *)
(* other tables is tracked by its key.  A leader that was led past and has *)
(* not been told still writes, in its old numbering.                       *)

Leads(d) == state[d].role = "normal" /\ state[d].tracking

\* trackKey: delete then insert, so the key always gets a fresh number.
Track(d, k) ==
  /\ tracked' = [tracked EXCEPT ![d][k] = counter[d].cur + 1]
  /\ counter' = [counter EXCEPT ![d].cur = @ + 1]

Written(d, k, there, seq) ==
  /\ Leads(d) /\ writes < MaxWrites
  /\ writes' = writes + 1
  /\ cell' = [cell EXCEPT ![d][k] =
                [there |-> there, seq |-> seq,
                 ver |-> Version(state[d].epoch, writes + 1)]]
  /\ UNCHANGED <<state, grants, imported, stage, lease>>

PutDocument(d, k) ==
  /\ Written(d, k, TRUE, counter[d].seq + 1)
  /\ counter' = [counter EXCEPT ![d].seq = @ + 1]
  /\ UNCHANGED tracked

\* What o holds is at least as new as what m holds.
HasAll(o, m) == \A k \in Data : cell[o][k].ver >= cell[m][k].ver

\* An update that deliberately leaves seq alone.
TouchDocument(d, k) ==
  /\ cell[d][k].there
  /\ "touch" \in Apart \/ \A o \in Devices : cell[o][k] = cell[d][k]
  /\ Written(d, k, TRUE, cell[d][k].seq)
  /\ Track(d, k)

PutRow(d, k) == Written(d, k, TRUE, 0) /\ Track(d, k)

RemoveRow(d, k) ==
  /\ cell[d][k].there
  /\ Written(d, k, FALSE, 0)
  /\ Track(d, k)

-----------------------------------------------------------------------------
(* A follower pulls. *)

(* A follower that last applied from an older epoch is served from the     *)
(* lowest grant of the epochs it has not seen.                             *)
Rewound(m, after, fromEpoch) ==
  LET unseen == {e \in Granted(m) : e > fromEpoch} IN
  IF fromEpoch >= state[m].epoch \/ unseen = {} THEN after
  ELSE Number(Smaller(after.seq, MinOf({grants[m][e].seq : e \in unseen})),
              Smaller(after.cur, MinOf({grants[m][e].cur : e \in unseen})))

\* The grant ledger travels whole above the asker's epoch.
GrantsSent(m, from, fromEpoch) ==
  {e \in Granted(m) : tracked[m][e] > from.cur \/ e > fromEpoch}

(* buildDelta on device m for device f, from one read transaction: the     *)
(* documents above the position, the tracked keys above it (absent ones as *)
(* deletes), the grants, and the position to continue from.                *)
Delta(m, f) ==
  LET from == Rewound(m, state[f].after, state[f].epoch)
      sent == {k \in Data : tracked[m][k] > from.cur}
              \cup {k \in Docs : cell[m][k].there /\ cell[m][k].seq > from.seq}
  IN [cells  |-> [k \in sent |-> cell[m][k]],
      grants |-> [e \in GrantsSent(m, from, state[f].epoch) |-> grants[m][e]],
      target |-> Number(Larger(HeadOf(m).seq, from.seq), Larger(HeadOf(m).cur, from.cur)),
      epoch  |-> state[m].epoch]

\* The asker pulls from a device that leads an epoch as new as its own.
\* Bound: one delta is in flight; two of them are of two devices, and commute.
Pull(f, m) ==
  /\ \A d \in Devices : stage[d] = Nil
  /\ f # m /\ state[f].role = "follower"
  /\ Leads(m) /\ state[m].epoch >= state[f].epoch
  /\ stage' = [stage EXCEPT ![f] = Delta(m, f)]
  /\ UNCHANGED <<state, counter, cell, grants, tracked, imported, lease, writes>>

(* What must still reach a device that skips the leader this came from:    *)
(* kept until this device leads.  A document that moves to a higher number *)
(* is found by that number.                                                *)
Noted(f, s) ==
  {k \in DOMAIN s.cells :
     \/ ~s.cells[k].there
     \/ k \in Rows
     \/ cell[f][k].there /\ s.cells[k].seq <= cell[f][k].seq}
  \cup DOMAIN s.grants

(* applyDeltaTx: only a follower applies.                                  *)
Apply(f) ==
  /\ stage[f] # Nil /\ state[f].role = "follower"
  /\ LET s == stage[f] IN
     /\ cell' = [cell EXCEPT ![f] = [k \in Data |-> IF k \in DOMAIN s.cells
                                                   THEN s.cells[k] ELSE @[k]]]
     /\ grants' = [grants EXCEPT ![f] = [e \in Epochs |-> IF e \in DOMAIN s.grants
                                                        THEN s.grants[e] ELSE @[e]]]
     /\ imported' = [imported EXCEPT ![f] = @ \cup Noted(f, s)]
     /\ counter' = [counter EXCEPT ![f].seq =
                      MaxOf({@} \cup {s.cells[k].seq : k \in DOMAIN s.cells})]
     /\ state' = [state EXCEPT ![f].after = s.target, ![f].epoch = s.epoch]
  /\ stage' = [stage EXCEPT ![f] = Nil]
  /\ UNCHANGED <<tracked, lease, writes>>

\* The transfer fails, or the stage does not validate: nothing is written.
DropStage(f) ==
  /\ stage[f] # Nil
  /\ stage' = [stage EXCEPT ![f] = Nil]
  /\ UNCHANGED <<state, counter, cell, grants, tracked, imported, lease, writes>>

-----------------------------------------------------------------------------
(* Taking over and giving up the lead. *)

\* Mutant: the latest takeover bounds the unseen rows.
TakeoverMissed_Last(d) ==
  LET later == {e \in Granted(d) : e > state[d].pre} IN
  IF state[d].pre = Nil THEN Nil ELSE IF later = {} THEN Nil ELSE MaxOf(later)

(* The first takeover this device missed: the lowest grant above the epoch *)
(* it last led in; a device that never led uses the epoch it applied from. *)
TakeoverMissed(d) ==
  IF state[d].pre = Nil
  THEN IF state[d].epoch \in Granted(d) THEN state[d].epoch ELSE Nil
  ELSE LET later == {e \in Granted(d) : e > state[d].pre} IN
       IF later = {} THEN Nil ELSE MinOf(later)

(* The keys and documents numbered after the grant of epoch e and below    *)
(* that epoch's own range: written here and never seen by its leader.      *)
UnseenKeys(d, e) ==
  IF e = Nil THEN {}
  ELSE {k \in Keys : tracked[d][k] > grants[d][e].cur /\ tracked[d][k] < e * EPOCH_GAP}
UnseenDocs(d, e) ==
  IF e = Nil THEN {}
  ELSE {k \in Docs : /\ cell[d][k].there
                     /\ cell[d][k].seq > grants[d][e].seq
                     /\ cell[d][k].seq < e * EPOCH_GAP}

\* Numbers are never reused: a new leader counts from its epoch's range.
Raised(d, e) ==
  Number(Larger(counter[d].seq, e * EPOCH_GAP), Larger(counter[d].cur, e * EPOCH_GAP))

(* promote: the grant is the first key the new epoch tracks; then the rows *)
(* no leader saw, then what was only applied, each under new numbers.      *)
Promote(d, e, relay) ==
  LET missed  == TakeoverMissed(d)
      grant   == [tracked[d] EXCEPT ![e] = Raised(d, e).cur + 1]
      keys    == UnseenKeys(d, missed)
      docs    == UnseenDocs(d, missed)
      own     == Renumbered(grant, keys, Raised(d, e).cur + 1)
      relayed == IF relay THEN imported[d] ELSE {}
      last    == Raised(d, e).cur + 1 + Cardinality(keys)
      seqs    == Renumbered([k \in Docs |-> cell[d][k].seq], docs, Raised(d, e).seq)
  IN /\ state' = [state EXCEPT ![d] = [@ EXCEPT !.role = "normal", !.tracking = TRUE,
                                                !.epoch = e, !.pre = Nil]]
     /\ grants' = [grants EXCEPT ![d][e] = state[d].after]
     /\ tracked' = [tracked EXCEPT ![d] = Renumbered(own, relayed, last)]
     /\ cell' = [cell EXCEPT ![d] = [k \in Data |->
                   IF k \in Docs THEN [@[k] EXCEPT !.seq = seqs[k]] ELSE @[k]]]
     /\ counter' = [counter EXCEPT ![d] =
                      Number(Raised(d, e).seq + Cardinality(docs), last + Cardinality(relayed))]
     /\ imported' = [imported EXCEPT ![d] = {}]

(* lead: the lease goes to a device whose epoch is the head's, and the new *)
(* head is acknowledged before the lease moves again.  Whoever led before  *)
(* may not know.  Two devices need no relay: the other one is where the    *)
(* imported rows came from.                                                *)
Lead(d) ==
  /\ state[d].role = "follower" /\ state[d].epoch = lease.head
  /\ lease.granted < MaxEpoch
  /\ lease' = [granted |-> lease.granted + 1, head |-> lease.granted + 1, holder |-> d]
  /\ Promote(d, lease.granted + 1, Cardinality(Devices) > 2)
  /\ stage' = [stage EXCEPT ![d] = Nil]
  /\ UNCHANGED writes

(* demote: the position becomes this device's own head, and the epoch it   *)
(* led in is remembered, once, however often it is told.                   *)
Demote(d) ==
  /\ lease.holder # d
  /\ \/ state[d].role = "normal"
     \/ d \in ToldAgain /\ state[d].pre # Nil
  /\ state' = [state EXCEPT ![d] =
       [@ EXCEPT !.role = "follower", !.tracking = FALSE, !.after = HeadOf(d),
                 !.pre = IF state[d].role = "normal" THEN state[d].epoch ELSE @]]
  /\ stage' = [stage EXCEPT ![d] = Nil]
  /\ UNCHANGED <<counter, cell, grants, tracked, imported, lease, writes>>

(* A device joins by the leader's snapshot: the copied tables are the      *)
(* leader's, the local ones stay its own, and it starts at the leader's    *)
(* head and epoch (buildSnapshot, then mergeLocalTables at the next boot). *)
Join(f, m) ==
  /\ f # m /\ lease.holder = m /\ Leads(m) /\ ~Leads(f)
  /\ "join" \in Apart \/ \A o \in Devices \ {f} : HasAll(o, m)
  /\ cell' = [cell EXCEPT ![f] = cell[m]]
  /\ grants' = [grants EXCEPT ![f] = grants[m]]
  /\ counter' = [counter EXCEPT ![f].seq = Larger(@, HeadOf(m).seq)]
  /\ state' = [state EXCEPT ![f] = [role |-> "follower", tracking |-> FALSE,
                                    epoch |-> state[m].epoch, after |-> HeadOf(m), pre |-> Nil]]
  /\ stage' = [stage EXCEPT ![f] = Nil]
  /\ UNCHANGED <<tracked, imported, lease, writes>>

-----------------------------------------------------------------------------
(* The first device, which held every document and row, was seeded as the  *)
(* leader of epoch 1 (lead: the grant is tracked, sync_state keeps epoch   *)
(* 0); the others joined it.                                               *)

Init ==
  LET seed == [role |-> "normal", tracking |-> TRUE, epoch |-> 0,
               after |-> Number(0, 0), pre |-> Nil]
      all  == SetToSeq(Docs)
      seq  == [k \in Data |-> IF k \in Docs THEN CHOOSE i \in DOMAIN all : all[i] = k ELSE 0]
  IN
  /\ state = [d \in Devices |->
       IF d = First THEN seed
       ELSE [seed EXCEPT !.role = "follower", !.tracking = FALSE,
                         !.after = Number(Cardinality(Docs), 1)]]
  /\ counter = [d \in Devices |-> Number(Cardinality(Docs), IF d = First THEN 1 ELSE 0)]
  /\ cell = [d \in Devices |-> [k \in Data |-> [there |-> TRUE, seq |-> seq[k], ver |-> 0]]]
  /\ grants = [d \in Devices |-> [e \in Epochs |-> IF e = 1 THEN Number(0, 0) ELSE Nil]]
  /\ tracked = [d \in Devices |-> [k \in Keys |-> IF d = First /\ k = 1 THEN 1 ELSE 0]]
  /\ imported = [d \in Devices |-> {}]
  /\ stage = [d \in Devices |-> Nil]
  /\ lease = [granted |-> 1, head |-> 0, holder |-> First]
  /\ writes = 0

Next ==
  \E d \in Devices :
    \/ \E k \in Docs : PutDocument(d, k) \/ TouchDocument(d, k)
    \/ \E k \in Rows : PutRow(d, k)
    \/ \E k \in Data : RemoveRow(d, k)
    \/ \E m \in Devices : Pull(d, m) \/ Join(d, m)
    \/ Apply(d) \/ DropStage(d) \/ Lead(d) \/ Demote(d)

Spec == Init /\ [][Next]_vars

-----------------------------------------------------------------------------
Position == [seq : Nat, cur : Nat]
TypeOK ==
  /\ \A d \in Devices :
       /\ state[d].role \in {"normal", "follower"} /\ state[d].tracking \in BOOLEAN
       /\ state[d].epoch \in 0..MaxEpoch /\ state[d].pre \in {Nil} \cup 0..MaxEpoch
       /\ state[d].after \in Position /\ counter[d] \in Position
       /\ \A k \in Data : /\ cell[d][k].there \in BOOLEAN
                          /\ cell[d][k].seq \in Nat /\ cell[d][k].ver \in Nat
       /\ \A k \in Keys : tracked[d][k] \in 0..counter[d].cur
       /\ \A e \in Epochs : grants[d][e] \in Position \cup {Nil}
       /\ imported[d] \subseteq Keys

CaughtUp(f, m) ==
  /\ state[f].role = "follower" /\ Leads(m)
  /\ state[f].epoch = state[m].epoch
  /\ state[f].after = HeadOf(m)

(* A follower that stands at the leader's head has every row the leader    *)
(* has, as new, and knows every takeover the leader knows: no takeover,    *)
(* however many a device slept through, leaves a row that no later pull    *)
(* asks for, and the ledger travels whole, so that a device that leads     *)
(* again finds its unseen rows.                                            *)
NothingSkipped ==
  \A f, m \in Devices :
    lease.holder = m /\ CaughtUp(f, m) => HasAll(f, m) /\ grants[f] = grants[m]

=============================================================================
