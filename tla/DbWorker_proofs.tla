-------------------------- MODULE DbWorker_proofs --------------------------
(***************************************************************************)
(* Proofs about the database worker: its types, that no worker holds the   *)
(* database when close() has resolved, that a transaction of an extension  *)
(* is kept whole or not at all, that the answers callers get are true, and *)
(* that nobody is left waiting for one.                                    *)
(*                                                                         *)
(* A request is in one place at a time: parked in main, on its way to the  *)
(* worker, in the coordinator's queue, or on its way back as an answer.    *)
(* What may be said of it there is an invariant of the worker's state (s,  *)
(* as in Now), of the callers whose requests have not reached the          *)
(* coordinator (X) and of what the callers know (k).                       *)
(***************************************************************************)
EXTENDS DbWorker, SequenceTheorems, NaturalsInduction, WellFoundedInduction, TLAPS

-----------------------------------------------------------------------------
(* Queues of requests.                                                     *)

Once(q) == \A i, j \in 1..Len(q) : q[i] = q[j] => i = j

(* A request is put at the end of a queue (postMessage).                   *)
LEMMA Appended ==
  ASSUME NEW S, NEW q \in Seq(S), NEW e \in S
  PROVE  /\ Append(q, e) \in Seq(S)
         /\ \A c : Contains(Append(q, e), c) <=> Contains(q, c) \/ c = e
         /\ Once(q) /\ ~Contains(q, e) => Once(Append(q, e))
<1>1. \A c : Contains(q, c) => Contains(Append(q, e), c)  BY DEF Contains
<1>2. \A c : Contains(Append(q, e), c) => Contains(q, c) \/ c = e  BY DEF Contains
<1>3. Contains(Append(q, e), e)
  <2>1. Len(q) + 1 \in 1..Len(Append(q, e)) /\ Append(q, e)[Len(q) + 1] = e  OBVIOUS
  <2> QED  BY <2>1 DEF Contains
<1>4. Once(q) /\ ~Contains(q, e) => Once(Append(q, e))  BY DEF Once, Contains
<1> QED  BY <1>1, <1>2, <1>3, <1>4

(* The first request of a queue is taken (the message loop).               *)
LEMMA HeadTaken ==
  ASSUME NEW S, NEW q \in Seq(S), q # <<>>
  PROVE  /\ Head(q) \in S /\ Tail(q) \in Seq(S)
         /\ \A c : Contains(q, c) <=> Contains(Tail(q), c) \/ c = Head(q)
         /\ Once(q) => Once(Tail(q)) /\ ~Contains(Tail(q), Head(q))
<1>1. Head(q) = q[1] /\ 1 \in 1..Len(q) /\ Tail(q) \in Seq(S) /\ Head(q) \in S  OBVIOUS
<1>2. Len(Tail(q)) = Len(q) - 1
      /\ \A i \in 1..Len(Tail(q)) : Tail(q)[i] = q[i + 1] /\ i + 1 \in 1..Len(q)  OBVIOUS
<1>3. ASSUME NEW i \in 1..Len(q), i # 1 PROVE i - 1 \in 1..Len(Tail(q)) /\ Tail(q)[i - 1] = q[i]
  BY <1>2, <1>3
<1>4. \A c : Contains(Tail(q), c) => Contains(q, c)  BY <1>2 DEF Contains
<1>5. Contains(q, Head(q))  BY <1>1 DEF Contains
<1>6. \A c : Contains(q, c) => Contains(Tail(q), c) \/ c = Head(q)
  BY <1>1, <1>3 DEF Contains
<1>7. Once(q) => Once(Tail(q)) /\ ~Contains(Tail(q), Head(q))
  BY <1>1, <1>2 DEF Once, Contains
<1> QED  BY <1>1, <1>4, <1>5, <1>6, <1>7

(* Parked requests are posted to a new worker (respawn).                   *)
LEMMA Joined ==
  ASSUME NEW S, NEW q \in Seq(S), NEW r \in Seq(S)
  PROVE  /\ q \o r \in Seq(S)
         /\ \A c : Contains(q \o r, c) <=> Contains(q, c) \/ Contains(r, c)
         /\ Once(q) /\ Once(r) /\ (\A c : ~(Contains(q, c) /\ Contains(r, c))) => Once(q \o r)
<1>1. q \o r \in Seq(S) /\ Len(q \o r) = Len(q) + Len(r)
      /\ \A i \in 1..Len(q \o r) : (q \o r)[i] = IF i <= Len(q) THEN q[i] ELSE r[i - Len(q)]
  BY ConcatProperties
<1>2. \A c : Contains(q, c) => Contains(q \o r, c)  BY <1>1 DEF Contains
<1>3. ASSUME NEW i \in 1..Len(r) PROVE i + Len(q) \in 1..Len(q \o r) /\ (q \o r)[i + Len(q)] = r[i]
  BY <1>1
<1>4. \A c : Contains(r, c) => Contains(q \o r, c)  BY <1>3 DEF Contains
<1>5. ASSUME NEW i \in 1..Len(q \o r), i > Len(q) PROVE i - Len(q) \in 1..Len(r)  BY <1>1, <1>5
<1>6. \A c : Contains(q \o r, c) => Contains(q, c) \/ Contains(r, c)
  BY <1>1, <1>5 DEF Contains
<1>7. ASSUME Once(q), Once(r), \A c : ~(Contains(q, c) /\ Contains(r, c)),
             NEW i \in 1..Len(q \o r), NEW j \in 1..Len(q \o r), (q \o r)[i] = (q \o r)[j]
      PROVE  i = j
  <2>1. CASE i <= Len(q) /\ j <= Len(q)
    BY <1>1, <1>7, <2>1 DEF Once
  <2>2. CASE i > Len(q) /\ j > Len(q)
    <3>1. i - Len(q) \in 1..Len(r) /\ j - Len(q) \in 1..Len(r)
          /\ r[i - Len(q)] = r[j - Len(q)]  BY <1>1, <1>5, <1>7, <2>2
    <3> QED  BY <1>7, <3>1 DEF Once
  <2>3. CASE i <= Len(q) /\ j > Len(q)
    <3>1. Contains(q, q[i]) /\ Contains(r, r[j - Len(q)])  BY <1>5, <2>3 DEF Contains
    <3> QED  BY <1>1, <1>7, <2>3, <3>1
  <2>4. CASE i > Len(q) /\ j <= Len(q)
    <3>1. Contains(q, q[j]) /\ Contains(r, r[i - Len(q)])  BY <1>5, <2>4 DEF Contains
    <3> QED  BY <1>1, <1>7, <2>4, <3>1
  <2> QED  BY <2>1, <2>2, <2>3, <2>4
<1> QED  BY <1>1, <1>2, <1>4, <1>6, <1>7 DEF Once

(* The coordinator takes requests from the front of its queue (pump).      *)
LEMMA Split ==
  ASSUME NEW S, NEW q \in Seq(S), NEW n \in 0..Len(q)
  PROVE  /\ SubSeq(q, n + 1, Len(q)) \in Seq(S)
         /\ \A c : Contains(SubSeq(q, n + 1, Len(q)), c) <=> \E i \in (n + 1)..Len(q) : q[i] = c
         /\ Once(q) => Once(SubSeq(q, n + 1, Len(q)))
<1> DEFINE r == SubSeq(q, n + 1, Len(q))
<1>1. r \in Seq(S) /\ Len(r) = Len(q) - n
      /\ \A i \in 1..Len(r) : r[i] = q[i + n] /\ i + n \in (n + 1)..Len(q)
  BY SubSeqProperties
<1>2. ASSUME NEW i \in (n + 1)..Len(q) PROVE i - n \in 1..Len(r) /\ r[i - n] = q[i]
  BY <1>1
<1> HIDE DEF r
<1>3. \A c : Contains(r, c) <=> \E i \in (n + 1)..Len(q) : q[i] = c
  BY <1>1, <1>2 DEF Contains
<1>4. ASSUME Once(q), NEW i \in 1..Len(r), NEW j \in 1..Len(r), r[i] = r[j] PROVE i = j
  <2>1. i + n \in 1..Len(q) /\ j + n \in 1..Len(q) /\ q[i + n] = q[j + n]
    BY <1>1, <1>4
  <2>2. i + n = j + n  BY <1>4, <2>1 DEF Once
  <2> QED  BY <1>1, <2>2
<1>5. Once(q) => Once(r)  BY <1>4 DEF Once
<1> QED  BY <1>1, <1>3, <1>5 DEF r

(* A set of numbers has a least one.                                       *)
LEMMA LeastOf == ASSUME NEW T \in SUBSET Nat, T # {} PROVE \E n \in T : \A m \in T : n =< m
<1>1. PICK n \in T : \A m \in T : ~(<<m, n>> \in OpToRel(<, Nat))
  BY NatLessThanWellFounded, WFMin
<1>2. ASSUME NEW m \in T PROVE n =< m
  <2>1. m \in Nat /\ n \in Nat  OBVIOUS
  <2>2. ~(m < n)  BY <1>1, <2>1, Zenon DEF OpToRel
  <2> QED  BY <2>1, <2>2
<1> QED  BY <1>2

(* The requests that begin a transaction are taken out of the queue, and   *)
(* the others stay in their order (rejectQueued).                          *)
LEMMA Sifting ==
  ASSUME NEW S, NEW q \in Seq(S), NEW begin \in BOOLEAN
  PROVE  /\ Sifted(q, begin) \in Seq(S)
         /\ \A c : Contains(Sifted(q, begin), c) <=> Contains(q, c) /\ Begins(c) = begin
         /\ Once(q) => Once(Sifted(q, begin))
<1> DEFINE Good(f, n) == f = [k \in 0..n |->
                           IF k = 0 THEN <<>>
                           ELSE IF Begins(q[k]) = begin THEN Append(f[k - 1], q[k]) ELSE f[k - 1]]
           Some(n) == \E f : Good(f, n)
           N == Len(q)
<1>1. N \in Nat  OBVIOUS
<1>2. Some(0)
  <2> DEFINE g == [k \in 0..0 |-> <<>>]
  <2>1. Good(g, 0)  OBVIOUS
  <2> QED  BY <2>1
<1>3. ASSUME NEW n \in Nat, Some(n) PROVE Some(n + 1)
  <2>1. PICK f : Good(f, n)  BY <1>3
  <2> DEFINE last == IF Begins(q[n + 1]) = begin THEN Append(f[n], q[n + 1]) ELSE f[n]
             g == [k \in 0..(n + 1) |-> IF k = n + 1 THEN last ELSE f[k]]
             h == [k \in 0..(n + 1) |->
                     IF k = 0 THEN <<>>
                     ELSE IF Begins(q[k]) = begin THEN Append(g[k - 1], q[k]) ELSE g[k - 1]]
  <2>2. ASSUME NEW k \in 0..(n + 1) PROVE g[k] = h[k]
    <3>1. CASE k = n + 1
      <4>1. g[k - 1] = f[n] /\ k # 0  BY <3>1
      <4> QED  BY <3>1, <4>1
    <3>2. CASE k \in 0..n /\ k # 0
      <4>1. g[k - 1] = f[k - 1] /\ g[k] = f[k]  BY <3>2
      <4>2. f[k] = IF Begins(q[k]) = begin THEN Append(f[k - 1], q[k]) ELSE f[k - 1]
        BY <2>1, <3>2
      <4> HIDE DEF g
      <4> QED  BY <3>2, <4>1, <4>2
    <3>3. CASE k = 0
      <4>1. g[k] = f[k] /\ 0 \in 0..n  BY <3>3
      <4>2. f[k] = <<>>  BY <2>1, <3>3, <4>1
      <4> QED  BY <3>3, <4>1, <4>2
    <3> QED  BY <3>1, <3>2, <3>3
  <2>3. g = h  BY <2>2
  <2> HIDE DEF g
  <2>4. Good(g, n + 1)  BY <2>3
  <2> QED  BY <2>4
<1> HIDE DEF Some
<1>4. Some(N)
  <2> DEFINE bad == {n \in Nat : ~Some(n)}
  <2>1. CASE bad = {}
    BY <1>1, <2>1
  <2>2. CASE bad # {}
    <3>1. PICK n \in bad : \A m \in bad : n =< m  BY <2>2, LeastOf
    <3>2. n # 0  BY <1>2, <3>1
    <3>3. n - 1 \in Nat /\ n - 1 \notin bad  BY <3>1, <3>2
    <3>4. Some((n - 1) + 1)  BY <1>3, <3>3
    <3> QED  BY <3>1, <3>4
  <2> QED  BY <2>1, <2>2
<1> DEFINE f == CHOOSE f : Good(f, N)
<1>5. Good(f, N)  BY <1>4 DEF Some
<1>6. Sifted(q, begin) = f[N]  BY DEF Sifted
<1> DEFINE Right(k) == /\ f[k] \in Seq(S)
                       /\ \A c : Contains(f[k], c) <=> (\E i \in 1..k : q[i] = c) /\ Begins(c) = begin
                       /\ Once(q) => Once(f[k])
<1> HIDE DEF f
<1>7. f[0] = <<>> /\ \A k \in 1..N :
        f[k] = IF Begins(q[k]) = begin THEN Append(f[k - 1], q[k]) ELSE f[k - 1]
  <2>1. 0 \in 0..N /\ \A k \in 1..N : k \in 0..N /\ k # 0  BY <1>1
  <2> HIDE DEF N
  <2> QED  BY <1>5, <2>1
<1>8. Right(0)
  <2>1. \A c : ~Contains(<<>>, c)  BY DEF Contains
  <2>2. Once(<<>>)  BY DEF Once
  <2> QED  BY <1>7, <2>1, <2>2
<1>9. ASSUME NEW k \in 1..N, Right(k - 1) PROVE Right(k)
  <2>1. q[k] \in S /\ f[k - 1] \in Seq(S)  BY <1>9
  <2>2. \A c : (\E i \in 1..k : q[i] = c) <=> (\E i \in 1..(k - 1) : q[i] = c) \/ c = q[k]
    BY <1>1
  <2>3. CASE Begins(q[k]) = begin
    <3>1. f[k] = Append(f[k - 1], q[k])  BY <1>7, <2>3
    <3>2. /\ f[k] \in Seq(S)
          /\ \A c : Contains(f[k], c) <=> Contains(f[k - 1], c) \/ c = q[k]
          /\ Once(f[k - 1]) /\ ~Contains(f[k - 1], q[k]) => Once(f[k])
      BY <2>1, <3>1, Appended
    <3>3. \A c : Contains(f[k], c) <=> (\E i \in 1..k : q[i] = c) /\ Begins(c) = begin
      BY <1>9, <2>2, <2>3, <3>2
    <3>4. Once(q) => ~Contains(f[k - 1], q[k])  BY <1>9 DEF Once
    <3> QED  BY <1>9, <3>2, <3>3, <3>4
  <2>4. CASE ~(Begins(q[k]) = begin)
    <3>1. f[k] = f[k - 1]  BY <1>7, <2>4
    <3>2. \A c : Contains(f[k], c) <=> (\E i \in 1..k : q[i] = c) /\ Begins(c) = begin
      BY <1>9, <2>2, <2>4, <3>1
    <3> QED  BY <1>9, <3>1, <3>2
  <2> QED  BY <2>3, <2>4
<1> HIDE DEF Right
<1>10. Right(N)
  <2> DEFINE bad == {k \in 0..N : ~Right(k)}
  <2>1. CASE bad = {}
    BY <1>1, <2>1
  <2>2. CASE bad # {}
    <3>0. bad \in SUBSET Nat  BY <1>1
    <3>1. PICK k \in bad : \A m \in bad : k =< m  BY <2>2, <3>0, LeastOf
    <3>2. k # 0  BY <1>8, <3>1
    <3>3. k \in 1..N /\ k - 1 \in 0..N /\ k - 1 \notin bad  BY <3>1, <3>2
    <3>4. Right(k)  BY <1>9, <3>3
    <3> QED  BY <3>1, <3>4
  <2> QED  BY <2>1, <2>2
<1> QED  BY <1>6, <1>10 DEF Right, Contains

-----------------------------------------------------------------------------
(* What is known of the worker's state.                                    *)

HostType == [q : Seq(Callers), tx : Flows \cup {None}, native : BOOLEAN,
             pend : SUBSET (Flows \X Statements), conns : SUBSET (1..MaxHandles)]
DbType == [core : SUBSET Core, rows : SUBSET (Flows \X Statements),
           ran : SUBSET (Flows \X Statements)]
ReplyType == [to : Callers \cup {"close"}, ans : Answers]
States == [h : HostType, d : DbType, out : Seq(ReplyType), f : 0..MaxFaults]
CallType == [op : Ops, st : {"free", "sent", "done"}, ans : Answers]

\* An answer for c, or the answer a for c, is on its way.
To(out, c) == \E i \in 1..Len(out) : out[i].to = c
Tell(out, c, a) == \E i \in 1..Len(out) : out[i].to = c /\ out[i].ans = a
Single(out) == \A i, j \in 1..Len(out) : out[i].to = out[j].to /\ out[i].to \in Callers => i = j

Told(c, a, s, k) == (k[c].st = "done" /\ k[c].ans = a) \/ Tell(s.out, c, a)
Waits(c, s, X) == c \in X \/ Contains(s.h.q, c)

\* A request is in one place, and its caller waits for it.
Placed(s, X, k) ==
  /\ X \subseteq Callers /\ Once(s.h.q) /\ Single(s.out)
  /\ \A c \in Callers :
       /\ c \in X => ~Contains(s.h.q, c)
       /\ To(s.out, c) => ~Waits(c, s, X)
       /\ Waits(c, s, X) \/ To(s.out, c) => k[c].st = "sent"
       /\ Contains(s.h.q, c) => k[c].op \in {"begin", "core", "open"}

\* What is not committed is the active transaction's.
Lent(h) ==
  /\ \A p \in h.pend : p[1] = h.tx
  /\ h.tx = None => ~h.native
  /\ ~h.native => h.pend = {}

\* A transaction: before its first statement nothing of it was carried out;
\* what the file holds is all of it, and then it has asked to commit; the
\* answer to its commit is true; while it is active what it did is pending, or
\* SQLite has ended it and it was told that a statement failed.
FlowOK(c, s, X, k) ==
  LET kept == Of(c, s.d.rows)
      did == Of(c, s.d.ran)
      op == k[c].op
  IN /\ k[c].st = "free" \/ op = "begin" => did = {}
     /\ kept # {} => kept = did /\ s.h.tx # c /\ op \in {"commit", "rollback"}
     /\ op = "commit" /\ Told(c, "ok", s, k) => kept = did
     /\ op = "commit" /\ (c \in X \/ Told(c, "refused", s, k)) => kept = {}
     /\ s.h.tx = c => k[c].st # "free" /\ (op = "begin" => ~Waits(c, s, X))
     /\ s.h.tx = c /\ s.h.native => Of(c, s.h.pend) = did
     /\ s.h.tx = c /\ ~s.h.native =>
          op = "rollback" \/ (op = "exec" /\ Told(c, "refused", s, k))

\* A call of the app: its write is in the file when it is told so, and not
\* while it waits or when it was refused.
CoreOK(c, s, X, k) ==
  /\ k[c].st = "free" \/ Waits(c, s, X) \/ Told(c, "refused", s, k) => c \notin s.d.core
  /\ Told(c, "ok", s, k) => c \in s.d.core

Good(s, X, k) ==
  /\ s \in States /\ Placed(s, X, k) /\ Lent(s.h)
  /\ \A c \in Flows : Persists \/ FlowOK(c, s, X, k)
  /\ \A c \in Core : CoreOK(c, s, X, k)

(* An answer is sent (Reply).                                              *)
LEMMA Replied ==
  ASSUME NEW out \in Seq(ReplyType), NEW r \in ReplyType
  PROVE  /\ Append(out, r) \in Seq(ReplyType)
         /\ \A e : To(Append(out, r), e) <=> To(out, e) \/ e = r.to
         /\ \A e, b : Tell(Append(out, r), e, b) <=> Tell(out, e, b) \/ (e = r.to /\ b = r.ans)
         /\ Single(out) /\ (r.to \in Callers => ~To(out, r.to)) => Single(Append(out, r))
<1> DEFINE o == Append(out, r)
           c == r.to
           a == r.ans
<1>1. r.to = c /\ r.ans = a  OBVIOUS
<1>2. o \in Seq(ReplyType) /\ Len(o) = Len(out) + 1 /\ o[Len(out) + 1] = r
      /\ \A i \in 1..Len(out) : o[i] = out[i]
  BY <1>1
<1> HIDE DEF o, c, a
<1>3. \A e : To(o, e) <=> To(out, e) \/ e = c  BY <1>1, <1>2 DEF To
<1>4. \A e, b : Tell(o, e, b) <=> Tell(out, e, b) \/ (e = c /\ b = a)
  <2>1. \A e, b : Tell(o, e, b) => Tell(out, e, b) \/ (e = c /\ b = a)
    BY <1>1, <1>2 DEF Tell
  <2>2. \A e, b : Tell(out, e, b) => Tell(o, e, b)  BY <1>2 DEF Tell
  <2>3. Tell(o, c, a)  BY <1>1, <1>2 DEF Tell
  <2> QED  BY <2>1, <2>2, <2>3
<1>5. Single(out) /\ (c \in Callers => ~To(out, c)) => Single(o)
  BY <1>1, <1>2 DEF Single, To
<1> QED  BY <1>2, <1>3, <1>4, <1>5 DEF o, c, a

(* Several answers are sent (pump, rejectQueued).                          *)
LEMMA RepliedAll ==
  ASSUME NEW out \in Seq(ReplyType), NEW r \in Seq(ReplyType)
  PROVE  /\ out \o r \in Seq(ReplyType)
         /\ \A e : To(out \o r, e) <=> To(out, e) \/ To(r, e)
         /\ \A e, b : Tell(out \o r, e, b) <=> Tell(out, e, b) \/ Tell(r, e, b)
         /\ Single(out) /\ Single(r) /\ (\A e \in Callers : ~(To(out, e) /\ To(r, e)))
              => Single(out \o r)
<1> DEFINE o == out \o r
           n == Len(out)
<1>1. o \in Seq(ReplyType) /\ Len(o) = n + Len(r) /\ n \in Nat
      /\ \A i \in 1..(n + Len(r)) : o[i] = IF i <= n THEN out[i] ELSE r[i - n]
  BY ConcatProperties
<1> HIDE DEF o
<1>2. ASSUME NEW i \in 1..Len(r) PROVE i + n \in 1..Len(o) /\ o[i + n] = r[i]
  <2>1. i \in Nat /\ n \in Nat /\ i + n \in 1..(n + Len(r)) /\ ~(i + n <= n) /\ (i + n) - n = i
    BY <1>1
  <2> HIDE DEF n
  <2> QED  BY <1>1, <2>1
<1>3. ASSUME NEW i \in 1..n PROVE i \in 1..Len(o) /\ o[i] = out[i]
  BY <1>1
<1>4. ASSUME NEW i \in 1..Len(o), ~(i <= n) PROVE i - n \in 1..Len(r) /\ o[i] = r[i - n]
  BY <1>1, <1>4
<1>5. ASSUME NEW i \in 1..Len(o), i <= n PROVE i \in 1..n /\ o[i] = out[i]
  BY <1>1, <1>5
<1>6. \A e : To(o, e) <=> To(out, e) \/ To(r, e)
  <2>1. \A e : To(o, e) => To(out, e) \/ To(r, e)  BY <1>4, <1>5 DEF To
  <2>2. \A e : To(out, e) => To(o, e)  BY <1>3 DEF To
  <2>3. \A e : To(r, e) => To(o, e)  BY <1>2 DEF To
  <2> QED  BY <2>1, <2>2, <2>3
<1>7. \A e, b : Tell(o, e, b) <=> Tell(out, e, b) \/ Tell(r, e, b)
  <2>1. \A e, b : Tell(o, e, b) => Tell(out, e, b) \/ Tell(r, e, b)  BY <1>4, <1>5 DEF Tell
  <2>2. \A e, b : Tell(out, e, b) => Tell(o, e, b)  BY <1>3 DEF Tell
  <2>3. \A e, b : Tell(r, e, b) => Tell(o, e, b)  BY <1>2 DEF Tell
  <2> QED  BY <2>1, <2>2, <2>3
<1>8. ASSUME Single(out), Single(r), \A e \in Callers : ~(To(out, e) /\ To(r, e)),
             NEW i \in 1..Len(o), NEW j \in 1..Len(o), o[i].to = o[j].to, o[i].to \in Callers
      PROVE  i = j
  <2>1. CASE i <= n /\ j <= n
    BY <1>5, <1>8, <2>1 DEF Single
  <2>2. CASE ~(i <= n) /\ ~(j <= n)
    <3>1. i - n = j - n  BY <1>4, <1>8, <2>2 DEF Single
    <3> QED  BY <1>1, <3>1
  <2>3. CASE i <= n /\ ~(j <= n)
    <3>1. To(out, o[i].to)  BY <1>5, <2>3 DEF To
    <3>2. To(r, o[j].to)  BY <1>4, <2>3 DEF To
    <3> QED  BY <1>8, <3>1, <3>2
  <2>4. CASE ~(i <= n) /\ j <= n
    <3>1. To(out, o[j].to)  BY <1>5, <2>4 DEF To
    <3>2. To(r, o[i].to)  BY <1>4, <2>4 DEF To
    <3> QED  BY <1>8, <3>1, <3>2
  <2> QED  BY <2>1, <2>2, <2>3, <2>4
<1>9. Single(out) /\ Single(r) /\ (\A e \in Callers : ~(To(out, e) /\ To(r, e))) => Single(o)
  BY <1>8 DEF Single
<1> QED  BY <1>1, <1>6, <1>7, <1>9 DEF o

-----------------------------------------------------------------------------
(* What the coordinator does with a request keeps what is known.           *)

\* What callers ask for is what they may ask for.
Known(k) ==
  /\ k \in [Callers -> CallType]
  /\ \A c \in Callers :
       /\ k[c].op \in {"begin", "exec", "commit", "rollback"} => c \in Flows
       /\ k[c].op \in {"open", "release"} => c = Ext
       /\ k[c].op = "core" /\ k[c].st # "free" => c \in Core

(* A transaction that a step leaves alone stays as it was.                 *)
LEMMA FlowFrame ==
  ASSUME NEW s, NEW t, NEW X, NEW Y, NEW k, NEW c, FlowOK(c, s, X, k),
         Of(c, t.d.rows) = Of(c, s.d.rows), Of(c, t.d.ran) = Of(c, s.d.ran),
         c \in Y => c \in X, Contains(t.h.q, c) => Contains(s.h.q, c),
         \A a : Tell(t.out, c, a) <=> Tell(s.out, c, a),
         t.h.tx = c => /\ s.h.tx = c /\ t.h.native = s.h.native
                       /\ Of(c, t.h.pend) = Of(c, s.h.pend)
  PROVE  FlowOK(c, t, Y, k)
BY DEF FlowOK, Told, Waits

(* The same for a call of the app.                                         *)
LEMMA CoreFrame ==
  ASSUME NEW s, NEW t, NEW X, NEW Y, NEW k, NEW c, CoreOK(c, s, X, k),
         c \in t.d.core <=> c \in s.d.core,
         c \in Y => c \in X, Contains(t.h.q, c) => Contains(s.h.q, c),
         \A a : Tell(t.out, c, a) <=> Tell(s.out, c, a)
  PROVE  CoreOK(c, t, Y, k)
BY DEF CoreOK, Told, Waits

(* An active transaction ends and what it did is gone (clearActive).       *)
LEMMA ClearedGood ==
  ASSUME NEW s, NEW X, NEW k, Good(s, X, k)
  PROVE  /\ Good(Cleared(s), X, k) /\ Cleared(s).h.tx = None
         /\ Cleared(s).h.q = s.h.q /\ Cleared(s).h.conns = s.h.conns /\ Cleared(s).out = s.out
         /\ Cleared(s).d = s.d /\ Cleared(s).f = s.f
<1> DEFINE t == Cleared(s)
<1>1. s \in States /\ s.h \in HostType  BY DEF Good, States
<1>2. /\ t.h = [s.h EXCEPT !.tx = None, !.native = FALSE, !.pend = {}]
      /\ t.d = s.d /\ t.out = s.out /\ t.f = s.f
  BY <1>1 DEF Cleared, States
<1>3. t.h.tx = None /\ t.h.native = FALSE /\ t.h.pend = {} /\ t.h.q = s.h.q
      /\ t.h.conns = s.h.conns
  BY <1>1, <1>2 DEF HostType
<1>4. t \in States
  <2>1. t.h \in HostType  BY <1>1, <1>2 DEF HostType
  <2> QED  BY <1>1, <1>2, <2>1 DEF Cleared, States
<1> HIDE DEF t
<1>5. Placed(t, X, k)  BY <1>2, <1>3 DEF Good, Placed, Waits
<1>6. Lent(t.h)  BY <1>3 DEF Lent
<1>7. ASSUME NEW c \in Flows, ~Persists PROVE FlowOK(c, t, X, k)
  <2>1. c # None  BY DbWorkerAssumption DEF Callers
  <2>2. FlowOK(c, s, X, k)  BY <1>7 DEF Good
  <2> QED  BY <1>2, <1>3, <2>1, <2>2, FlowFrame
<1>8. ASSUME NEW c \in Core PROVE CoreOK(c, t, X, k)
  <2>1. CoreOK(c, s, X, k)  BY DEF Good
  <2> QED  BY <1>2, <1>3, <2>1, CoreFrame
<1> QED  BY <1>2, <1>3, <1>4, <1>5, <1>6, <1>7, <1>8 DEF Good, t

(* A connection is opened or closed, a failure is counted.                 *)
LEMMA OtherGood ==
  ASSUME NEW s, NEW X, NEW k, Good(s, X, k), NEW t,
         t.h \in HostType, t \in States,
         t.h.q = s.h.q, t.h.tx = s.h.tx, t.h.native = s.h.native, t.h.pend = s.h.pend,
         t.d = s.d, t.out = s.out
  PROVE  Good(t, X, k)
<1>1. Placed(t, X, k)  BY DEF Good, Placed, Waits
<1>2. Lent(t.h)  BY DEF Good, Lent
<1>3. ASSUME NEW c \in Flows, ~Persists PROVE FlowOK(c, t, X, k)
  <2>1. FlowOK(c, s, X, k)  BY <1>3 DEF Good
  <2> QED  BY <2>1, FlowFrame
<1>4. ASSUME NEW c \in Core PROVE CoreOK(c, t, X, k)
  <2>1. CoreOK(c, s, X, k)  BY DEF Good
  <2> QED  BY <2>1, CoreFrame
<1> QED  BY <1>1, <1>2, <1>3, <1>4 DEF Good

(* The transactions that wait to begin are refused (rejectQueued).         *)
LEMMA UnqueuedGood ==
  ASSUME NEW s, NEW X, Good(s, X, call), Known(call)
  PROVE  /\ Good(Unqueued(s), X, call)
         /\ Unqueued(s).h.tx = s.h.tx /\ Unqueued(s).h.conns = s.h.conns
         /\ Unqueued(s).f = s.f
<1> DEFINE t == Unqueued(s)
           q == Sifted(s.h.q, FALSE)
           gone == Sifted(s.h.q, TRUE)
<1>1. s \in States /\ s.h \in HostType /\ s.h.q \in Seq(Callers) /\ s.out \in Seq(ReplyType)
  BY DEF Good, States, HostType
<1>2. /\ q \in Seq(Callers) /\ Once(q) /\ gone \in Seq(Callers) /\ Once(gone)
      /\ \A c : Contains(q, c) <=> Contains(s.h.q, c) /\ Begins(c) = FALSE
      /\ \A c : Contains(gone, c) <=> Contains(s.h.q, c) /\ Begins(c) = TRUE
  <2>1. Once(s.h.q)  BY DEF Good, Placed
  <2>2. /\ q \in Seq(Callers) /\ Once(q)
        /\ \A c : Contains(q, c) <=> Contains(s.h.q, c) /\ Begins(c) = FALSE
    BY <1>1, <2>1, Sifting
  <2>3. /\ gone \in Seq(Callers) /\ Once(gone)
        /\ \A c : Contains(gone, c) <=> Contains(s.h.q, c) /\ Begins(c) = TRUE
    BY <1>1, <2>1, Sifting
  <2> QED  BY <2>2, <2>3
<1> HIDE DEF q, gone
<1>3. /\ t.h = [s.h EXCEPT !.q = q] /\ t.d = s.d /\ t.f = s.f
      /\ t.out = s.out \o [i \in DOMAIN gone |-> [to |-> gone[i], ans |-> "refused"]]
      /\ t = [s EXCEPT !.h.q = q, !.out = t.out]
  BY <1>1 DEF Unqueued, Refuse, States, q, gone
<1>4. t.h.q = q /\ t.h.tx = s.h.tx /\ t.h.native = s.h.native /\ t.h.pend = s.h.pend
      /\ t.h.conns = s.h.conns /\ t.h \in HostType
  BY <1>1, <1>2, <1>3 DEF HostType
<1>5. DOMAIN gone = 1..Len(gone) /\ Len(gone) \in Nat
      /\ (\A i \in 1..Len(gone) : gone[i] \in Callers)
      /\ \A c : Contains(gone, c) <=> \E i \in 1..Len(gone) : gone[i] = c
  BY <1>2 DEF Contains
<1>6. /\ t.out \in Seq(ReplyType)
      /\ \A e : To(t.out, e) <=> To(s.out, e) \/ Contains(gone, e)
      /\ \A e, b : Tell(t.out, e, b) <=> Tell(s.out, e, b) \/ (b = "refused" /\ Contains(gone, e))
      /\ Single(t.out)
  <2> DEFINE r == [i \in 1..Len(gone) |-> [to |-> gone[i], ans |-> "refused"]]
  <2>1. t.out = s.out \o r  BY <1>3, <1>5
  <2>2. r \in Seq(ReplyType) /\ Len(r) = Len(gone)
        /\ \A i \in 1..Len(gone) : r[i].to = gone[i] /\ r[i].ans = "refused"
    <3>1. \A i \in 1..Len(gone) : [to |-> gone[i], ans |-> "refused"] \in ReplyType
      BY <1>5 DEF ReplyType, Answers
    <3>2. r \in [1..Len(gone) -> ReplyType]  BY <3>1
    <3>3. r \in Seq(ReplyType) /\ Len(r) = Len(gone)  BY <1>5, <3>2
    <3> QED  BY <3>3
  <2> HIDE DEF t, r
  <2>3. \A e : To(r, e) <=> Contains(gone, e)  BY <1>5, <2>2 DEF To
  <2>4. \A e, b : Tell(r, e, b) <=> b = "refused" /\ Contains(gone, e)
    BY <1>5, <2>2 DEF Tell
  <2>5. Single(s.out) /\ Single(r)
    <3>1. Single(s.out)  BY DEF Good, Placed
    <3>2. Single(r)  BY <1>2, <2>2 DEF Single, Once
    <3> QED  BY <3>1, <3>2
  <2>6. ASSUME NEW e \in Callers, To(r, e) PROVE ~To(s.out, e)
    <3>1. Contains(s.h.q, e)  BY <1>2, <2>3, <2>6
    <3> QED  BY <3>1 DEF Good, Placed, Waits
  <2> QED  BY <1>1, <2>1, <2>2, <2>3, <2>4, <2>5, <2>6, RepliedAll
<1>7. t \in States  BY <1>1, <1>3, <1>4, <1>6 DEF States
<1> HIDE DEF t
<1>8. Placed(t, X, call)
  <2>1. Once(t.h.q) /\ X \subseteq Callers  BY <1>2, <1>4 DEF Good, Placed
  <2>2. ASSUME NEW c \in Callers
        PROVE  /\ c \in X => ~Contains(t.h.q, c)
               /\ To(t.out, c) => ~Waits(c, t, X)
               /\ Waits(c, t, X) \/ To(t.out, c) => call[c].st = "sent"
               /\ Contains(t.h.q, c) => call[c].op \in {"begin", "core", "open"}
    BY <1>2, <1>4, <1>6 DEF Good, Placed, Waits
  <2> QED  BY <1>6, <2>1, <2>2 DEF Placed
<1>9. Lent(t.h)  BY <1>4 DEF Good, Lent
<1>10. ASSUME NEW c \in Flows, ~Persists PROVE FlowOK(c, t, X, call)
  <2>1. FlowOK(c, s, X, call)  BY <1>10 DEF Good
  <2>2. CASE Contains(gone, c)
    <3>1. call[c].op = "begin" /\ Contains(s.h.q, c)  BY <1>2, <2>2 DEF Begins, Op
    <3>2. s.h.tx # c  BY <2>1, <3>1 DEF FlowOK, Waits
    <3> QED  BY <1>3, <1>4, <2>1, <3>1, <3>2 DEF FlowOK
  <2>3. CASE ~Contains(gone, c)
    BY <1>2, <1>3, <1>4, <1>6, <2>1, <2>3, FlowFrame
  <2> QED  BY <2>2, <2>3
<1>11. ASSUME NEW c \in Core PROVE CoreOK(c, t, X, call)
  <2>1. CoreOK(c, s, X, call)  BY DEF Good
  <2>2. ~Contains(gone, c)
    <3>1. c \in Callers /\ c \notin Flows  BY DbWorkerAssumption DEF Callers
    <3>2. call[c].op # "begin"  BY <3>1 DEF Known
    <3> QED  BY <1>2, <3>2 DEF Begins, Op
  <2> QED  BY <1>2, <1>3, <1>4, <1>6, <2>1, <2>2, CoreFrame
<1> QED  BY <1>3, <1>4, <1>7, <1>8, <1>9, <1>10, <1>11 DEF Good, t

(* A caller is told that its request is done, or refused (Reply).          *)
LEMMA ReplyGood ==
  ASSUME NEW s, NEW X, NEW k, Good(s, X, k), NEW c \in X, NEW a \in {"ok", "refused"},
         a = "ok" => c \notin Core /\ k[c].op # "commit",
         c \in Core => c \notin Flows
  PROVE  /\ Good(Reply(s, c, a), X \ {c}, k)
         /\ Reply(s, c, a).h = s.h /\ Reply(s, c, a).d = s.d /\ Reply(s, c, a).f = s.f
<1> DEFINE t == Reply(s, c, a)
<1>1. s \in States /\ s.out \in Seq(ReplyType) /\ c \in Callers /\ a \in Answers
  BY DEF Good, States, Placed, Answers
<1>2. t.h = s.h /\ t.d = s.d /\ t.f = s.f /\ t.out = Append(s.out, [to |-> c, ans |-> a])
      /\ t = [s EXCEPT !.out = t.out]
  BY <1>1 DEF Reply, States
<1> HIDE DEF t
<1>3. ~To(s.out, c) /\ ~Contains(s.h.q, c) /\ k[c].st = "sent" /\ \A b : ~Tell(s.out, c, b)
  BY <1>1 DEF Good, Placed, Waits, To, Tell
<1>4. /\ t.out \in Seq(ReplyType) /\ Single(t.out)
      /\ \A e : To(t.out, e) <=> To(s.out, e) \/ e = c
      /\ \A e, b : Tell(t.out, e, b) <=> Tell(s.out, e, b) \/ (e = c /\ b = a)
  <2> DEFINE r == [to |-> c, ans |-> a]
  <2>1. Single(s.out)  BY DEF Good, Placed
  <2>2. r \in ReplyType /\ r.to = c /\ r.ans = a /\ t.out = Append(s.out, r)
    BY <1>1, <1>2 DEF ReplyType
  <2> HIDE DEF r
  <2> QED  BY <1>1, <1>3, <2>1, <2>2, Replied
<1>5. t \in States  BY <1>1, <1>2, <1>4 DEF States
<1>6. Placed(t, X \ {c}, k)
  <2>1. ASSUME NEW e \in Callers
        PROVE  /\ e \in X \ {c} => ~Contains(t.h.q, e)
               /\ To(t.out, e) => ~Waits(e, t, X \ {c})
               /\ Waits(e, t, X \ {c}) \/ To(t.out, e) => k[e].st = "sent"
               /\ Contains(t.h.q, e) => k[e].op \in {"begin", "core", "open"}
    BY <1>2, <1>3, <1>4 DEF Good, Placed, Waits
  <2>2. X \ {c} \subseteq Callers /\ Once(t.h.q)  BY <1>2 DEF Good, Placed
  <2> QED  BY <1>4, <2>1, <2>2 DEF Placed
<1>7. Lent(t.h)  BY <1>2 DEF Good
<1>8. ASSUME NEW e \in Flows, ~Persists PROVE FlowOK(e, t, X \ {c}, k)
  <2>1. FlowOK(e, s, X, k)  BY <1>8 DEF Good
  <2>2. CASE e # c
    <3>1. \A b : Tell(t.out, e, b) <=> Tell(s.out, e, b)  BY <1>4, <2>2
    <3> QED  BY <1>2, <2>1, <3>1, FlowFrame
  <2>3. CASE e = c
    <3>1. c \in X /\ c \notin Core  BY <1>8, <2>3
    <3>2. \A b : Told(c, b, t, k) <=> b = a  BY <1>3, <1>4 DEF Told
    <3>3. \A b : ~Told(c, b, s, k)  BY <1>3 DEF Told
    <3>4. a = "ok" => k[c].op # "commit"  OBVIOUS
    <3> QED  BY <1>2, <1>3, <2>1, <2>3, <3>1, <3>2, <3>3, <3>4 DEF FlowOK, Waits
  <2> QED  BY <2>2, <2>3
<1>9. ASSUME NEW e \in Core PROVE CoreOK(e, t, X \ {c}, k)
  <2>1. CoreOK(e, s, X, k)  BY DEF Good
  <2>2. CASE e # c
    <3>1. \A b : Tell(t.out, e, b) <=> Tell(s.out, e, b)  BY <1>4, <2>2
    <3> QED  BY <1>2, <2>1, <3>1, CoreFrame
  <2>3. CASE e = c
    <3>1. \A b : Told(c, b, t, k) <=> b = a  BY <1>3, <1>4 DEF Told
    <3>2. a # "ok" /\ c \notin s.d.core  BY <1>9, <2>1, <2>3 DEF CoreOK, Waits
    <3> QED  BY <1>2, <2>3, <3>1, <3>2 DEF CoreOK
  <2> QED  BY <2>2, <2>3
<1> QED  BY <1>2, <1>5, <1>6, <1>7, <1>8, <1>9 DEF Good, t

\* A request without a token at the end of the coordinator's queue.
Enqueued(s, c) == [s EXCEPT !.h.q = Append(@, c)]

(* A request without a token enters the coordinator's queue (enqueue).     *)
LEMMA QueuedGood ==
  ASSUME NEW s, NEW X, NEW k, Good(s, X, k), NEW c \in X,
         k[c].op \in {"begin", "core", "open"}
  PROVE  Good(Enqueued(s, c), X \ {c}, k) /\ Enqueued(s, c).f = s.f
<1> DEFINE t == Enqueued(s, c)
<1>1. s \in States /\ s.h \in HostType /\ c \in Callers /\ s.h.q \in Seq(Callers)
  BY DEF Good, States, HostType, Placed
<1>2. t.h = [s.h EXCEPT !.q = Append(s.h.q, c)] /\ t.d = s.d /\ t.out = s.out /\ t.f = s.f
      /\ t = [s EXCEPT !.h = t.h]
  BY <1>1 DEF States, Enqueued
<1> HIDE DEF t
<1>3. t.h.q = Append(s.h.q, c) /\ t.h.tx = s.h.tx /\ t.h.native = s.h.native
      /\ t.h.pend = s.h.pend /\ t.h.conns = s.h.conns
  BY <1>1, <1>2 DEF HostType
<1>4. /\ t.h.q \in Seq(Callers) /\ Once(t.h.q)
      /\ \A e : Contains(t.h.q, e) <=> Contains(s.h.q, e) \/ e = c
  <2>1. Once(s.h.q) /\ ~Contains(s.h.q, c)  BY <1>1 DEF Good, Placed
  <2> QED  BY <1>1, <1>3, <2>1, Appended
<1>5. t \in States
  <2>1. t.h \in HostType  BY <1>1, <1>2, <1>4, <1>3 DEF HostType
  <2> QED  BY <1>1, <1>2, <2>1 DEF States
<1>6. ~To(s.out, c) /\ k[c].st = "sent" /\ \A b : ~Tell(s.out, c, b)
  BY <1>1 DEF Good, Placed, Waits, To, Tell
<1>7. Placed(t, X \ {c}, k)
  <2>1. ASSUME NEW e \in Callers
        PROVE  /\ e \in X \ {c} => ~Contains(t.h.q, e)
               /\ To(t.out, e) => ~Waits(e, t, X \ {c})
               /\ Waits(e, t, X \ {c}) \/ To(t.out, e) => k[e].st = "sent"
               /\ Contains(t.h.q, e) => k[e].op \in {"begin", "core", "open"}
    BY <1>2, <1>4, <1>6 DEF Good, Placed, Waits
  <2>2. X \ {c} \subseteq Callers /\ Single(t.out)  BY <1>2 DEF Good, Placed
  <2> QED  BY <1>4, <2>1, <2>2 DEF Placed
<1>8. Lent(t.h)  BY <1>3 DEF Good, Lent
<1>9. ASSUME NEW e \in Flows, ~Persists PROVE FlowOK(e, t, X \ {c}, k)
  <2>1. FlowOK(e, s, X, k)  BY <1>9 DEF Good
  <2>2. CASE e # c
    <3>1. Contains(t.h.q, e) => Contains(s.h.q, e)  BY <1>4, <2>2
    <3> QED  BY <1>2, <1>3, <2>1, <3>1, FlowFrame
  <2>3. CASE e = c
    <3>1. \A b : Told(c, b, t, k) <=> Told(c, b, s, k)  BY <1>2 DEF Told
    <3>2. Waits(c, t, X \ {c}) => Waits(c, s, X)  BY DEF Waits
    <3> QED  BY <1>2, <1>3, <2>1, <2>3, <3>1, <3>2 DEF FlowOK
  <2> QED  BY <2>2, <2>3
<1>10. ASSUME NEW e \in Core PROVE CoreOK(e, t, X \ {c}, k)
  <2>1. CoreOK(e, s, X, k)  BY DEF Good
  <2>2. \A b : Told(e, b, t, k) <=> Told(e, b, s, k)  BY <1>2 DEF Told
  <2>3. Waits(e, t, X \ {c}) => Waits(e, s, X)  BY <1>4 DEF Waits
  <2> QED  BY <1>2, <2>1, <2>2, <2>3 DEF CoreOK
<1> QED  BY <1>2, <1>5, <1>7, <1>8, <1>9, <1>10 DEF Good, t

(* The connection is closed to end what it has open (poisonOwner).         *)
LEMMA PoisonedGood ==
  ASSUME NEW s, NEW X, Good(s, X, call), Known(call)
  PROVE  Good(Poisoned(s), X, call) /\ Poisoned(s).h.tx = None /\ Poisoned(s).f = s.f
<1> DEFINE r == [s EXCEPT !.h.conns = @ \ {plug.h}]
           t == Cleared(r)
<1>1. s \in States /\ s.h \in HostType  BY DEF Good, States
<1>2. r.h = [s.h EXCEPT !.conns = @ \ {plug.h}] /\ r.d = s.d /\ r.out = s.out /\ r.f = s.f
      /\ r = [s EXCEPT !.h = r.h]
  BY <1>1 DEF States
<1>3. r.h \in HostType /\ r.h.q = s.h.q /\ r.h.tx = s.h.tx /\ r.h.native = s.h.native
      /\ r.h.pend = s.h.pend
  BY <1>1, <1>2 DEF HostType
<1>4. r \in States  BY <1>1, <1>2, <1>3 DEF States
<1> HIDE DEF r
<1>5. Good(r, X, call)  BY <1>2, <1>3, <1>4, OtherGood
<1>6. Good(t, X, call) /\ t.h.tx = None /\ t.f = s.f  BY <1>2, <1>5, ClearedGood
<1> HIDE DEF t
<1>7. Good(Unqueued(t), X, call) /\ Unqueued(t).h.tx = None /\ Unqueued(t).f = s.f
  BY <1>6, UnqueuedGood
<1> QED  BY <1>7 DEF Poisoned, r, t

(* A rollback, however it ends, leaves no transaction active
   (rollbackActive).                                                       *)
LEMMA RolledBackGood ==
  ASSUME NEW s, NEW X, Good(s, X, call), Known(call), NEW r \in RolledBack(s)
  PROVE  Good(r, X, call) /\ r.h.tx = None /\ s.f =< r.f
<1>0. s.f \in Nat  BY DbWorkerAssumption DEF Good, States
<1>1. CASE r = Cleared(s)  BY <1>0, <1>1, ClearedGood
<1>2. CASE r = Poisoned(s)  BY <1>0, <1>2, PoisonedGood
<1>3. CASE s.f < MaxFaults /\ r = Poisoned([s EXCEPT !.f = @ + 1])
  <2> DEFINE t == [s EXCEPT !.f = @ + 1]
  <2>1. s \in States /\ s.h \in HostType  BY DEF Good, States
  <2>2. t.h = s.h /\ t.d = s.d /\ t.out = s.out /\ t.f = s.f + 1 /\ t \in States
    BY <1>3, <2>1, DbWorkerAssumption DEF States
  <2> HIDE DEF t
  <2>3. Good(t, X, call)  BY <2>1, <2>2, OtherGood
  <2>4. Good(Poisoned(t), X, call) /\ Poisoned(t).h.tx = None /\ Poisoned(t).f = t.f
    BY <2>3, PoisonedGood
  <2> QED  BY <1>0, <1>3, <2>2, <2>4 DEF t
<1> QED  BY <1>1, <1>2, <1>3 DEF RolledBack

\* pump() takes the first n of its queue.
Ran(s, n) == {s.h.q[i] : i \in 1..n}
Begun(s, n) == \E c \in Ran(s, n) : Begins(c)
Oks(s, n) == [i \in 1..n |-> [to |-> s.h.q[i], ans |-> "ok"]]
PumpedHost(s, n) ==
  [s.h EXCEPT !.q = SubSeq(s.h.q, n + 1, Len(s.h.q)),
              !.tx = IF Begun(s, n) THEN s.h.q[n] ELSE @,
              !.native = @ \/ Begun(s, n),
              !.conns = IF Ext \in Ran(s, n) THEN @ \cup {plug.h} ELSE @]
Pumped(s, n) ==
  [s EXCEPT !.h = PumpedHost(s, n), !.d.core = @ \cup (Ran(s, n) \cap Core),
            !.out = @ \o Oks(s, n)]

(* While a transaction is active pump() takes nothing; else it goes up to  *)
(* the first request that begins one, and that is the last it takes.       *)
LEMMA PumpTakes ==
  ASSUME NEW s, s.h.q \in Seq(Callers)
  PROVE  \E n \in 0..Len(s.h.q) :
           /\ Pump(s) = Pumped(s, n)
           /\ s.h.tx # None => n = 0
           /\ s.h.tx = None => n = Len(s.h.q) \/ (n \in 1..Len(s.h.q) /\ Begins(s.h.q[n]))
           /\ \A i \in 1..n : Begins(s.h.q[i]) => i = n
<1> DEFINE q == s.h.q
           begins == {i \in DOMAIN q : Begins(q[i])}
           first == CHOOSE i \in begins : \A j \in begins : i =< j
           n == CASE s.h.tx # None -> 0
                  [] s.h.tx = None /\ begins = {} -> Len(q)
                  [] OTHER -> first
<1>1. Pump(s) = Pumped(s, n)  BY DEF Pump, Pumped, PumpedHost, Ran, Begun, Oks
<1>2. DOMAIN q = 1..Len(q) /\ Len(q) \in Nat  OBVIOUS
<1>3. CASE s.h.tx # None
  <2>1. n = 0  BY <1>3
  <2> HIDE DEF n
  <2> QED  BY <1>1, <1>2, <1>3, <2>1
<1>4. CASE s.h.tx = None /\ begins = {}
  <2>1. n = Len(q)  BY <1>4
  <2>2. \A i \in 1..Len(q) : ~Begins(q[i])  BY <1>2, <1>4
  <2> HIDE DEF n
  <2> QED  BY <1>1, <1>2, <1>4, <2>1, <2>2
<1>5. CASE s.h.tx = None /\ begins # {}
  <2>1. begins \in SUBSET Nat  BY <1>2
  <2>2. \E i \in begins : \A j \in begins : i =< j  BY <1>5, <2>1, LeastOf
  <2>3. first \in begins /\ \A j \in begins : first =< j  BY <2>2
  <2>4. n = first  BY <1>5
  <2> HIDE DEF n, first
  <2>5. first \in 1..Len(q) /\ Begins(q[first])  BY <1>2, <2>3
  <2>6. ASSUME NEW i \in 1..first, Begins(q[i]) PROVE i = first
    <3>1. i \in begins  BY <1>2, <2>5, <2>6
    <3> QED  BY <2>3, <2>5, <3>1
  <2> QED  BY <1>1, <1>2, <1>5, <2>4, <2>5, <2>6
<1> QED  BY <1>3, <1>4, <1>5

(* What pump() lets go on keeps what is known: the calls of the app are    *)
(* carried out, and a transaction that begins has nothing yet (pump).      *)
LEMMA PumpGood ==
  ASSUME NEW s, NEW X, Good(s, X, call), Known(call),
         Contains(s.h.q, Ext) => plug.h \in 1..MaxHandles
  PROVE  Good(Pump(s), X, call) /\ Pump(s).f = s.f
<1> DEFINE q == s.h.q
<1>1. s \in States /\ s.h \in HostType /\ s.d \in DbType /\ q \in Seq(Callers)
      /\ s.out \in Seq(ReplyType)
  BY DEF Good, States, HostType
<1>2. PICK n \in 0..Len(q) : /\ Pump(s) = Pumped(s, n)
                             /\ s.h.tx # None => n = 0
                             /\ \A i \in 1..n : Begins(q[i]) => i = n
  BY <1>1, PumpTakes
<1> DEFINE t == Pumped(s, n)
           ran == Ran(s, n)
           begun == Begun(s, n)
           rest == SubSeq(q, n + 1, Len(q))
           r == Oks(s, n)
<1>3. /\ t.h = PumpedHost(s, n)
      /\ t.d = [s.d EXCEPT !.core = @ \cup (ran \cap Core)]
      /\ t.out = s.out \o r /\ t.f = s.f
      /\ t = [s EXCEPT !.h = t.h, !.d = t.d, !.out = t.out]
  BY <1>1 DEF States, Pumped
<1> HIDE DEF t
<1>4. /\ t.h = [s.h EXCEPT !.q = rest, !.tx = t.h.tx, !.native = t.h.native, !.conns = t.h.conns]
      /\ t.h.q = rest /\ t.h.tx = (IF begun THEN q[n] ELSE s.h.tx)
      /\ t.h.native = (s.h.native \/ begun) /\ t.h.pend = s.h.pend
      /\ t.h.conns = (IF Ext \in ran THEN s.h.conns \cup {plug.h} ELSE s.h.conns)
      /\ t.d.core = s.d.core \cup (ran \cap Core) /\ t.d.rows = s.d.rows /\ t.d.ran = s.d.ran
  BY <1>1, <1>3 DEF HostType, DbType, PumpedHost
<1>5. \A i \in 1..n : i \in 1..Len(q) /\ q[i] \in Callers  BY <1>1
<1>6. \A c \in ran : c \in Callers /\ Contains(q, c)  BY <1>5 DEF Contains, Ran
<1>7. /\ rest \in Seq(Callers) /\ Once(rest)
      /\ \A c : Contains(rest, c) => Contains(q, c) /\ c \notin ran
  <2>1. Once(q)  BY DEF Good, Placed
  <2>2. rest \in Seq(Callers) /\ Once(rest)
        /\ \A c : Contains(rest, c) <=> \E i \in (n + 1)..Len(q) : q[i] = c
    <3> DEFINE w == q
               m == Len(w)
    <3>1. w \in Seq(Callers) /\ n \in 0..m /\ Once(w)  BY <1>1, <2>1
    <3> HIDE DEF w
    <3>2. /\ SubSeq(w, n + 1, m) \in Seq(Callers) /\ Once(SubSeq(w, n + 1, m))
          /\ \A c : Contains(SubSeq(w, n + 1, m), c) <=> \E i \in (n + 1)..m : w[i] = c
      BY <3>1, Split
    <3> QED  BY <3>2 DEF w
  <2>3. ASSUME NEW c, Contains(rest, c) PROVE Contains(q, c) /\ c \notin ran
    <3>1. PICK i \in (n + 1)..Len(q) : q[i] = c  BY <2>2, <2>3
    <3>2. i \in 1..Len(q) /\ \A j \in 1..n : j \in 1..Len(q) /\ j # i  BY <1>1
    <3> QED  BY <2>1, <3>1, <3>2 DEF Once, Contains, Ran
  <2> QED  BY <2>2, <2>3
<1>8. begun => n \in 1..Len(q) /\ q[n] \in ran /\ Begins(q[n]) /\ s.h.tx = None
               /\ \A c \in ran : Begins(c) => c = q[n]
  BY <1>2, <1>5 DEF Ran, Begun
<1>9. \A c \in ran : call[c].st = "sent" /\ call[c].op \in {"begin", "core", "open"}
                     /\ ~To(s.out, c) /\ c \notin X
  BY <1>6 DEF Good, Placed, Waits
<1>10. /\ t.out \in Seq(ReplyType) /\ Single(t.out)
       /\ \A e : To(t.out, e) <=> To(s.out, e) \/ e \in ran
       /\ \A e, b : Tell(t.out, e, b) <=> Tell(s.out, e, b) \/ (b = "ok" /\ e \in ran)
  <2>1. r \in Seq(ReplyType) /\ Len(r) = n /\ \A i \in 1..n : r[i].to = q[i] /\ r[i].ans = "ok"
    <3>1. \A i \in 1..n : [to |-> q[i], ans |-> "ok"] \in ReplyType
      BY <1>5 DEF ReplyType, Answers
    <3>2. r \in [1..n -> ReplyType]  BY <3>1 DEF Oks
    <3>3. r \in Seq(ReplyType) /\ Len(r) = n  BY <1>1, <3>2
    <3> QED  BY <3>3 DEF Oks
  <2>2. \A e : e \in ran <=> \E i \in 1..n : q[i] = e  BY DEF Ran
  <2> DEFINE out == s.out
  <2>3. Single(out) /\ Once(q) /\ out \in Seq(ReplyType) /\ t.out = out \o r
    BY <1>1, <1>3 DEF Good, Placed
  <2>4. \A e \in ran : ~To(out, e)  BY <1>9
  <2> HIDE DEF out, r, ran, q
  <2>5. \A e : To(r, e) <=> e \in ran  BY <2>1, <2>2 DEF To
  <2>6. \A e, b : Tell(r, e, b) <=> b = "ok" /\ e \in ran  BY <2>1, <2>2 DEF Tell
  <2>7. Single(r)
    <3>1. ASSUME NEW i \in 1..n, NEW j \in 1..n, q[i] = q[j] PROVE i = j
      BY <1>5, <2>3, <3>1 DEF Once
    <3> QED  BY <2>1, <3>1 DEF Single
  <2>8. \A e \in Callers : ~(To(out, e) /\ To(r, e))  BY <2>4, <2>5
  <2>9. /\ out \o r \in Seq(ReplyType) /\ Single(out \o r)
        /\ \A e : To(out \o r, e) <=> To(out, e) \/ To(r, e)
        /\ \A e, b : Tell(out \o r, e, b) <=> Tell(out, e, b) \/ Tell(r, e, b)
    BY <2>1, <2>3, <2>7, <2>8, RepliedAll
  <2> QED  BY <2>3, <2>5, <2>6, <2>9 DEF out
<1>11. t \in States
  <2>1. t.h.tx \in Flows \cup {None}
    <3>1. CASE begun
      BY <1>4, <1>6, <1>8, <3>1 DEF Known, Begins, Op
    <3>2. CASE ~begun
      BY <1>1, <1>4, <3>2 DEF HostType
    <3> QED  BY <3>1, <3>2
  <2>2. t.h.conns \in SUBSET (1..MaxHandles)
    BY <1>1, <1>4, <1>6 DEF HostType
  <2>3. t.h.native \in BOOLEAN  BY <1>1, <1>4 DEF HostType
  <2>4. t.h \in HostType  BY <1>1, <1>3, <1>4, <1>7, <2>1, <2>2, <2>3 DEF HostType
  <2>5. t.d \in DbType  BY <1>1, <1>3, <1>4 DEF DbType
  <2> QED  BY <1>1, <1>3, <1>10, <2>4, <2>5 DEF States
<1> HIDE DEF ran, rest, q, begun, r
<1>12. Placed(t, X, call)
  <2>1. ASSUME NEW c \in Callers
        PROVE  /\ c \in X => ~Contains(t.h.q, c)
               /\ To(t.out, c) => ~Waits(c, t, X)
               /\ Waits(c, t, X) \/ To(t.out, c) => call[c].st = "sent"
               /\ Contains(t.h.q, c) => call[c].op \in {"begin", "core", "open"}
    BY <1>4, <1>7, <1>9, <1>10 DEF Good, Placed, Waits, q
  <2>2. X \subseteq Callers  BY DEF Good, Placed
  <2> QED  BY <1>4, <1>7, <1>10, <2>1, <2>2 DEF Placed
<1>13. Lent(t.h)
  <2>1. Lent(s.h)  BY DEF Good
  <2>2. CASE begun
    <3>1. s.h.tx = None /\ s.h.pend = {}  BY <1>8, <2>1, <2>2 DEF Lent
    <3>2. t.h.tx # None  BY <1>4, <1>6, <1>8, <2>2, DbWorkerAssumption
    <3> QED  BY <1>4, <2>2, <3>1, <3>2 DEF Lent
  <2>3. CASE ~begun
    BY <1>4, <2>1, <2>3 DEF Lent
  <2> QED  BY <2>2, <2>3
<1>14. ASSUME NEW c \in Flows, ~Persists PROVE FlowOK(c, t, X, call)
  <2>1. FlowOK(c, s, X, call) /\ c \in Callers /\ c \notin Core /\ c # Ext
    BY <1>14, DbWorkerAssumption DEF Good, Callers
  <2>2. CASE c \in ran
    <3>1. call[c].op = "begin" /\ call[c].st = "sent"  BY <1>9, <2>1, <2>2 DEF Known
    <3>2. begun /\ c = q[n]
      <4>1. Begins(c)  BY <3>1 DEF Begins, Op
      <4> QED  BY <1>8, <2>2, <4>1 DEF begun, Begun, ran
    <3>3. t.h.tx = c /\ t.h.native /\ t.h.pend = {}
      BY <1>4, <1>8, <3>2 DEF Good, Lent
    <3>4. Of(c, s.d.ran) = {} /\ Of(c, s.d.rows) = {}  BY <2>1, <3>1 DEF FlowOK
    <3>5. ~Waits(c, t, X)  BY <1>4, <1>7, <1>9, <2>2 DEF Waits
    <3>6. Of(c, t.h.pend) = {}  BY <3>3 DEF Of
    <3> QED  BY <1>4, <3>1, <3>3, <3>4, <3>5, <3>6 DEF FlowOK
  <2>3. CASE c \notin ran
    <3>1. t.h.tx = c => s.h.tx = c /\ t.h.native = s.h.native
      <4>1. CASE begun
        BY <1>4, <1>8, <2>3, <4>1
      <4>2. CASE ~begun
        <5>1. s.h.native \in BOOLEAN  BY <1>1 DEF HostType
        <5> QED  BY <1>4, <4>2, <5>1
      <4> QED  BY <4>1, <4>2
    <3>2. \A b : Tell(t.out, c, b) <=> Tell(s.out, c, b)  BY <1>10, <2>3
    <3> QED  BY <1>4, <1>7, <2>1, <3>1, <3>2, FlowFrame DEF q
  <2> QED  BY <2>2, <2>3
<1>15. ASSUME NEW c \in Core PROVE CoreOK(c, t, X, call)
  <2>1. CoreOK(c, s, X, call)  BY DEF Good
  <2>2. CASE c \in ran
    <3>1. c \in t.d.core  BY <1>4, <2>2
    <3>2. ~Waits(c, t, X)  BY <1>4, <1>7, <1>9, <2>2 DEF Waits
    <3>3. ~Told(c, "refused", t, call) /\ call[c].st = "sent"
      <4>1. call[c].st = "sent" /\ ~Tell(s.out, c, "refused")
        BY <1>9, <2>2 DEF To, Tell
      <4>2. ~Tell(t.out, c, "refused")  BY <1>10, <4>1
      <4> QED  BY <4>1, <4>2 DEF Told
    <3> QED  BY <3>1, <3>2, <3>3 DEF CoreOK
  <2>3. CASE c \notin ran
    <3>1. \A b : Tell(t.out, c, b) <=> Tell(s.out, c, b)  BY <1>10, <2>3
    <3>2. c \in t.d.core <=> c \in s.d.core  BY <1>4, <2>3
    <3> QED  BY <1>4, <1>7, <2>1, <3>1, <3>2, CoreFrame DEF q
  <2> QED  BY <2>2, <2>3
<1> QED  BY <1>2, <1>3, <1>11, <1>12, <1>13, <1>14, <1>15 DEF Good, t

\* A caller's statement is one it may ask for.
Counted == \A c \in Callers : call[c].op = "exec" => flow[c] \in 1..Asked[c]

(* A statement that SQLite fails leaves the worker as it was (the catch of *)
(* a statement's handler).                                                 *)
LEMMA Failed ==
  ASSUME NEW s \in States, s.f < MaxFaults
  PROVE  LET t == [s EXCEPT !.f = @ + 1]
         IN  t.h = s.h /\ t.d = s.d /\ t.out = s.out /\ t \in States /\ s.f =< t.f
<1>1. s.f \in 0..MaxFaults /\ s.f + 1 \in 0..MaxFaults  BY DbWorkerAssumption DEF States
<1> QED  BY <1>1 DEF States

(* A statement is carried out inside the transaction, or refused and then  *)
(* SQLite may have ended the transaction (exec).                           *)
LEMMA ExecutedGood ==
  ASSUME NEW s, NEW X, Good(s, X, call), Known(call), Counted,
         NEW c \in X, call[c].op = "exec", s.h.tx = c, NEW r \in Executed(s, c)
  PROVE  Good(r, X \ {c}, call) /\ s.f =< r.f
<1> DEFINE p == <<c, flow[c]>>
           done == [s EXCEPT !.d.ran = @ \cup {p}]
           inside == [done EXCEPT !.h.pend = @ \cup {p}]
           outside == [done EXCEPT !.d.rows = @ \cup {p}]
           fails == [s EXCEPT !.f = @ + 1]
           failed == Reply(fails, c, "refused")
           ended == [failed EXCEPT !.h.native = FALSE, !.h.pend = {}]
<1>1. s \in States /\ s.h \in HostType /\ s.d \in DbType /\ c \in Callers /\ c \in Flows
      /\ call[c].st = "sent" /\ c \notin Core /\ c # None
  <2>1. c \in Callers /\ call[c].st = "sent"  BY DEF Good, Placed, Waits
  <2>2. c \in Flows  BY <2>1 DEF Known
  <2> QED  BY <2>1, <2>2, DbWorkerAssumption DEF Good, States, Callers
<1>0. s.f \in Nat  BY DbWorkerAssumption DEF Good, States
<1>2. p \in Flows \X Statements /\ s.h.pend \cup {p} \in SUBSET (Flows \X Statements)
      /\ s.d.ran \cup {p} \in SUBSET (Flows \X Statements)
      /\ s.d.rows \cup {p} \in SUBSET (Flows \X Statements)
  <2>1. flow[c] \in 1..Asked[c]  BY <1>1 DEF Counted
  <2>2. p \in Flows \X Statements  BY <1>1, <2>1 DEF Statements
  <2> DEFINE all == Flows \X Statements
  <2>3. s.h.pend \subseteq all /\ s.d.ran \subseteq all /\ s.d.rows \subseteq all
    BY <1>1 DEF HostType, DbType
  <2> HIDE DEF all, p
  <2> QED  BY <2>2, <2>3 DEF all
<1>3. \/ s.h.native /\ r = Reply(inside, c, "ok")
      \/ ~s.h.native /\ r = Reply(outside, c, "ok")
      \/ s.f < MaxFaults /\ r = failed
      \/ s.f < MaxFaults /\ r = ended
  BY Zenon DEF Executed
<1>4. ~To(s.out, c) /\ \A b : ~Tell(s.out, c, b)
  BY <1>1 DEF Good, Placed, Waits, To, Tell
<1>5. ~Persists => s.h.native
  <2>1. ASSUME ~Persists PROVE s.h.native
    <3>1. FlowOK(c, s, X, call)  BY <1>1, <2>1 DEF Good
    <3>2. ~Told(c, "refused", s, call)  BY <1>1, <1>4 DEF Told
    <3> QED  BY <3>1, <3>2 DEF FlowOK
  <2> QED  BY <2>1
<1>6. CASE s.h.native /\ r = Reply(inside, c, "ok")
  <2> DEFINE t == inside
  <2>1. /\ t.h = [s.h EXCEPT !.pend = @ \cup {p}] /\ t.d = [s.d EXCEPT !.ran = @ \cup {p}]
        /\ t.out = s.out /\ t.f = s.f /\ t = [s EXCEPT !.h = t.h, !.d = t.d]
    BY <1>1 DEF States
  <2> HIDE DEF inside, p
  <2>2. /\ t.h.q = s.h.q /\ t.h.tx = s.h.tx /\ t.h.native = s.h.native
        /\ t.h.pend = s.h.pend \cup {p}
        /\ t.d.core = s.d.core /\ t.d.rows = s.d.rows /\ t.d.ran = s.d.ran \cup {p}
        /\ t.h \in HostType /\ t.d \in DbType
    BY <1>1, <1>2, <2>1 DEF HostType, DbType
  <2>3. t \in States  BY <1>1, <2>1, <2>2 DEF States
  <2>4. p[1] = c  BY DEF p
  <2>5. Placed(t, X, call)  BY <2>1, <2>2 DEF Good, Placed, Waits
  <2>6. Lent(t.h)  BY <1>1, <1>6, <2>2, <2>4 DEF Good, Lent
  <2>7. ASSUME NEW e \in Flows, ~Persists PROVE FlowOK(e, t, X, call)
    <3>1. FlowOK(e, s, X, call)  BY <2>7 DEF Good
    <3>2. CASE e = c
      <4>1. Of(e, s.d.rows) = {}  BY <3>1, <3>2 DEF FlowOK
      <4>2. Of(e, s.h.pend) = Of(e, s.d.ran)  BY <1>6, <3>1, <3>2 DEF FlowOK
      <4>3. Of(e, t.h.pend) = Of(e, t.d.ran)  BY <2>2, <4>2 DEF Of
      <4> QED  BY <1>1, <1>6, <2>1, <2>2, <3>1, <3>2, <4>1, <4>3 DEF FlowOK, Waits
    <3>3. CASE e # c
      <4>1. Of(e, t.d.ran) = Of(e, s.d.ran)  BY <2>2, <2>4, <3>3 DEF Of
      <4> QED  BY <2>1, <2>2, <3>1, <3>3, <4>1, FlowFrame
    <3> QED  BY <3>2, <3>3
  <2>8. ASSUME NEW e \in Core PROVE CoreOK(e, t, X, call)
    <3>1. CoreOK(e, s, X, call)  BY DEF Good
    <3> QED  BY <2>1, <2>2, <3>1, CoreFrame
  <2>9. Good(t, X, call)  BY <2>3, <2>5, <2>6, <2>7, <2>8 DEF Good
  <2>10. Good(Reply(t, c, "ok"), X \ {c}, call) /\ Reply(t, c, "ok").f = t.f
    BY <1>1, <2>9, ReplyGood
  <2> QED  BY <1>0, <1>6, <2>1, <2>10 DEF inside
<1>7. CASE ~s.h.native /\ r = Reply(outside, c, "ok")
  <2> DEFINE t == outside
  <2>1. /\ t.d = [s.d EXCEPT !.ran = @ \cup {p}, !.rows = @ \cup {p}]
        /\ t.h = s.h /\ t.out = s.out /\ t.f = s.f /\ t = [s EXCEPT !.d = t.d]
    BY <1>1 DEF States, DbType
  <2> HIDE DEF outside, p
  <2>2. t.d.core = s.d.core /\ t.d \in DbType  BY <1>1, <1>2, <2>1 DEF DbType
  <2>3. t \in States  BY <1>1, <2>1, <2>2 DEF States
  <2>4. Placed(t, X, call) /\ Lent(t.h)  BY <2>1 DEF Good, Placed, Waits
  <2>5. Persists  BY <1>5, <1>7
  <2>6. ASSUME NEW e \in Core PROVE CoreOK(e, t, X, call)
    <3>1. CoreOK(e, s, X, call)  BY DEF Good
    <3> QED  BY <2>1, <2>2, <3>1, CoreFrame
  <2>7. Good(t, X, call)  BY <2>3, <2>4, <2>5, <2>6 DEF Good
  <2>8. Good(Reply(t, c, "ok"), X \ {c}, call) /\ Reply(t, c, "ok").f = t.f
    BY <1>1, <2>7, ReplyGood
  <2> QED  BY <1>0, <1>7, <2>1, <2>8 DEF outside
<1>8. s.f < MaxFaults => Good(failed, X \ {c}, call) /\ failed.h = s.h /\ failed.d = s.d
                         /\ failed \in States /\ Tell(failed.out, c, "refused") /\ s.f =< failed.f
  <2> SUFFICES ASSUME s.f < MaxFaults
               PROVE  Good(failed, X \ {c}, call) /\ failed.h = s.h /\ failed.d = s.d
                      /\ failed \in States /\ Tell(failed.out, c, "refused") /\ s.f =< failed.f
    OBVIOUS
  <2>1. fails.h = s.h /\ fails.d = s.d /\ fails.out = s.out /\ fails \in States /\ s.f =< fails.f
    BY <1>1, Failed
  <2> HIDE DEF fails
  <2>2. Good(fails, X, call)  BY <1>1, <2>1, OtherGood
  <2>3. Good(failed, X \ {c}, call) /\ failed.h = s.h /\ failed.d = s.d /\ failed.f = fails.f
    BY <1>1, <2>1, <2>2, ReplyGood
  <2>4. failed.out = Append(s.out, [to |-> c, ans |-> "refused"]) /\ s.out \in Seq(ReplyType)
    BY <1>1, <2>1 DEF Reply, States
  <2>5. Tell(failed.out, c, "refused")
    <3> DEFINE a == [to |-> c, ans |-> "refused"]
    <3>1. a \in ReplyType /\ a.to = c /\ a.ans = "refused"  BY <1>1 DEF ReplyType, Answers
    <3> HIDE DEF a
    <3>2. Tell(Append(s.out, a), c, "refused")  BY <2>4, <3>1, Replied
    <3> QED  BY <2>4, <3>2 DEF a
  <2> QED  BY <2>1, <2>3, <2>5 DEF Good
<1> HIDE DEF failed
<1>9. CASE s.f < MaxFaults /\ r = failed
  BY <1>8, <1>9
<1>10. CASE s.f < MaxFaults /\ r = ended
  <2> DEFINE t == ended
             Y == X \ {c}
  <2>1. /\ t.h = [failed.h EXCEPT !.native = FALSE, !.pend = {}] /\ t.d = failed.d
        /\ t.out = failed.out /\ t.f = failed.f /\ t = [failed EXCEPT !.h = t.h]
    BY <1>8, <1>10 DEF States, HostType
  <2> HIDE DEF ended
  <2>2. /\ t.h.q = failed.h.q /\ t.h.tx = c /\ t.h.native = FALSE /\ t.h.pend = {}
        /\ t.h \in HostType
    <3> DEFINE g == failed.h
    <3>1. g \in HostType /\ g.tx = c  BY <1>1, <1>8, <1>10
    <3>2. t.h = [g EXCEPT !.native = FALSE, !.pend = {}]  BY <2>1
    <3> HIDE DEF g
    <3>3. /\ t.h.q = g.q /\ t.h.tx = g.tx /\ t.h.native = FALSE /\ t.h.pend = {}
          /\ t.h \in HostType
      BY <3>1, <3>2 DEF HostType
    <3> QED  BY <3>1, <3>3 DEF g
  <2>3. t \in States  BY <1>8, <1>10, <2>1, <2>2 DEF States
  <2>4. Placed(t, Y, call)  BY <1>8, <1>10, <2>1, <2>2 DEF Good, Placed, Waits
  <2>5. Lent(t.h)  BY <1>1, <2>2 DEF Lent
  <2>6. ASSUME NEW e \in Flows, ~Persists PROVE FlowOK(e, t, Y, call)
    <3>1. FlowOK(e, failed, Y, call)  BY <1>8, <1>10, <2>6 DEF Good
    <3>2. CASE e = c
      <4>1. Told(c, "refused", t, call)  BY <1>8, <1>10, <2>1 DEF Told
      <4>2. \A b : Told(c, b, t, call) <=> Told(c, b, failed, call)  BY <2>1 DEF Told
      <4>3. Waits(c, t, Y) <=> Waits(c, failed, Y)  BY <2>2 DEF Waits
      <4>4. failed.h.tx = c  BY <1>8, <1>10
      <4> QED  BY <2>1, <2>2, <3>1, <3>2, <4>1, <4>2, <4>3, <4>4 DEF FlowOK
    <3>3. CASE e # c
      BY <2>1, <2>2, <3>1, <3>3, FlowFrame
    <3> QED  BY <3>2, <3>3
  <2>7. ASSUME NEW e \in Core PROVE CoreOK(e, t, Y, call)
    <3>1. CoreOK(e, failed, Y, call)  BY <1>8, <1>10 DEF Good
    <3> QED  BY <2>1, <2>2, <3>1, CoreFrame
  <2>8. Good(t, Y, call)  BY <2>3, <2>4, <2>5, <2>6, <2>7 DEF Good
  <2> QED  BY <1>8, <1>10, <2>1, <2>8 DEF t
<1> QED  BY <1>3, <1>6, <1>7, <1>9, <1>10

(* A commit that SQLite carries out: all the transaction did is kept, and  *)
(* it is over (commit, finish).                                            *)
LEMMA KeptGood ==
  ASSUME NEW s, NEW X, Good(s, X, call), Known(call),
         NEW c \in X, call[c].op = "commit", s.h.tx = c, s.h.native,
         NEW t, t \in States, t.h.q = s.h.q, t.h.tx = None, t.h.native = FALSE, t.h.pend = {},
         t.d.core = s.d.core, t.d.ran = s.d.ran, t.d.rows = s.d.rows \cup s.h.pend,
         t.out = Append(s.out, [to |-> c, ans |-> "ok"])
  PROVE  Good(t, X \ {c}, call)
<1> DEFINE Y == X \ {c}
           a == [to |-> c, ans |-> "ok"]
           out == s.out
<1>1. c \in Callers /\ c \in Flows /\ call[c].st = "sent" /\ c \notin Core
      /\ ~Contains(s.h.q, c) /\ ~To(out, c) /\ \A b : ~Tell(out, c, b)
  <2>1. c \in Callers /\ call[c].st = "sent" /\ ~Contains(s.h.q, c) /\ ~To(out, c)
    BY DEF Good, Placed, Waits
  <2>2. c \in Flows  BY <2>1 DEF Known
  <2> QED  BY <2>1, <2>2, DbWorkerAssumption DEF To, Tell
<1>2. /\ Single(t.out)
      /\ \A e : To(t.out, e) <=> To(out, e) \/ e = c
      /\ \A e, b : Tell(t.out, e, b) <=> Tell(out, e, b) \/ (e = c /\ b = "ok")
  <2>1. Single(out) /\ out \in Seq(ReplyType)  BY DEF Good, Placed, States
  <2>2. a \in ReplyType /\ a.to = c /\ a.ans = "ok" /\ t.out = Append(out, a)
    BY <1>1 DEF ReplyType, Answers
  <2> HIDE DEF a, out
  <2>3. a.to \in Callers => ~To(out, a.to)  BY <1>1, <2>2
  <2>4. /\ Single(Append(out, a))
        /\ \A e : To(Append(out, a), e) <=> To(out, e) \/ e = a.to
        /\ \A e, b : Tell(Append(out, a), e, b) <=> Tell(out, e, b) \/ (e = a.to /\ b = a.ans)
    BY <2>1, <2>2, <2>3, Replied
  <2> DEFINE longer == Append(out, a)
  <2>5. t.out = longer  BY <2>2
  <2>6. a.to = c /\ a.ans = "ok"  BY <2>2
  <2> HIDE DEF longer
  <2>7. /\ Single(longer) /\ \A e : To(longer, e) <=> To(out, e) \/ e = c
        /\ \A e, b : Tell(longer, e, b) <=> Tell(out, e, b) \/ (e = c /\ b = "ok")
    BY Zenon, <2>4, <2>6 DEF longer
  <2> QED  BY <2>5, <2>7
<1> HIDE DEF a
<1>3. Placed(t, Y, call)
  <2>1. ASSUME NEW e \in Callers
        PROVE  /\ e \in Y => ~Contains(t.h.q, e)
               /\ To(t.out, e) => ~Waits(e, t, Y)
               /\ Waits(e, t, Y) \/ To(t.out, e) => call[e].st = "sent"
               /\ Contains(t.h.q, e) => call[e].op \in {"begin", "core", "open"}
    BY <1>1, <1>2 DEF Good, Placed, Waits
  <2>2. Y \subseteq Callers /\ Once(t.h.q)  BY DEF Good, Placed
  <2> QED  BY <1>2, <2>1, <2>2 DEF Placed
<1>4. Lent(t.h)  BY DEF Lent
<1>5. ASSUME NEW e \in Flows, ~Persists PROVE FlowOK(e, t, Y, call)
  <2>1. FlowOK(e, s, X, call)  BY <1>5 DEF Good
  <2>2. e # None  BY DbWorkerAssumption DEF Callers
  <2>3. CASE e = c
    <3>1. Of(e, s.d.rows) = {} /\ Of(e, s.h.pend) = Of(e, s.d.ran)  BY <2>1, <2>3 DEF FlowOK
    <3>2. Of(e, t.d.rows) = Of(e, t.d.ran)  BY <3>1 DEF Of
    <3>3. ~Told(c, "refused", t, call) /\ c \notin Y  BY <1>1, <1>2 DEF Told
    <3> QED  BY <1>1, <2>2, <2>3, <3>2, <3>3 DEF FlowOK
  <2>4. CASE e # c
    <3>1. Of(e, s.h.pend) = {}  BY <2>4 DEF Good, Lent, Of
    <3>2. Of(e, t.d.rows) = Of(e, s.d.rows)  BY <3>1 DEF Of
    <3>3. \A b : Tell(t.out, e, b) <=> Tell(s.out, e, b)  BY <1>2, <2>4
    <3> QED  BY <2>1, <2>2, <3>2, <3>3, FlowFrame
  <2> QED  BY <2>3, <2>4
<1>6. ASSUME NEW e \in Core PROVE CoreOK(e, t, Y, call)
  <2>1. CoreOK(e, s, X, call) /\ e # c  BY <1>1 DEF Good
  <2>2. \A b : Tell(t.out, e, b) <=> Tell(s.out, e, b)  BY <1>2, <2>1
  <2> QED  BY <2>1, <2>2, CoreFrame
<1> QED  BY <1>3, <1>4, <1>5, <1>6 DEF Good

(* A commit is carried out, the connection being closed if it came too     *)
(* late, or it fails and the transaction is rolled back (commit).          *)
LEMMA CommittedGood ==
  ASSUME NEW s, NEW X, Good(s, X, call), Known(call),
         NEW c \in X, call[c].op = "commit", s.h.tx = c, NEW r \in Committed(s, c)
  PROVE  Good(r, X \ {c}, call) /\ s.f =< r.f
<1> DEFINE all == [s EXCEPT !.d.rows = @ \cup s.h.pend]
           kept == Reply(all, c, "ok")
           shut == [kept EXCEPT !.h.conns = @ \ {plug.h}]
           fails == [s EXCEPT !.f = @ + 1]
<1>1. s \in States /\ s.h \in HostType /\ s.d \in DbType /\ c \in Callers /\ c \in Flows
      /\ c \notin Core /\ s.out \in Seq(ReplyType)
  <2>1. c \in Callers  BY DEF Good, Placed
  <2>2. c \in Flows  BY <2>1 DEF Known
  <2> QED  BY <2>1, <2>2, DbWorkerAssumption DEF Good, States
<1>0. s.f \in Nat  BY DbWorkerAssumption DEF Good, States
<1>2. \/ s.h.native /\ r = Cleared(kept)
      \/ s.h.native /\ r = Unqueued(Cleared(shut))
      \/ \E u \in RolledBack(s) : r = Reply(u, c, "refused")
      \/ s.f < MaxFaults /\ \E u \in RolledBack(fails) : r = Reply(u, c, "refused")
  BY Zenon DEF Committed, Poisoned
<1>3. /\ kept.h = s.h /\ kept.d = [s.d EXCEPT !.rows = @ \cup s.h.pend]
      /\ kept.out = Append(s.out, [to |-> c, ans |-> "ok"]) /\ kept.f = s.f
      /\ kept = [s EXCEPT !.d = kept.d, !.out = kept.out]
  BY <1>1 DEF States, Reply
<1>4. kept \in States
  <2>1. s.d.rows \cup s.h.pend \in SUBSET (Flows \X Statements)
    <3> DEFINE stmts == Flows \X Statements
    <3>1. s.h.pend \subseteq stmts /\ s.d.rows \subseteq stmts  BY <1>1 DEF HostType, DbType
    <3> HIDE DEF stmts
    <3> QED  BY <3>1 DEF stmts
  <2>2. kept.d \in DbType  BY <1>1, <1>3, <2>1 DEF DbType
  <2>3. kept.out \in Seq(ReplyType)
    <3> DEFINE a == [to |-> c, ans |-> "ok"]
    <3>1. a \in ReplyType  BY <1>1 DEF ReplyType, Answers
    <3> HIDE DEF a, kept
    <3>2. Append(s.out, a) \in Seq(ReplyType)  BY <1>1, <3>1, Replied
    <3> QED  BY <1>3, <3>2 DEF a
  <2> HIDE DEF kept
  <2> QED  BY <1>1, <1>3, <2>2, <2>3 DEF States
<1> HIDE DEF kept
<1>5. kept.d.core = s.d.core /\ kept.d.ran = s.d.ran /\ kept.d.rows = s.d.rows \cup s.h.pend
  BY <1>1, <1>3 DEF DbType
<1>6. ASSUME NEW u, u \in States, u.d = kept.d, u.out = kept.out, u.h.q = s.h.q, s.h.native
      PROVE  Good(Cleared(u), X \ {c}, call) /\ Cleared(u).f = u.f
  <2> DEFINE t == Cleared(u)
  <2>1. u.h \in HostType  BY <1>6 DEF States
  <2>2. t.h = [u.h EXCEPT !.tx = None, !.native = FALSE, !.pend = {}]
        /\ t.d = u.d /\ t.out = u.out /\ t.f = u.f /\ t = [u EXCEPT !.h = t.h]
    BY <1>6, <2>1 DEF States, Cleared
  <2> HIDE DEF t
  <2>3. t.h.tx = None /\ t.h.native = FALSE /\ t.h.pend = {} /\ t.h.q = u.h.q /\ t.h \in HostType
    BY <2>1, <2>2 DEF HostType
  <2>4. t \in States  BY <1>6, <2>2, <2>3 DEF States
  <2>5. /\ t.h.q = s.h.q /\ t.d.core = s.d.core /\ t.d.ran = s.d.ran
        /\ t.d.rows = s.d.rows \cup s.h.pend /\ t.out = Append(s.out, [to |-> c, ans |-> "ok"])
    BY <1>3, <1>5, <1>6, <2>2, <2>3
  <2>6. Good(t, X \ {c}, call)
    BY <1>6, <2>3, <2>4, <2>5, KeptGood
  <2> QED  BY <2>2, <2>6 DEF t
<1>7. CASE s.h.native /\ r = Cleared(kept)
  <2>1. kept.h.q = s.h.q /\ s.h.native /\ r = Cleared(kept)  BY <1>3, <1>7
  <2>2. Good(Cleared(kept), X \ {c}, call) /\ Cleared(kept).f = kept.f
    BY <1>4, <1>6, <2>1
  <2> QED  BY <1>0, <1>3, <2>1, <2>2
<1>8. CASE s.h.native /\ r = Unqueued(Cleared(shut))
  <2> DEFINE u == shut
  <2>1. u.h = [kept.h EXCEPT !.conns = @ \ {plug.h}] /\ u.d = kept.d /\ u.out = kept.out
        /\ u.f = kept.f /\ u = [kept EXCEPT !.h = u.h]
    BY <1>1, <1>3, <1>4 DEF States
  <2>2. u.h \in HostType /\ u.h.q = s.h.q  BY <1>1, <1>3, <2>1 DEF HostType
  <2>3. u \in States  BY <1>4, <2>1, <2>2 DEF States
  <2> HIDE DEF shut
  <2>4. Good(Cleared(u), X \ {c}, call) /\ Cleared(u).f = u.f
    BY <1>6, <1>8, <2>1, <2>2, <2>3
  <2>5. Good(Unqueued(Cleared(u)), X \ {c}, call) /\ Unqueued(Cleared(u)).f = Cleared(u).f
    BY <2>4, UnqueuedGood
  <2> QED  BY <1>0, <1>3, <1>8, <2>1, <2>4, <2>5 DEF u
<1>9. ASSUME NEW v, Good(v, X, call), s.f =< v.f, NEW u \in RolledBack(v), r = Reply(u, c, "refused")
      PROVE  Good(r, X \ {c}, call) /\ s.f =< r.f
  <2>1. Good(u, X, call) /\ v.f =< u.f  BY <1>9, RolledBackGood
  <2>2. Good(Reply(u, c, "refused"), X \ {c}, call) /\ Reply(u, c, "refused").f = u.f
    BY <1>1, <2>1, ReplyGood
  <2>3. v.f \in Nat /\ u.f \in Nat  BY <1>9, <2>1, DbWorkerAssumption DEF Good, States
  <2> QED  BY <1>0, <1>9, <2>1, <2>2, <2>3
<1>10. CASE \E u \in RolledBack(s) : r = Reply(u, c, "refused")
  BY <1>0, <1>9, <1>10
<1>11. CASE s.f < MaxFaults /\ \E u \in RolledBack(fails) : r = Reply(u, c, "refused")
  <2>1. fails.h = s.h /\ fails.d = s.d /\ fails.out = s.out /\ fails \in States /\ s.f =< fails.f
    BY <1>1, <1>11, Failed
  <2> HIDE DEF fails
  <2>2. Good(fails, X, call)  BY <1>1, <2>1, OtherGood
  <2> QED  BY <1>9, <1>11, <2>1, <2>2
<1> QED  BY <1>2, <1>7, <1>8, <1>10, <1>11

(* A rollback that was asked for (rollback).                               *)
LEMMA UndoneGood ==
  ASSUME NEW s, NEW X, Good(s, X, call), Known(call),
         NEW c \in X, call[c].op = "rollback", NEW r \in Undone(s, c)
  PROVE  Good(r, X \ {c}, call) /\ s.f =< r.f
<1>1. c \in Callers /\ c \in Flows /\ c \notin Core
  <2>1. c \in Callers  BY DEF Good, Placed
  <2>2. c \in Flows  BY <2>1 DEF Known
  <2> QED  BY <2>1, <2>2, DbWorkerAssumption
<1>2. PICK u \in RolledBack(s) : r = Reply(u, c, IF plug.h \in u.h.conns THEN "ok" ELSE "refused")
  BY DEF Undone
<1>3. Good(u, X, call) /\ s.f =< u.f  BY RolledBackGood
<1>4. PICK a \in {"ok", "refused"} : r = Reply(u, c, a)  BY <1>2
<1>5. Good(Reply(u, c, a), X \ {c}, call) /\ Reply(u, c, a).f = u.f
  BY <1>1, <1>3, ReplyGood
<1> QED  BY <1>3, <1>4, <1>5

(* A handle is released: what its owner has under way ends, what waits     *)
(* goes on, and its connection closes (release).                           *)
LEMMA ReleasedGood ==
  ASSUME NEW s, NEW X, Good(s, X, call), Known(call), plug.h \in 1..MaxHandles,
         NEW c \in X, call[c].op = "release", NEW r \in Released(s, c)
  PROVE  Good(r, X \ {c}, call) /\ s.f =< r.f
<1>1. c = Ext /\ c \notin Core /\ c \notin Flows
  <2>1. c \in Callers  BY DEF Good, Placed
  <2> QED  BY <2>1, DbWorkerAssumption DEF Known
<1>2. PICK v \in IF s.h.tx # None THEN RolledBack(s) ELSE {s}, a \in {"ok", "refused"} :
        r = Reply([Pump(Unqueued(v)) EXCEPT !.h.conns = @ \ {plug.h}], c, a)
  BY DEF Released
<1>3. Good(v, X, call) /\ s.f =< v.f
  <2>1. CASE s.h.tx # None
    BY <1>2, <2>1, RolledBackGood
  <2>2. CASE s.h.tx = None
    BY <1>2, <2>2, DbWorkerAssumption DEF Good, States
  <2> QED  BY <2>1, <2>2
<1> DEFINE u == Unqueued(v)
           t == Pump(u)
           w == [t EXCEPT !.h.conns = @ \ {plug.h}]
<1>4. Good(u, X, call) /\ u.f = v.f  BY <1>3, UnqueuedGood
<1> HIDE DEF u
<1>5. Good(t, X, call) /\ t.f = u.f  BY <1>4, PumpGood
<1> HIDE DEF t
<1>6. Good(w, X, call) /\ w.f = t.f
  <2>1. t \in States /\ t.h \in HostType  BY <1>5 DEF Good, States
  <2>2. w.h = [t.h EXCEPT !.conns = @ \ {plug.h}] /\ w.d = t.d /\ w.out = t.out /\ w.f = t.f
        /\ w = [t EXCEPT !.h = w.h]
    BY <2>1 DEF States
  <2>3. w.h \in HostType /\ w.h.q = t.h.q /\ w.h.tx = t.h.tx /\ w.h.native = t.h.native
        /\ w.h.pend = t.h.pend
    BY <2>1, <2>2 DEF HostType
  <2>4. w \in States  BY <2>1, <2>2, <2>3 DEF States
  <2> HIDE DEF w
  <2> QED  BY <1>5, <2>2, <2>3, <2>4, OtherGood
<1>7. r = Reply(w, c, a)  BY <1>2 DEF t, u
<1> HIDE DEF w
<1>8. Good(Reply(w, c, a), X \ {c}, call) /\ Reply(w, c, a).f = w.f
  BY <1>1, <1>6, ReplyGood
<1> QED  BY <1>3, <1>4, <1>5, <1>6, <1>7, <1>8

(* One request, and the work it lets go on (handle, pump).                 *)
LEMMA ServedGood ==
  ASSUME NEW s, NEW X, Good(s, X, call), Known(call), Counted,
         call[Ext].st # "free" => plug.h \in 1..MaxHandles,
         NEW c \in X, NEW r \in Served(s, c)
  PROVE  Good(r, X \ {c}, call) /\ s.f =< r.f
<1> DEFINE Y == X \ {c}
           op == call[c].op
           queued == [s EXCEPT !.h.q = Append(@, c)]
<1>1. c \in Callers /\ call[c].st = "sent" /\ op \in Ops
  BY DEF Good, Placed, Waits, Known, CallType
<1>2. queued = Enqueued(s, c)  BY DEF Enqueued
<1>3. ASSUME NEW t, NEW Z, Good(t, Z, call) PROVE Good(Pump(t), Z, call) /\ Pump(t).f = t.f
  <2>1. Contains(t.h.q, Ext) => call[Ext].st # "free"
    <3>1. Ext \in Callers  BY DEF Callers
    <3> QED  BY <1>3, <3>1 DEF Good, Placed, Waits
  <2> QED  BY <1>3, <2>1, PumpGood
<1>0. s.f \in Nat  BY DbWorkerAssumption DEF Good, States
<1>4. Good(Reply(s, c, "refused"), Y, call) /\ Reply(s, c, "refused").f = s.f
  BY ReplyGood, <1>1, DbWorkerAssumption
<1>5. CASE op \in {"core", "open"}
  <2>1. r = Pump(Enqueued(s, c))  BY <1>2, <1>5 DEF Served, Op, Begins
  <2>2. Good(Enqueued(s, c), Y, call) /\ Enqueued(s, c).f = s.f  BY <1>5, QueuedGood
  <2> QED  BY <1>0, <1>3, <2>1, <2>2
<1>6. CASE op = "begin"
  <2>1. r = Pump(Enqueued(s, c)) \/ r = Reply(s, c, "refused")
    BY <1>2, <1>6 DEF Served, Op, Begins
  <2>2. Good(Enqueued(s, c), Y, call) /\ Enqueued(s, c).f = s.f  BY <1>6, QueuedGood
  <2> QED  BY <1>0, <1>3, <1>4, <2>1, <2>2
<1>7. CASE op = "release"
  <2>1. r \in Released(s, c)  BY <1>7 DEF Served, Op, Begins
  <2>2. c = Ext  BY <1>1, <1>7 DEF Known
  <2> QED  BY <1>1, <1>7, <2>1, <2>2, ReleasedGood
<1>8. CASE op \in {"exec", "commit", "rollback"} /\ ~Valid(s, c)
  <2>1. r = Reply(s, c, "refused")  BY <1>8 DEF Served, Op, Begins
  <2> QED  BY <1>0, <1>4, <2>1
<1>9. CASE op = "exec" /\ Valid(s, c)
  <2>1. r \in Executed(s, c)  BY <1>9 DEF Served, Op, Begins
  <2> QED  BY <1>9, <2>1, ExecutedGood DEF Valid
<1>10. CASE op = "commit" /\ Valid(s, c)
  <2>1. PICK t \in Committed(s, c) : r = Pump(t)  BY <1>10 DEF Served, Op, Begins
  <2>2. Good(t, Y, call) /\ s.f =< t.f  BY <1>10, CommittedGood DEF Valid
  <2> QED  BY <1>3, <2>1, <2>2
<1>11. CASE op = "rollback" /\ Valid(s, c)
  <2>1. PICK t \in Undone(s, c) : r = Pump(t)  BY <1>11 DEF Served, Op, Begins
  <2>2. Good(t, Y, call) /\ s.f =< t.f  BY <1>11, UndoneGood
  <2> QED  BY <1>3, <2>1, <2>2
<1> QED  BY <1>1, <1>5, <1>6, <1>7, <1>8, <1>9, <1>10, <1>11 DEF Ops

(* The worker shuts down: what waits in the coordinator is refused, and    *)
(* the transaction that is active is undone (shutdown).                    *)
LEMMA ShutGood ==
  ASSUME NEW s, NEW X, Good(s, X, call), Known(call)
  PROVE  LET t == Refuse(Cleared(s), s.h.q)
         IN  Good(Reply([t EXCEPT !.h = NewHost], "close", "ok"), X, call)
<1> DEFINE q == s.h.q
           out == s.out
           r == [i \in DOMAIN q |-> [to |-> q[i], ans |-> "refused"]]
           a == [to |-> "close", ans |-> "ok"]
           u == [Refuse(Cleared(s), q) EXCEPT !.h = NewHost]
           t == Reply(u, "close", "ok")
<1>1. s \in States /\ s.h \in HostType /\ q \in Seq(Callers) /\ out \in Seq(ReplyType)
      /\ Once(q) /\ Single(out) /\ X \subseteq Callers
  BY DEF Good, Placed, States, HostType
<1>2. /\ t.h = NewHost /\ t.d = s.d /\ t.f = s.f /\ t.out = Append(out \o r, a)
      /\ t = [h |-> t.h, d |-> t.d, out |-> t.out, f |-> t.f]
  <2> DEFINE w == Cleared(s)
             v == Refuse(w, q)
  <2>1. w.d = s.d /\ w.out = out /\ w.f = s.f /\ w = [h |-> w.h, d |-> w.d, out |-> w.out, f |-> w.f]
    BY <1>1 DEF States, Cleared
  <2>2. v = [w EXCEPT !.out = @ \o r]  BY DEF Refuse
  <2> HIDE DEF w, r
  <2>3. v = [h |-> w.h, d |-> s.d, out |-> out \o r, f |-> s.f]  BY <2>1, <2>2
  <2>4. u = [v EXCEPT !.h = NewHost]  BY DEF w
  <2> HIDE DEF v, u, out
  <2>5. u = [h |-> NewHost, d |-> s.d, out |-> out \o r, f |-> s.f]  BY <2>3, <2>4
  <2>6. t = [u EXCEPT !.out = Append(@, a)]  BY DEF Reply
  <2> HIDE DEF t, a
  <2> QED  BY <2>5, <2>6
<1> HIDE DEF t
<1>3. DOMAIN q = 1..Len(q) /\ Len(q) \in Nat /\ (\A i \in 1..Len(q) : q[i] \in Callers)
      /\ \A c : Contains(q, c) <=> \E i \in 1..Len(q) : q[i] = c
  BY <1>1 DEF Contains
<1>4. r \in Seq(ReplyType) /\ Len(r) = Len(q)
      /\ \A i \in 1..Len(q) : r[i].to = q[i] /\ r[i].ans = "refused"
  <2>1. \A i \in 1..Len(q) : [to |-> q[i], ans |-> "refused"] \in ReplyType
    BY <1>3 DEF ReplyType, Answers
  <2>2. r \in [1..Len(q) -> ReplyType]  BY <1>3, <2>1
  <2>3. r \in Seq(ReplyType) /\ Len(r) = Len(q)  BY <1>3, <2>2
  <2> QED  BY <1>3, <2>3
<1> HIDE DEF r
<1>5. ASSUME NEW c \in Callers, Contains(q, c)
      PROVE  ~To(out, c) /\ c \notin X /\ call[c].st = "sent"
             /\ call[c].op \in {"begin", "core", "open"}
  BY <1>5 DEF Good, Placed, Waits
<1>6. /\ t.out \in Seq(ReplyType) /\ Single(t.out)
      /\ \A e \in Callers : To(t.out, e) <=> To(out, e) \/ Contains(q, e)
      /\ \A e \in Callers : \A b :
           Tell(t.out, e, b) <=> Tell(out, e, b) \/ (b = "refused" /\ Contains(q, e))
  <2>1. a \in ReplyType /\ a.to = "close" /\ a.ans = "ok"  BY DEF ReplyType, Answers
  <2> HIDE DEF out, q, a
  <2>2. \A e : To(r, e) <=> Contains(q, e)  BY <1>3, <1>4 DEF To
  <2>3. \A e, b : Tell(r, e, b) <=> b = "refused" /\ Contains(q, e)
    BY <1>3, <1>4 DEF Tell
  <2>4. Single(r)  BY <1>1, <1>4 DEF Single, Once
  <2>5. \A e \in Callers : ~(To(out, e) /\ To(r, e))  BY <1>5, <2>2
  <2>6. /\ out \o r \in Seq(ReplyType) /\ Single(out \o r)
        /\ \A e : To(out \o r, e) <=> To(out, e) \/ To(r, e)
        /\ \A e, b : Tell(out \o r, e, b) <=> Tell(out, e, b) \/ Tell(r, e, b)
    BY <1>1, <1>4, <2>4, <2>5, RepliedAll
  <2> DEFINE all == out \o r
  <2> HIDE DEF all
  <2>7. "close" \notin Callers  BY DbWorkerAssumption
  <2>8. /\ Append(all, a) \in Seq(ReplyType) /\ Single(Append(all, a))
        /\ \A e : To(Append(all, a), e) <=> To(all, e) \/ e = a.to
        /\ \A e, b : Tell(Append(all, a), e, b) <=> Tell(all, e, b) \/ (e = a.to /\ b = a.ans)
    <3>1. all \in Seq(ReplyType) /\ Single(all)  BY <2>6 DEF all
    <3> QED  BY <2>1, <2>7, <3>1, Replied
  <2>9. t.out = Append(all, a)  BY <1>2 DEF all
  <2> QED  BY <2>1, <2>2, <2>3, <2>6, <2>7, <2>8, <2>9 DEF all
<1>7. /\ t.h.q = <<>> /\ t.h.tx = None /\ t.h.native = FALSE /\ t.h.pend = {}
      /\ t.h \in HostType
  BY <1>2 DEF NewHost, HostType
<1>8. t \in States  BY <1>1, <1>2, <1>6, <1>7 DEF States
<1>9. Once(t.h.q) /\ \A c : ~Contains(t.h.q, c)  BY <1>7 DEF Once, Contains
<1>10. Placed(t, X, call)
  <2>1. ASSUME NEW c \in Callers
        PROVE  /\ c \in X => ~Contains(t.h.q, c)
               /\ To(t.out, c) => ~Waits(c, t, X)
               /\ Waits(c, t, X) \/ To(t.out, c) => call[c].st = "sent"
               /\ Contains(t.h.q, c) => call[c].op \in {"begin", "core", "open"}
    BY <1>5, <1>6, <1>9 DEF Good, Placed, Waits
  <2> QED  BY <1>1, <1>6, <1>9, <2>1 DEF Placed
<1>11. Lent(t.h)  BY <1>7 DEF Lent
<1>12. ASSUME NEW c \in Flows, ~Persists PROVE FlowOK(c, t, X, call)
  <2>1. FlowOK(c, s, X, call) /\ c # None /\ c \in Callers
    BY <1>12, DbWorkerAssumption DEF Good, Callers
  <2>2. CASE Contains(q, c)
    <3>1. c \notin Core  BY DbWorkerAssumption
    <3>2. call[c].op = "begin" /\ call[c].st = "sent"
      BY <1>5, <2>1, <2>2, <3>1, DbWorkerAssumption DEF Known
    <3> QED  BY <1>2, <1>7, <2>1, <3>2 DEF FlowOK
  <2>3. CASE ~Contains(q, c)
    <3>1. \A b : Tell(t.out, c, b) <=> Tell(s.out, c, b)  BY <1>6, <2>1, <2>3
    <3> QED  BY <1>2, <1>7, <1>9, <2>1, <3>1, FlowFrame
  <2> QED  BY <2>2, <2>3
<1>13. ASSUME NEW c \in Core PROVE CoreOK(c, t, X, call)
  <2>1. CoreOK(c, s, X, call) /\ c \in Callers  BY DEF Good, Callers
  <2>2. CASE Contains(q, c)
    <3>1. c \notin s.d.core  BY <2>1, <2>2 DEF CoreOK, Waits
    <3>2. ~Tell(t.out, c, "ok") /\ call[c].st = "sent"
      <4>1. ~Tell(out, c, "ok") /\ call[c].st = "sent"  BY <1>5, <2>1, <2>2 DEF To, Tell
      <4> QED  BY <1>6, <2>1, <4>1
    <3> QED  BY <1>2, <3>1, <3>2 DEF CoreOK, Told
  <2>3. CASE ~Contains(q, c)
    <3>1. \A b : Tell(t.out, c, b) <=> Tell(s.out, c, b)  BY <1>6, <2>1, <2>3
    <3> QED  BY <1>2, <1>9, <2>1, <3>1, CoreFrame
  <2> QED  BY <2>2, <2>3
<1> QED  BY <1>8, <1>10, <1>11, <1>12, <1>13 DEF Good, t

-----------------------------------------------------------------------------
(* What main does with a request keeps what is known.                      *)

(* The first answer is taken (the message handler).                        *)
LEMMA Received ==
  ASSUME NEW out \in Seq(ReplyType), out # <<>>
  PROVE  /\ Head(out) \in ReplyType /\ Tail(out) \in Seq(ReplyType)
         /\ \A e : To(out, e) <=> To(Tail(out), e) \/ e = Head(out).to
         /\ \A e, b : Tell(out, e, b) <=> Tell(Tail(out), e, b)
                                          \/ (e = Head(out).to /\ b = Head(out).ans)
         /\ Single(out) => /\ Single(Tail(out))
                           /\ Head(out).to \in Callers => ~To(Tail(out), Head(out).to)
<1> DEFINE r == Head(out)
           o == Tail(out)
<1>1. r = out[1] /\ 1 \in 1..Len(out) /\ o \in Seq(ReplyType) /\ r \in ReplyType  OBVIOUS
<1>2. Len(o) = Len(out) - 1
      /\ \A i \in 1..Len(o) : o[i] = out[i + 1] /\ i + 1 \in 1..Len(out)  OBVIOUS
<1>3. ASSUME NEW i \in 1..Len(out), i # 1 PROVE i - 1 \in 1..Len(o) /\ o[i - 1] = out[i]
  BY <1>2, <1>3
<1> HIDE DEF r, o
<1>4. \A e : To(o, e) => To(out, e)  BY <1>2 DEF To
<1>5. To(out, r.to) /\ Tell(out, r.to, r.ans)  BY <1>1 DEF To, Tell
<1>6. \A e : To(out, e) => To(o, e) \/ e = r.to  BY <1>1, <1>3 DEF To
<1>7. \A e, b : Tell(o, e, b) => Tell(out, e, b)  BY <1>2 DEF Tell
<1>8. \A e, b : Tell(out, e, b) => Tell(o, e, b) \/ (e = r.to /\ b = r.ans)
  BY <1>1, <1>3 DEF Tell
<1>9. Single(out) => Single(o) /\ (r.to \in Callers => ~To(o, r.to))
  <2> SUFFICES ASSUME Single(out) PROVE Single(o) /\ (r.to \in Callers => ~To(o, r.to))
    OBVIOUS
  <2>1. ASSUME NEW i \in 1..Len(o), NEW j \in 1..Len(o), o[i].to = o[j].to, o[i].to \in Callers
        PROVE  i = j
    <3>1. i + 1 = j + 1  BY <1>2, <2>1 DEF Single
    <3> QED  BY <3>1
  <2>2. ASSUME NEW i \in 1..Len(o), o[i].to = r.to, r.to \in Callers PROVE FALSE
    <3>1. i + 1 = 1  BY <1>1, <1>2, <2>2 DEF Single
    <3> QED  BY <3>1
  <2> QED  BY <2>1, <2>2 DEF Single, To
<1> QED  BY <1>1, <1>4, <1>5, <1>6, <1>7, <1>8, <1>9 DEF r, o

(* An answer reaches its caller, who knows what it said (onMessage).       *)
LEMMA DeliveredGood ==
  ASSUME NEW s, NEW X, NEW k \in [Callers -> CallType], Good(s, X, k), s.out # <<>>,
         NEW t, t \in States, t.h = s.h, t.d = s.d, t.out = Tail(s.out)
  PROVE  /\ Head(s.out) \in ReplyType
         /\ Head(s.out).to \notin Callers => Good(t, X, k)
         /\ Head(s.out).to \in Callers =>
              Good(t, X, [k EXCEPT ![Head(s.out).to] =
                            [@ EXCEPT !.st = "done", !.ans = Head(s.out).ans]])
<1> DEFINE r == Head(s.out)
           c == r.to
           l == IF c \in Callers THEN [k EXCEPT ![c] = [k[c] EXCEPT !.st = "done", !.ans = r.ans]]
                ELSE k
<1>1. s.out \in Seq(ReplyType) /\ Single(s.out)  BY DEF Good, Placed, States
<1>2. /\ r \in ReplyType /\ t.out \in Seq(ReplyType) /\ Single(t.out)
      /\ \A e : To(s.out, e) <=> To(t.out, e) \/ e = c
      /\ \A e, b : Tell(s.out, e, b) <=> Tell(t.out, e, b) \/ (e = c /\ b = r.ans)
      /\ c \in Callers => ~To(t.out, c)
  BY <1>1, Received
<1> HIDE DEF r
<1>3. \A e \in Callers : /\ l[e].op = k[e].op
                         /\ e # c => l[e] = k[e]
                         /\ e = c => l[e].st = "done" /\ l[e].ans = r.ans
  BY <1>2 DEF CallType
<1>4. \A e \in Callers : e = c => k[e].st = "sent" /\ ~Waits(e, s, X)
  BY <1>2 DEF Good, Placed
<1> HIDE DEF l
<1>5. ASSUME NEW e \in Callers
      PROVE  /\ \A b : Told(e, b, t, l) <=> Told(e, b, s, k)
             /\ Waits(e, t, X) <=> Waits(e, s, X)
             /\ l[e].st = "free" <=> k[e].st = "free"
  <2>1. CASE e = c
    <3>1. \A b : ~Tell(t.out, e, b)  BY <1>2, <2>1 DEF To, Tell
    <3> QED  BY <1>2, <1>3, <1>4, <2>1, <3>1 DEF Told, Waits
  <2>2. CASE e # c
    BY <1>2, <1>3, <2>2 DEF Told, Waits
  <2> QED  BY <2>1, <2>2
<1>6. Placed(t, X, l)
  <2>1. ASSUME NEW e \in Callers
        PROVE  /\ e \in X => ~Contains(t.h.q, e)
               /\ To(t.out, e) => ~Waits(e, t, X)
               /\ Waits(e, t, X) \/ To(t.out, e) => l[e].st = "sent"
               /\ Contains(t.h.q, e) => l[e].op \in {"begin", "core", "open"}
    <3>1. CASE e = c
      BY <1>2, <1>3, <1>4, <1>5, <3>1 DEF Good, Placed
    <3>2. CASE e # c
      BY <1>2, <1>3, <1>5, <3>2 DEF Good, Placed
    <3> QED  BY <3>1, <3>2
  <2> QED  BY <1>2, <2>1 DEF Good, Placed
<1>7. Lent(t.h)  BY DEF Good
<1>8. ASSUME NEW e \in Flows, ~Persists PROVE FlowOK(e, t, X, l)
  <2>1. FlowOK(e, s, X, k) /\ e \in Callers  BY <1>8 DEF Good, Callers
  <2> QED  BY <1>3, <1>5, <2>1 DEF FlowOK
<1>9. ASSUME NEW e \in Core PROVE CoreOK(e, t, X, l)
  <2>1. CoreOK(e, s, X, k) /\ e \in Callers  BY DEF Good, Callers
  <2> QED  BY <1>5, <2>1 DEF CoreOK
<1>10. Good(t, X, l)  BY <1>6, <1>7, <1>8, <1>9 DEF Good
<1> QED  BY <1>2, <1>10 DEF l, r

\* The callers in E are told a.
Ended(k, l, E, a) ==
  \A e \in Callers : l[e] = IF e \in E THEN [k[e] EXCEPT !.st = "done", !.ans = a] ELSE k[e]

(* The requests of a worker that ended are rejected, except those that are *)
(* parked: they never reached it (_markDead).                              *)
LEMMA LostGood ==
  ASSUME NEW s, NEW X, NEW k \in [Callers -> CallType], Good(s, X, k), NEW Y \in SUBSET X,
         NEW t, t \in States, t.h = NewHost, t.d = s.d, t.out = <<>>,
         NEW l, Ended(k, l, {e \in Callers : k[e].st = "sent" /\ e \notin Y}, "lost")
  PROVE  Good(t, Y, l)
<1>0. Len(t.out) = 0 /\ Len(t.h.q) = 0  BY DEF NewHost
<1>1. \A e : ~To(t.out, e) /\ \A b : ~Tell(t.out, e, b)  BY <1>0 DEF To, Tell
<1>2. /\ t.h.tx = None /\ t.h.native = FALSE /\ t.h.pend = {}
      /\ \A e : ~Contains(t.h.q, e)
  BY <1>0 DEF NewHost, Contains
<1>3. ASSUME NEW e \in Callers
      PROVE  /\ l[e].op = k[e].op
             /\ l[e].st = "free" <=> k[e].st = "free"
             /\ e \in Y => k[e].st = "sent" /\ l[e].st = "sent"
             /\ \A b \in {"ok", "refused"} : Told(e, b, t, l) => Told(e, b, s, k)
             /\ Waits(e, t, Y) => Waits(e, s, X)
  <2>0. k[e] \in CallType  OBVIOUS
  <2>1. CASE k[e].st = "sent" /\ e \notin Y
    <3>1. l[e].op = k[e].op /\ l[e].st = "done" /\ l[e].ans = "lost"
      BY <2>0, <2>1 DEF CallType, Ended
    <3> QED  BY <1>1, <1>2, <2>1, <3>1 DEF Told, Waits
  <2>2. CASE ~(k[e].st = "sent" /\ e \notin Y)
    <3>1. l[e] = k[e]  BY <2>2 DEF Ended
    <3>2. e \in Y => k[e].st = "sent"  BY DEF Good, Placed, Waits
    <3> QED  BY <1>1, <1>2, <3>1, <3>2 DEF Told, Waits
  <2> QED  BY <2>1, <2>2
<1>4. Placed(t, Y, l)
  <2>1. Once(t.h.q) /\ Single(t.out)  BY <1>0 DEF Once, Single
  <2>2. Y \subseteq Callers  BY DEF Good, Placed
  <2>3. ASSUME NEW e \in Callers
        PROVE  /\ e \in Y => ~Contains(t.h.q, e)
               /\ To(t.out, e) => ~Waits(e, t, Y)
               /\ Waits(e, t, Y) \/ To(t.out, e) => l[e].st = "sent"
               /\ Contains(t.h.q, e) => l[e].op \in {"begin", "core", "open"}
    BY <1>1, <1>2, <1>3 DEF Waits
  <2> QED  BY <2>1, <2>2, <2>3 DEF Placed
<1>5. Lent(t.h)  BY <1>2 DEF Lent
<1>6. ASSUME NEW e \in Flows, ~Persists PROVE FlowOK(e, t, Y, l)
  <2>1. FlowOK(e, s, X, k) /\ e \in Callers /\ e # None
    BY <1>6, DbWorkerAssumption DEF Good, Callers
  <2> QED  BY <1>2, <1>3, <2>1 DEF FlowOK
<1>7. ASSUME NEW e \in Core PROVE CoreOK(e, t, Y, l)
  <2>1. CoreOK(e, s, X, k) /\ e \in Callers  BY DEF Good, Callers
  <2> QED  BY <1>3, <2>1 DEF CoreOK
<1> QED  BY <1>4, <1>5, <1>6, <1>7 DEF Good

(* The requests that were parked are refused: there is no worker to send   *)
(* them to (respawn).                                                      *)
LEMMA ParkedGood ==
  ASSUME NEW s, NEW X, NEW k \in [Callers -> CallType], Good(s, X, k), NEW P \in SUBSET X,
         NEW l, Ended(k, l, P, "refused")
  PROVE  Good(s, X \ P, l)
<1> DEFINE Y == X \ P
<1>1. X \subseteq Callers  BY DEF Good, Placed
<1>2. ASSUME NEW e \in P
      PROVE  /\ e \in X /\ e \in Callers /\ k[e].st = "sent" /\ ~To(s.out, e) /\ ~Waits(e, s, Y)
             /\ l[e].op = k[e].op /\ l[e].st = "done" /\ l[e].ans = "refused"
             /\ \A b : Told(e, b, s, l) <=> b = "refused"
             /\ \A b : ~Told(e, b, s, k)
  <2>1. e \in X /\ e \in Callers /\ k[e].st = "sent" /\ ~To(s.out, e) /\ ~Waits(e, s, Y)
        /\ k[e] \in CallType
    BY <1>1 DEF Good, Placed, Waits
  <2>2. l[e].op = k[e].op /\ l[e].st = "done" /\ l[e].ans = "refused"  BY <2>1 DEF CallType, Ended
  <2>3. \A b : ~Tell(s.out, e, b)  BY <2>1 DEF To, Tell
  <2> QED  BY <2>1, <2>2, <2>3 DEF Told
<1>3. ASSUME NEW e \in Callers, e \notin P
      PROVE  l[e] = k[e] /\ (Waits(e, s, Y) <=> Waits(e, s, X))
             /\ \A b : Told(e, b, s, l) <=> Told(e, b, s, k)
  BY <1>3 DEF Told, Waits, Ended
<1>4. Placed(s, Y, l)
  <2>1. ASSUME NEW e \in Callers
        PROVE  /\ e \in Y => ~Contains(s.h.q, e)
               /\ To(s.out, e) => ~Waits(e, s, Y)
               /\ Waits(e, s, Y) \/ To(s.out, e) => l[e].st = "sent"
               /\ Contains(s.h.q, e) => l[e].op \in {"begin", "core", "open"}
    <3>1. CASE e \in P
      BY <1>2, <3>1 DEF Waits
    <3>2. CASE e \notin P
      BY <1>3, <3>2 DEF Good, Placed
    <3> QED  BY <3>1, <3>2
  <2> QED  BY <1>1, <2>1 DEF Good, Placed
<1>5. ASSUME NEW e \in Flows, ~Persists PROVE FlowOK(e, s, Y, l)
  <2>1. FlowOK(e, s, X, k) /\ e \in Callers  BY <1>5 DEF Good, Callers
  <2>2. CASE e \in P
    <3>1. \A b : ~Told(e, b, s, k)  BY <1>2, <2>2
    <3>2. Told(e, "refused", s, l) /\ ~Told(e, "ok", s, l)  BY <1>2, <2>2
    <3>3. e \in X /\ l[e].op = k[e].op /\ l[e].st = "done" /\ k[e].st = "sent" /\ ~Waits(e, s, Y)
      BY <1>2, <2>2
    <3> HIDE DEF Y
    <3> QED  BY <2>1, <3>1, <3>2, <3>3 DEF FlowOK
  <2>3. CASE e \notin P
    BY <1>3, <2>1, <2>3 DEF FlowOK
  <2> QED  BY <2>2, <2>3
<1>6. ASSUME NEW e \in Core PROVE CoreOK(e, s, Y, l)
  <2>1. CoreOK(e, s, X, k) /\ e \in Callers  BY DEF Good, Callers
  <2>2. CASE e \in P
    <3>1. ~Told(e, "ok", s, l) /\ e \in X  BY <1>2, <2>2
    <3>2. e \notin s.d.core  BY <2>1, <3>1 DEF CoreOK, Waits
    <3> QED  BY <3>1, <3>2 DEF CoreOK
  <2>3. CASE e \notin P
    BY <1>3, <2>1, <2>3 DEF CoreOK
  <2> QED  BY <2>2, <2>3
<1> QED  BY <1>4, <1>5, <1>6 DEF Good

\* What a transaction may ask for after the request r.
MayAsk(r, op) ==
  \/ r.st = "free" /\ op = "begin"
  \/ r.st = "done" /\ r.op = "begin" /\ op \in {"exec", "rollback"}
  \/ r.st = "done" /\ r.op = "exec" /\ r.ans = "ok" /\ op \in {"exec", "commit", "rollback"}
  \/ r.st = "done" /\ r.op \in {"exec", "commit"} /\ op = "rollback"

(* A caller that waits for nothing asks for something, which is refused at *)
(* once or sent (guard).                                                   *)
LEMMA AskedGood ==
  ASSUME NEW s, NEW X, NEW k, Good(s, X, k), NEW c \in Callers, k[c].st # "sent",
         NEW op, c \in Core => k[c].st = "free", c \in Flows /\ ~Persists => MayAsk(k[c], op),
         NEW l, \A e \in Callers : e # c => l[e] = k[e], l[c].op = op,
         NEW Y, \/ l[c].st = "sent" /\ Y = X \cup {c}
                \/ l[c].st = "done" /\ l[c].ans = "refused" /\ Y = X
  PROVE  Good(s, Y, l)
<1>1. ~Waits(c, s, X) /\ ~To(s.out, c) /\ X \subseteq Callers  BY DEF Good, Placed
<1>2. \A b : ~Tell(s.out, c, b)  BY <1>1 DEF To, Tell
<1>3. c \notin X /\ ~Contains(s.h.q, c)  BY <1>1 DEF Waits
<1>4. \A b : Told(c, b, s, l) => b = "refused"  BY <1>2 DEF Told
<1>5. ASSUME NEW e \in Callers, e # c
      PROVE  l[e] = k[e] /\ (Waits(e, s, Y) <=> Waits(e, s, X))
             /\ \A b : Told(e, b, s, l) <=> Told(e, b, s, k)
  BY <1>5 DEF Told, Waits
<1>6. Placed(s, Y, l)
  <2>1. ASSUME NEW e \in Callers
        PROVE  /\ e \in Y => ~Contains(s.h.q, e)
               /\ To(s.out, e) => ~Waits(e, s, Y)
               /\ Waits(e, s, Y) \/ To(s.out, e) => l[e].st = "sent"
               /\ Contains(s.h.q, e) => l[e].op \in {"begin", "core", "open"}
    <3>1. CASE e = c
      BY <1>1, <1>3, <3>1 DEF Waits
    <3>2. CASE e # c
      BY <1>5, <3>2 DEF Good, Placed
    <3> QED  BY <3>1, <3>2
  <2>2. Y \subseteq Callers  BY <1>1
  <2> QED  BY <2>1, <2>2 DEF Good, Placed
<1>7. ASSUME NEW e \in Flows, ~Persists PROVE FlowOK(e, s, Y, l)
  <2>1. FlowOK(e, s, X, k) /\ e \in Callers  BY <1>7 DEF Good, Callers
  <2>2. CASE e = c
    <3>1. MayAsk(k[c], op) /\ FlowOK(c, s, X, k)  BY <1>7, <2>1, <2>2
    <3> DEFINE kept == Of(c, s.d.rows)
               did == Of(c, s.d.ran)
    <3>2. ~Told(c, "ok", s, l) /\ l[c].st # "free" /\ l[c].op = op
      <4>1. ~Told(c, "ok", s, l)  BY <1>4
      <4> QED  BY <4>1
    <3>3. \A b : Told(c, b, s, k) => k[c].st = "done" /\ k[c].ans = b  BY <1>2 DEF Told
    <3>4. op \in {"begin", "exec", "commit", "rollback"}  BY <3>1 DEF MayAsk
    <3>5. op # "rollback" => kept = {}  BY <3>1 DEF FlowOK, MayAsk
    <3>6. op = "begin" => did = {} /\ s.h.tx # c  BY <3>1 DEF FlowOK, MayAsk
    <3>7. kept # {} => kept = did /\ s.h.tx # c  BY <3>1 DEF FlowOK
    <3>8. s.h.tx = c /\ s.h.native => Of(c, s.h.pend) = did  BY <3>1 DEF FlowOK
    <3>9. s.h.tx = c /\ ~s.h.native => op = "rollback"
      <4>1. SUFFICES ASSUME s.h.tx = c, ~s.h.native PROVE op = "rollback"  OBVIOUS
      <4>2. k[c].op = "rollback" \/ (k[c].op = "exec" /\ k[c].st = "done" /\ k[c].ans = "refused")
        BY <3>1, <3>3, <4>1 DEF FlowOK
      <4>3. k[c].st # "free"  BY <3>1, <4>1 DEF FlowOK
      <4> QED  BY <3>1, <4>2, <4>3 DEF MayAsk
    <3> HIDE DEF kept, did
    <3> QED  BY <2>2, <3>2, <3>4, <3>5, <3>6, <3>7, <3>8, <3>9 DEF FlowOK, kept, did
  <2>3. CASE e # c
    BY <1>5, <2>1, <2>3 DEF FlowOK
  <2> QED  BY <2>2, <2>3
<1>8. ASSUME NEW e \in Core PROVE CoreOK(e, s, Y, l)
  <2>1. CoreOK(e, s, X, k) /\ e \in Callers  BY DEF Good, Callers
  <2>2. CASE e = c
    <3>1. e \notin s.d.core  BY <2>1, <2>2 DEF CoreOK
    <3>2. ~Told(e, "ok", s, l)  BY <1>4, <2>2
    <3> QED  BY <3>1, <3>2 DEF CoreOK
  <2>3. CASE e # c
    BY <1>5, <2>1, <2>3 DEF CoreOK
  <2> QED  BY <2>2, <2>3
<1> QED  BY <1>6, <1>7, <1>8 DEF Good

-----------------------------------------------------------------------------
(* Workers.  The one main talks to is the last spawned unless it is dead;  *)
(* a respawn goes on only while it is dead, and each one was made because  *)
(* a worker or a start failed, so that they never run out.                 *)

Lives ==
  /\ life \in [Workers -> {"none", "starting", "up", "exiting", "ended"}]
  /\ cur \in Workers /\ att \in Workers /\ dead \in BOOLEAN
  /\ sup \in {"idle", "backoff", "starting", "register"}
  /\ restarts \in 0..MAX_RESTARTS /\ perm \in BOOLEAN
  /\ closing \in {"no", "asked", "terminate", "settle", "closed"}
  /\ faults \in 0..MaxFaults
  /\ cur =< att /\ att =< faults + 1
  /\ life[cur] \in {"up", "exiting", "ended"}
  /\ ~dead => sup = "idle" /\ cur = att
  /\ dead => life[cur] = "ended" /\ wire = <<>> /\ replies = <<>> /\ host = NewHost
  /\ dead /\ sup = "idle" => perm \/ closing # "no"
  /\ perm => dead /\ sup = "idle"
  /\ sup = "idle" => park = <<>>
  /\ sup = "backoff" => att =< faults
  /\ sup \in {"starting", "register"} => cur < att
  /\ sup = "starting" => life[att] = "starting"
  /\ ~dead /\ life[cur] = "ended" /\ closing = "no" => att =< faults
  /\ life[cur] = "exiting" => closing # "no"
  /\ Contains(wire, "close") => closing # "no"

\* What is parked and what is on its way to the worker.
Mail ==
  /\ park \in Seq(Callers) /\ wire \in Seq(Callers \cup {"close"})
  /\ Once(park) /\ Once(wire)
  /\ \A c \in Callers : ~(Contains(park, c) /\ Contains(wire, c))

(* Of a request that is sent or refused, only the mail changes (guard).    *)
LEMMA IssueLives ==
  ASSUME Lives, NEW c \in Callers, NEW op, Mail, Issue(c, op),
         UNCHANGED <<life, cur, dead, sup, att, restarts, perm, closing>>,
         UNCHANGED <<replies, host, faults>>
  PROVE  Lives'
<1>1. c # "close"  BY DbWorkerAssumption
<1>2. Contains(wire', "close") => Contains(wire, "close")
  <2>1. CASE wire' = Append(wire, c)
    <3>1. wire \in Seq(Callers \cup {"close"}) /\ c \in Callers \cup {"close"}  BY DEF Mail
    <3>2. Contains(Append(wire, c), "close") => Contains(wire, "close") \/ "close" = c
      BY <3>1, Appended
    <3> QED  BY <1>1, <2>1, <3>2
  <2>2. CASE wire' = wire
    BY <2>2
  <2> QED  BY <2>1, <2>2 DEF Issue
<1>3. CASE perm \/ closing # "no"
  BY <1>2, <1>3 DEF Lives, Issue
<1>4. CASE ~(perm \/ closing # "no") /\ sup # "idle"
  BY <1>2, <1>4 DEF Lives, Issue
<1>5. CASE ~(perm \/ closing # "no") /\ sup = "idle"
  BY <1>2, <1>5 DEF Lives, Issue
<1> QED  BY <1>3, <1>4, <1>5

(* A worker crashes.                                                       *)
LEMMA DiesLives == ASSUME Lives, Dies PROVE Lives'
<1>1. PICK w \in {cur} \cup (IF "dies" \in Window /\ sup = "register" THEN {att} ELSE {}) :
        life[w] \in {"up", "exiting"} /\ life' = [life EXCEPT ![w] = "ended"]
  BY DEF Dies
<1>2. w \in Workers /\ (w = cur \/ (w = att /\ sup = "register"))  BY <1>1 DEF Lives
<1>3. /\ faults' = faults + 1 /\ faults < MaxFaults
      /\ UNCHANGED <<cur, dead, sup, att, restarts, perm, closing, park, wire, replies, host>>
  BY DEF Dies, Fault
<1>4. faults' \in 0..MaxFaults  BY <1>3, DbWorkerAssumption DEF Lives
<1>5. \A v \in Workers : life'[v] = IF v = w THEN "ended" ELSE life[v]  BY <1>1 DEF Lives
<1>6. life' \in [Workers -> {"none", "starting", "up", "exiting", "ended"}]  BY <1>1 DEF Lives
<1>7. cur \in Nat /\ att \in Nat /\ faults \in Nat  BY DbWorkerAssumption DEF Lives, Workers
<1>8. sup \in {"starting", "register"} => cur # att  BY <1>7 DEF Lives
<1>9. w = cur \/ sup # "starting"  BY <1>2
<1>10. dead => life'[cur] = "ended"  BY <1>2, <1>5 DEF Lives
<1>11. life'[cur] \in {"up", "exiting", "ended"}
       /\ (life'[cur] = "exiting" => life[cur] = "exiting")
  BY <1>2, <1>5 DEF Lives
<1>12. sup = "starting" => life'[att] = "starting"  BY <1>5, <1>8, <1>9 DEF Lives
<1>13. att =< faults' /\ att =< faults' + 1  BY <1>3, <1>7 DEF Lives
<1> QED  BY <1>3, <1>4, <1>6, <1>10, <1>11, <1>12, <1>13 DEF Lives

(* Its end is noticed, and unless it was meant another is to follow.       *)
LEMMA DeathLives == ASSUME Lives, handleDeath PROVE Lives'
<1>1. /\ life[cur] = "ended" /\ ~dead /\ dead' = TRUE /\ wire' = <<>> /\ replies' = <<>>
      /\ host' = NewHost
      /\ closing' = IF closing = "asked" THEN "terminate" ELSE closing
      /\ UNCHANGED <<life, cur, att, faults>>
  BY DEF handleDeath
<1>2. sup = "idle" /\ park = <<>> /\ ~perm  BY <1>1 DEF Lives
<1>3. ~Contains(wire', "close")  BY <1>1 DEF Contains
<1>4. closing' \in {"no", "asked", "terminate", "settle", "closed"}
      /\ (closing' = "no" <=> closing = "no")
  BY <1>1 DEF Lives
<1>5. CASE closing = "no"
  <2>1. PICK r \in 0..restarts :
          IF r >= MAX_RESTARTS
          THEN perm' = TRUE /\ sup' = "idle" /\ park' = <<>> /\ restarts' = r
          ELSE restarts' = r + 1 /\ sup' = "backoff" /\ UNCHANGED <<perm, park>>
    BY <1>5, Zenon DEF handleDeath, TryAgain
  <2>2. r \in Nat /\ r =< MAX_RESTARTS /\ MAX_RESTARTS \in Nat
    BY DbWorkerAssumption DEF Lives
  <2>3. CASE r >= MAX_RESTARTS
    <3>1. perm' = TRUE /\ sup' = "idle" /\ park' = <<>> /\ restarts' = r  BY <2>1, <2>3
    <3> QED  BY <1>1, <1>3, <1>4, <2>2, <3>1 DEF Lives
  <2>4. CASE ~(r >= MAX_RESTARTS)
    <3>1. restarts' = r + 1 /\ sup' = "backoff" /\ UNCHANGED <<perm, park>>  BY <2>1, <2>4
    <3>2. att =< faults  BY <1>1, <1>5 DEF Lives
    <3> QED  BY <1>1, <1>2, <1>3, <1>4, <2>2, <2>4, <3>1, <3>2 DEF Lives
  <2> QED  BY <2>3, <2>4
<1>6. CASE closing # "no"
  <2>1. UNCHANGED <<sup, restarts, perm, park>>  BY <1>6 DEF handleDeath
  <2> QED  BY <1>1, <1>2, <1>3, <1>4, <1>6, <2>1 DEF Lives
<1> QED  BY <1>5, <1>6

(* A start that failed, or a new worker that was refused a source: another *)
(* attempt, or none any more (respawn).                                    *)
LEMMA AttemptLives ==
  ASSUME Lives, sup \in {"starting", "register"}, Fault, NextAttempt,
         life' \in [Workers -> {"none", "starting", "up", "exiting", "ended"}],
         life'[cur] = life[cur]
  PROVE  Lives'
<1>1. UNCHANGED <<cur, dead, att, closing, wire, replies, host>>
      /\ faults' = faults + 1 /\ faults < MaxFaults
  BY DEF NextAttempt, Fault
<1>2. PICK r \in 0..restarts :
        IF r >= MAX_RESTARTS
        THEN perm' = TRUE /\ sup' = "idle" /\ park' = <<>> /\ restarts' = r
        ELSE restarts' = r + 1 /\ sup' = "backoff" /\ UNCHANGED <<perm, park>>
  BY Zenon DEF NextAttempt, TryAgain
<1>3. r \in Nat /\ r =< MAX_RESTARTS /\ MAX_RESTARTS \in Nat /\ faults \in Nat /\ MaxFaults \in Nat
      /\ att \in Nat /\ cur \in Nat
  BY DbWorkerAssumption DEF Lives, Workers
<1>4. dead /\ ~perm /\ life[cur] = "ended"  BY DEF Lives
<1>5. faults' \in 0..MaxFaults /\ att =< faults' /\ att =< faults' + 1 /\ cur =< att
  BY <1>1, <1>3 DEF Lives
<1>6. CASE r >= MAX_RESTARTS
  <2>1. perm' = TRUE /\ sup' = "idle" /\ park' = <<>> /\ restarts' = r  BY <1>2, <1>6
  <2> QED  BY <1>1, <1>3, <1>4, <1>5, <2>1 DEF Lives
<1>7. CASE ~(r >= MAX_RESTARTS)
  <2>1. restarts' = r + 1 /\ sup' = "backoff" /\ UNCHANGED <<perm, park>>  BY <1>2, <1>7
  <2> QED  BY <1>1, <1>3, <1>4, <1>5, <1>7, <2>1 DEF Lives
<1> QED  BY <1>6, <1>7

(* The new worker takes over (respawn).                                    *)
LEMMA TakeOverLives ==
  ASSUME Lives, Mail, sup \in {"starting", "register"}, TakeOver PROVE Lives'
<1>1. /\ life' = [life EXCEPT ![att] = "up"] /\ cur' = att /\ dead' = FALSE /\ sup' = "idle"
      /\ park' = <<>> /\ UNCHANGED <<att, restarts, perm, closing, replies, host, faults>>
  BY DEF TakeOver
<1>2. life' \in [Workers -> {"none", "starting", "up", "exiting", "ended"}] /\ life'[cur'] = "up"
  BY <1>1 DEF Lives
<1>3. ~Contains(wire', "close")
  <2>1. wire = <<>> /\ ~Contains(<<>>, "close")  BY DEF Lives, Contains
  <2>2. CASE wire' = wire
    BY <2>1, <2>2
  <2>3. CASE wire' = wire \o park
    <3>1. park \in Seq(Callers) /\ "close" \notin Callers  BY DbWorkerAssumption DEF Mail
    <3>2. wire \o park = park  BY <2>1, <3>1
    <3> QED  BY <2>3, <3>1, <3>2 DEF Contains
  <2> QED  BY <2>2, <2>3 DEF TakeOver
<1>4. ~perm /\ att \in Nat /\ att =< att  BY DEF Lives, Workers
<1>5. cur' = att' /\ cur' \in Workers /\ cur' =< att' /\ dead' = FALSE /\ sup' = "idle" /\ park' = <<>>
      /\ UNCHANGED <<att, restarts, perm, closing, replies, host, faults>>
  BY <1>1, <1>4 DEF Lives
<1> QED  BY <1>2, <1>3, <1>4, <1>5 DEF Lives

(* The steps of a respawn (respawn).                                       *)
LEMMA RespawnLives == ASSUME Lives, Mail, Respawn PROVE Lives'
<1>0. cur \in Nat /\ att \in Nat /\ faults \in Nat  BY DbWorkerAssumption DEF Lives, Workers
<1>1. CASE SpawnAgain /\ closing # "no"
  <2>1. /\ sup = "backoff" /\ sup' = "idle" /\ park' = <<>>
        /\ UNCHANGED <<life, att, cur, dead, restarts, perm, closing, wire, replies, host, faults>>
    BY <1>1 DEF SpawnAgain
  <2> QED  BY <1>1, <2>1 DEF Lives
<1>2. CASE SpawnAgain /\ closing = "no"
  <2>1. /\ sup = "backoff" /\ sup' = "starting" /\ att' = att + 1
        /\ life' = [life EXCEPT ![att + 1] = "starting"]
        /\ UNCHANGED <<park, cur, dead, restarts, perm, closing, wire, replies, host, faults>>
    BY <1>2 DEF SpawnAgain
  <2>2. att =< faults /\ cur =< att /\ faults =< MaxFaults /\ cur \in Workers  BY <2>1 DEF Lives
  <2>3. att + 1 \in Workers  BY <1>0, <2>2, DbWorkerAssumption DEF Workers
  <2>4. /\ life' \in [Workers -> {"none", "starting", "up", "exiting", "ended"}]
        /\ life'[att'] = "starting" /\ life'[cur] = life[cur]
    BY <1>0, <2>1, <2>2, <2>3 DEF Lives
  <2>5. dead /\ ~perm  BY <2>1 DEF Lives
  <2>6. att' \in Workers /\ cur < att' /\ cur =< att' /\ att' =< faults + 1
    BY <1>0, <2>1, <2>2, <2>3
  <2> QED  BY <2>1, <2>4, <2>5, <2>6 DEF Lives
<1>3. CASE StartFails
  <2>1. sup = "starting" /\ Fault /\ life' = [life EXCEPT ![att] = "ended"] /\ NextAttempt
    BY <1>3 DEF StartFails
  <2>2. cur # att  BY <1>0, <2>1 DEF Lives
  <2>3. /\ life' \in [Workers -> {"none", "starting", "up", "exiting", "ended"}]
        /\ life'[cur] = life[cur]
    BY <2>1, <2>2 DEF Lives
  <2> QED  BY <2>1, <2>3, AttemptLives
<1>4. CASE StartReady
  <2>0. sup = "starting" /\ cur # att /\ dead /\ ~perm  BY <1>0, <1>4 DEF StartReady, Lives
  <2>1. CASE /\ closing # "no" /\ life' = [life EXCEPT ![att] = "ended"]
             /\ sup' = "idle" /\ park' = <<>>
             /\ UNCHANGED <<cur, dead, att, restarts, perm, closing, wire, replies, host, faults>>
    <3>1. /\ life' \in [Workers -> {"none", "starting", "up", "exiting", "ended"}]
          /\ life'[cur] = life[cur]
      BY <2>0, <2>1 DEF Lives
    <3> QED  BY <2>0, <2>1, <3>1 DEF Lives
  <2>2. CASE TakeOver
    BY <2>0, <2>2, TakeOverLives
  <2>3. CASE /\ closing = "no" /\ life' = [life EXCEPT ![att] = "up"] /\ sup' = "register"
             /\ UNCHANGED <<cur, dead, att, restarts, perm, closing, park, wire, replies, host, faults>>
    <3>1. /\ life' \in [Workers -> {"none", "starting", "up", "exiting", "ended"}]
          /\ life'[cur] = life[cur]
      BY <2>0, <2>3 DEF Lives
    <3> QED  BY <2>0, <2>3, <3>1 DEF Lives
  <2> QED  BY <1>4, <2>1, <2>2, <2>3 DEF StartReady
<1>5. CASE Registered
  <2>1. sup = "register"  BY <1>5 DEF Registered
  <2>2. CASE Fault /\ NextAttempt /\ UNCHANGED life
    BY <2>1, <2>2, AttemptLives DEF Lives
  <2>3. CASE TakeOver
    BY <2>1, <2>3, TakeOverLives
  <2> QED  BY <1>5, <2>2, <2>3 DEF Registered
<1> QED  BY <1>1, <1>2, <1>3, <1>4, <1>5 DEF Respawn

(* close() and the steps that lead to its end (close).                     *)
LEMMA CloseLives ==
  ASSUME Lives, Mail, Exits \/ Close \/ Terminate \/ Closed \/ Shutdown \/ Deliver PROVE Lives'
<1>1. CASE Exits
  <2>1. life[cur] = "exiting" /\ life' = [life EXCEPT ![cur] = "ended"]
        /\ UNCHANGED <<cur, dead, sup, att, restarts, perm, closing>>
        /\ UNCHANGED <<park, wire, replies, host, faults>>
    BY <1>1 DEF Exits
  <2>2. ~dead /\ sup = "idle" /\ closing # "no"  BY <2>1 DEF Lives
  <2>3. life' \in [Workers -> {"none", "starting", "up", "exiting", "ended"}] /\ life'[cur] = "ended"
    BY <2>1 DEF Lives
  <2> QED  BY <2>1, <2>2, <2>3 DEF Lives
<1>2. CASE Close
  <2>1. closing = "no" /\ UNCHANGED <<life, cur, dead, sup, att, restarts, perm>>
        /\ UNCHANGED <<park, replies, host, faults>>
    BY <1>2 DEF Close
  <2>2. CASE ~dead
    <3>1. closing' = "asked"  BY <1>2, <2>2 DEF Close
    <3> QED  BY <2>1, <2>2, <3>1 DEF Lives
  <2>3. CASE dead
    <3>1. closing' = "terminate" /\ wire' = wire  BY <1>2, <2>3 DEF Close
    <3> QED  BY <2>1, <2>3, <3>1 DEF Lives
  <2> QED  BY <2>2, <2>3 DEF Lives
<1>3. CASE Terminate
  <2>1. /\ closing = "terminate" /\ closing' = "settle" /\ life' = [life EXCEPT ![cur] = "ended"]
        /\ dead' = TRUE /\ wire' = <<>> /\ replies' = <<>> /\ host' = NewHost
        /\ UNCHANGED <<cur, sup, att, restarts, perm, park, faults>>
    BY <1>3 DEF Terminate
  <2>2. /\ life' \in [Workers -> {"none", "starting", "up", "exiting", "ended"}]
        /\ life'[cur] = "ended" /\ (sup = "starting" => life'[att] = "starting")
    BY <2>1 DEF Lives, Workers
  <2>3. sup # "idle" => dead  BY DEF Lives
  <2> QED  BY <2>1, <2>2, <2>3 DEF Lives
<1>4. CASE Closed
  BY <1>4 DEF Closed, Lives
<1>5. CASE Shutdown
  <2>1. /\ life[cur] = "up" /\ wire # <<>> /\ Head(wire) = "close" /\ wire' = Tail(wire)
        /\ life' = [life EXCEPT ![cur] = "exiting"] /\ faults' = faults
        /\ UNCHANGED <<cur, dead, sup, att, restarts, perm, closing, park>>
    BY <1>5 DEF Shutdown, Becomes, Reply, Refuse, Cleared, Now
  <2>2. ~dead  BY <2>1 DEF Lives
  <2>3. closing # "no"
    <3>1. Contains(wire, "close")  BY <2>1, HeadTaken DEF Mail
    <3> QED  BY <3>1 DEF Lives
  <2>4. life' \in [Workers -> {"none", "starting", "up", "exiting", "ended"}] /\ life'[cur] = "exiting"
    BY <2>1 DEF Lives
  <2> QED  BY <2>1, <2>2, <2>3, <2>4 DEF Lives
<1>6. CASE Deliver
  <2>1. /\ ~dead /\ UNCHANGED <<life, cur, dead, sup, att, restarts, perm, park, wire, host, faults>>
        /\ closing' \in {closing, "terminate"}
    BY <1>6 DEF Deliver
  <2> QED  BY <2>1 DEF Lives
<1> QED  BY <1>1, <1>2, <1>3, <1>4, <1>5, <1>6

-----------------------------------------------------------------------------
(* The invariant, and what a call of main does to it.                      *)

\* The callers whose requests have not reached the coordinator.
Pending == {c \in Callers : Contains(wire, c) \/ Contains(park, c)}

\* What the callers may have asked for.
Asking ==
  /\ Known(call) /\ Counted
  /\ reg \in BOOLEAN /\ flow \in [Flows -> Nat]
  /\ plug \in [at : {"off", "opening", "on", "stopping"}, h : 0..MaxHandles,
               cut : SUBSET Flows]
  /\ \A c \in Flows : flow[c] =< Asked[c]
  /\ \A c \in Flows : call[c].st = "free" \/ call[c].op = "begin" => flow[c] = 0
  /\ call[Ext].st # "free" \/ plug.at # "off" => plug.h \in 1..MaxHandles
  /\ plug.at \in {"off", "on"} => call[Ext].st # "sent"

Inv == Lives /\ Mail /\ Asking /\ Good(Now, Pending, call)

(* A call is refused, parked or posted (guard).                            *)
LEMMA IssueGood ==
  ASSUME Mail, Known(call), Good(Now, Pending, call), NEW c \in Callers, call[c].st # "sent",
         NEW op \in Ops, c \in Core => call[c].st = "free",
         c \in Flows /\ ~Persists => MayAsk(call[c], op), Issue(c, op),
         UNCHANGED <<host, db, replies, faults>>
  PROVE  /\ Mail' /\ Good(Now', Pending', call')
         /\ call' \in [Callers -> CallType]
         /\ call'[c].op = op /\ call'[c].st # "free"
         /\ \A e \in Callers : e # c => call'[e] = call[e]
<1> DEFINE sent == [op |-> op, st |-> "sent", ans |-> "none"]
           told == [sent EXCEPT !.st = "done", !.ans = "refused"]
<1>1. Now' = Now  BY DEF Now
<1>2. /\ wire \in Seq(Callers \cup {"close"}) /\ park \in Seq(Callers)
      /\ c \in Callers \cup {"close"} /\ call \in [Callers -> CallType]
  BY DEF Mail, Known
<1>3. ~Contains(wire, c) /\ ~Contains(park, c)
  <2>1. c \notin Pending  BY DEF Good, Placed, Waits
  <2> QED  BY <2>1 DEF Pending
<1>4. CASE perm \/ closing # "no"
  <2>1. call' = [call EXCEPT ![c] = told] /\ park' = park /\ wire' = wire
    BY <1>4 DEF Issue
  <2>2. told \in CallType /\ told.op = op /\ told.st = "done" /\ told.ans = "refused"
    BY DEF CallType, Answers
  <2> HIDE DEF told
  <2>3. Mail' /\ Pending' = Pending  BY <2>1 DEF Mail, Pending
  <2>4. call' \in [Callers -> CallType] /\ call'[c] = told
        /\ \A e \in Callers : e # c => call'[e] = call[e]
    BY <1>2, <2>1, <2>2
  <2>5. Good(Now, Pending', call')  BY <2>2, <2>3, <2>4, AskedGood
  <2> QED  BY <1>1, <2>2, <2>3, <2>4, <2>5
<1>5. CASE ~(perm \/ closing # "no")
  <2>1. /\ call' = [call EXCEPT ![c] = sent]
        /\ \/ park' = Append(park, c) /\ wire' = wire
           \/ wire' = Append(wire, c) /\ park' = park
    BY <1>5 DEF Issue
  <2>2. sent \in CallType /\ sent.op = op /\ sent.st = "sent"  BY DEF CallType, Answers
  <2> HIDE DEF sent
  <2>3. Mail' /\ Pending' = Pending \cup {c}
    <3>1. CASE park' = Append(park, c) /\ wire' = wire
      <4>1. /\ park' \in Seq(Callers) /\ Once(park')
            /\ \A e : Contains(park', e) <=> Contains(park, e) \/ e = c
        BY <1>2, <1>3, <3>1, Appended DEF Mail
      <4>2. Mail'  BY <1>3, <3>1, <4>1 DEF Mail
      <4>3. Pending' = Pending \cup {c}  BY <3>1, <4>1 DEF Pending
      <4> QED  BY <4>2, <4>3
    <3>2. CASE wire' = Append(wire, c) /\ park' = park
      <4>1. /\ wire' \in Seq(Callers \cup {"close"}) /\ Once(wire')
            /\ \A e : Contains(wire', e) <=> Contains(wire, e) \/ e = c
        BY <1>2, <1>3, <3>2, Appended DEF Mail
      <4>2. Mail'  BY <1>3, <3>2, <4>1 DEF Mail
      <4>3. Pending' = Pending \cup {c}  BY <3>2, <4>1 DEF Pending
      <4> QED  BY <4>2, <4>3
    <3> QED  BY <2>1, <3>1, <3>2
  <2>4. call' \in [Callers -> CallType] /\ call'[c] = sent
        /\ \A e \in Callers : e # c => call'[e] = call[e]
    BY <1>2, <2>1, <2>2
  <2>5. Good(Now, Pending', call')  BY <2>2, <2>3, <2>4, AskedGood
  <2> QED  BY <1>1, <2>2, <2>3, <2>4, <2>5
<1> QED  BY <1>4, <1>5

(* What the app and the platform ask for (guard, activate, deactivate,     *)
(* transaction).                                                           *)
LEMMA AskInv == ASSUME Inv, Ask PROVE Inv'
<1>0. /\ Lives /\ Mail /\ Asking /\ Good(Now, Pending, call) /\ Known(call)
      /\ call \in [Callers -> CallType]
  BY DEF Inv, Asking, Known
<1>1. Core \subseteq Callers /\ Flows \subseteq Callers /\ Ext \in Callers
      /\ Ext \notin Core /\ Ext \notin Flows /\ Core \cap Flows = {}
  BY DbWorkerAssumption DEF Callers
<1>2. ASSUME NEW c \in Core, CoreCall(c) PROVE Inv'
  <2>1. /\ call[c].st = "free" /\ Issue(c, "core") /\ UNCHANGED <<reg, plug, flow>>
        /\ UNCHANGED <<life, cur, dead, sup, att, restarts, perm, closing>>
        /\ UNCHANGED <<replies, host, db, faults>>
    BY <1>2 DEF CoreCall, Calls, sides
  <2>2. c \in Callers /\ c # Ext /\ c \notin Flows  BY <1>1
  <2>3. Lives'  BY <1>0, <2>1, <2>2, IssueLives
  <2>4. /\ Mail' /\ Good(Now', Pending', call') /\ call' \in [Callers -> CallType]
        /\ call'[c].op = "core" /\ call'[c].st # "free"
        /\ \A e \in Callers : e # c => call'[e] = call[e]
    BY <1>0, <2>1, <2>2, IssueGood DEF Ops
  <2>5. Known(call')
    <3>1. ASSUME NEW e \in Callers
          PROVE  /\ call'[e].op \in {"begin", "exec", "commit", "rollback"} => e \in Flows
                 /\ call'[e].op \in {"open", "release"} => e = Ext
                 /\ call'[e].op = "core" /\ call'[e].st # "free" => e \in Core
      <4>1. CASE e = c  BY <2>4, <4>1
      <4>2. CASE e # c  BY <1>0, <2>4, <4>2 DEF Known
      <4> QED  BY <4>1, <4>2
    <3> QED  BY <2>4, <3>1 DEF Known
  <2>6. Counted'
    <3>1. ASSUME NEW e \in Callers, call'[e].op = "exec" PROVE flow'[e] \in 1..Asked[e]
      BY <1>0, <2>1, <2>4, <3>1 DEF Asking, Counted
    <3> QED  BY <3>1 DEF Counted
  <2>7. Asking'  BY <1>0, <1>1, <2>1, <2>2, <2>4, <2>5, <2>6 DEF Asking
  <2> QED  BY <2>3, <2>4, <2>7 DEF Inv
<1>3. ASSUME NEW c \in Flows, transaction(c) PROVE Inv'
  <2>1. PICK op \in NextOps(c) : /\ Issue(c, op)
                                 /\ flow' = IF op = "exec" THEN [flow EXCEPT ![c] = @ + 1] ELSE flow
    BY <1>3 DEF transaction
  <2>2. /\ UNCHANGED <<reg, plug>>
        /\ UNCHANGED <<life, cur, dead, sup, att, restarts, perm, closing>>
        /\ UNCHANGED <<replies, host, db, faults>>
    BY <1>3 DEF transaction, Calls, sides
  <2>3. c \in Callers /\ c # Ext /\ c \notin Core /\ call[c] \in CallType  BY <1>0, <1>1
  <2>4. /\ op \in {"begin", "exec", "commit", "rollback"} /\ call[c].st # "sent"
        /\ op = "begin" => call[c].st = "free"
        /\ op = "exec" => flow[c] < Asked[c]
    <3>1. Asked[c] \in Nat \ {0} /\ flow[c] \in Nat
      BY <1>0, DbWorkerAssumption DEF Asking
    <3>2. CASE call[c].st = "free"
      <4>1. op = "begin"  BY <3>2 DEF NextOps
      <4> QED  BY <3>2, <4>1
    <3>3. CASE call[c].st = "done" /\ call[c].op = "begin"
      <4>1. op \in {"exec", "rollback"}  BY <3>3 DEF NextOps
      <4>2. flow[c] = 0  BY <1>0, <3>3 DEF Asking
      <4> QED  BY <3>1, <3>3, <4>1, <4>2
    <3>4. CASE call[c].st = "done" /\ call[c].op = "exec"
      <4>1. op \in {"rollback", "commit"} \/ (op = "exec" /\ flow[c] < Asked[c])
        BY <3>4 DEF NextOps
      <4> QED  BY <3>4, <4>1
    <3>5. CASE call[c].st = "done" /\ call[c].op = "commit"
      <4>1. op = "rollback"  BY <3>5 DEF NextOps
      <4> QED  BY <3>5, <4>1
    <3> QED  BY <2>1, <3>2, <3>3, <3>4, <3>5 DEF NextOps
  <2>5. ~Persists => MayAsk(call[c], op)
    <3>1. SUFFICES ASSUME ~Persists PROVE MayAsk(call[c], op)  OBVIOUS
    <3>2. CASE call[c].st = "free"
      BY <2>1, <3>2 DEF NextOps, MayAsk
    <3>3. CASE call[c].st = "done" /\ call[c].op = "begin"
      BY <2>1, <3>3 DEF NextOps, MayAsk
    <3>4. CASE call[c].st = "done" /\ call[c].op = "exec"
      BY <2>1, <3>1, <3>4 DEF NextOps, MayAsk
    <3>5. CASE call[c].st = "done" /\ call[c].op = "commit"
      BY <2>1, <3>5 DEF NextOps, MayAsk
    <3> QED  BY <2>1, <3>2, <3>3, <3>4, <3>5 DEF NextOps
  <2>6. Lives'  BY <1>0, <2>1, <2>2, <2>3, IssueLives
  <2>7. /\ Mail' /\ Good(Now', Pending', call') /\ call' \in [Callers -> CallType]
        /\ call'[c].op = op /\ call'[c].st # "free"
        /\ \A e \in Callers : e # c => call'[e] = call[e]
    BY <1>0, <2>1, <2>2, <2>3, <2>4, <2>5, IssueGood DEF Ops
  <2>8. Known(call')
    <3>1. ASSUME NEW e \in Callers
          PROVE  /\ call'[e].op \in {"begin", "exec", "commit", "rollback"} => e \in Flows
                 /\ call'[e].op \in {"open", "release"} => e = Ext
                 /\ call'[e].op = "core" /\ call'[e].st # "free" => e \in Core
      <4>1. CASE e = c  BY <2>4, <2>7, <4>1
      <4>2. CASE e # c  BY <1>0, <2>7, <4>2 DEF Known
      <4> QED  BY <4>1, <4>2
    <3> QED  BY <2>7, <3>1 DEF Known
  <2>9. /\ flow' \in [Flows -> Nat] /\ \A e \in Flows : e # c => flow'[e] = flow[e]
        /\ flow'[c] = IF op = "exec" THEN flow[c] + 1 ELSE flow[c]
    BY <1>0, <2>1 DEF Asking
  <2>10. Counted'
    <3>1. ASSUME NEW e \in Callers, call'[e].op = "exec" PROVE flow'[e] \in 1..Asked[e]
      <4>0. e \in Flows  BY <2>8, <3>1 DEF Known
      <4>1. CASE e = c
        <5>1. op = "exec" /\ flow[c] \in Nat /\ Asked[c] \in Nat
          BY <1>0, <2>7, <3>1, <4>1, DbWorkerAssumption DEF Asking
        <5> QED  BY <2>4, <2>9, <4>1, <5>1
      <4>2. CASE e # c
        BY <1>0, <2>7, <2>9, <3>1, <4>0, <4>2 DEF Asking, Counted
      <4> QED  BY <4>1, <4>2
    <3> QED  BY <3>1 DEF Counted
  <2>11. \A e \in Flows : /\ flow'[e] =< Asked[e]
                          /\ call'[e].st = "free" \/ call'[e].op = "begin" => flow'[e] = 0
    <3>1. ASSUME NEW e \in Flows, e # c
          PROVE  /\ flow'[e] =< Asked[e]
                 /\ call'[e].st = "free" \/ call'[e].op = "begin" => flow'[e] = 0
      BY <1>0, <1>1, <2>7, <2>9, <3>1 DEF Asking
    <3>2. flow[c] \in Nat /\ Asked[c] \in Nat /\ flow[c] =< Asked[c]
          /\ (call[c].st = "free" => flow[c] = 0)
      BY <1>0, DbWorkerAssumption DEF Asking
    <3>3. flow'[c] =< Asked[c]  BY <2>4, <2>9, <3>2
    <3>4. op = "begin" => flow'[c] = 0  BY <2>4, <2>9, <3>2
    <3> QED  BY <2>7, <3>1, <3>3, <3>4
  <2>12. Asking'
    BY <1>0, <1>1, <2>2, <2>3, <2>7, <2>8, <2>9, <2>10, <2>11 DEF Asking
  <2> QED  BY <2>6, <2>7, <2>12 DEF Inv
<1>4. ASSUME NEW op \in {"open", "release"}, Issue(Ext, op), call[Ext].st # "sent",
             plug' \in [at : {"opening", "stopping"}, h : 1..MaxHandles, cut : SUBSET Flows],
             reg' \in BOOLEAN, flow' = flow,
             UNCHANGED <<life, cur, dead, sup, att, restarts, perm, closing>>,
             UNCHANGED <<replies, host, db, faults>>
      PROVE  Inv'
  <2>1. Lives'  BY <1>0, <1>1, <1>4, IssueLives
  <2>2. /\ Mail' /\ Good(Now', Pending', call') /\ call' \in [Callers -> CallType]
        /\ call'[Ext].op = op /\ call'[Ext].st # "free"
        /\ \A e \in Callers : e # Ext => call'[e] = call[e]
    BY <1>0, <1>1, <1>4, IssueGood DEF Ops
  <2>3. Known(call')
    <3>1. ASSUME NEW e \in Callers
          PROVE  /\ call'[e].op \in {"begin", "exec", "commit", "rollback"} => e \in Flows
                 /\ call'[e].op \in {"open", "release"} => e = Ext
                 /\ call'[e].op = "core" /\ call'[e].st # "free" => e \in Core
      <4>1. CASE e = Ext  BY <1>4, <2>2, <4>1
      <4>2. CASE e # Ext  BY <1>0, <2>2, <4>2 DEF Known
      <4> QED  BY <4>1, <4>2
    <3> QED  BY <2>2, <3>1 DEF Known
  <2>4. Counted'
    <3>1. ASSUME NEW e \in Callers, call'[e].op = "exec" PROVE flow'[e] \in 1..Asked[e]
      <4>1. e # Ext  BY <1>4, <2>2, <3>1
      <4> QED  BY <1>0, <1>4, <2>2, <3>1, <4>1 DEF Asking, Counted
    <3> QED  BY <3>1 DEF Counted
  <2>5. plug' \in [at : {"off", "opening", "on", "stopping"}, h : 0..MaxHandles, cut : SUBSET Flows]
        /\ plug'.at \notin {"off", "on"} /\ plug'.h \in 1..MaxHandles
    BY <1>4
  <2>6. Asking'  BY <1>0, <1>1, <1>4, <2>2, <2>3, <2>4, <2>5 DEF Asking
  <2> QED  BY <2>1, <2>2, <2>6 DEF Inv
<1>5. plug \in [at : {"off", "opening", "on", "stopping"}, h : 0..MaxHandles, cut : SUBSET Flows]
      /\ MaxHandles \in Nat
  BY <1>0, DbWorkerAssumption DEF Asking
<1>6. CASE Activate
  <2>1. /\ plug.at = "off" /\ plug.h < MaxHandles
        /\ plug' = [plug EXCEPT !.at = "opening", !.h = @ + 1] /\ reg' = TRUE /\ Issue(Ext, "open")
        /\ flow' = flow
        /\ UNCHANGED <<life, cur, dead, sup, att, restarts, perm, closing>>
        /\ UNCHANGED <<replies, host, db, faults>>
    BY <1>6 DEF Activate, Calls, sides
  <2>2. plug' \in [at : {"opening", "stopping"}, h : 1..MaxHandles, cut : SUBSET Flows]
    <3>1. plug.h + 1 \in 1..MaxHandles /\ plug.cut \in SUBSET Flows  BY <1>5, <2>1
    <3>2. plug' = [at |-> "opening", h |-> plug.h + 1, cut |-> plug.cut]  BY <1>5, <2>1
    <3> QED  BY <3>1, <3>2
  <2>3. call[Ext].st # "sent"  BY <1>0, <2>1 DEF Asking
  <2> QED  BY <1>4, <2>1, <2>2, <2>3
<1>7. CASE Deactivate
  <2>1. /\ plug.at = "on"
        /\ plug' = [plug EXCEPT !.at = "stopping", !.cut = {c \in Flows : call[c].st # "free"}]
        /\ reg' = reg /\ Issue(Ext, "release") /\ flow' = flow
        /\ UNCHANGED <<life, cur, dead, sup, att, restarts, perm, closing>>
        /\ UNCHANGED <<replies, host, db, faults>>
    BY <1>7 DEF Deactivate, Calls, sides
  <2>2. plug.h \in 1..MaxHandles
    BY <1>0, <2>1 DEF Asking
  <2>3. plug' \in [at : {"opening", "stopping"}, h : 1..MaxHandles, cut : SUBSET Flows]
    BY <1>5, <2>1, <2>2
  <2>4. call[Ext].st # "sent" /\ reg' \in BOOLEAN  BY <1>0, <2>1 DEF Asking
  <2> QED  BY <1>4, <2>1, <2>3, <2>4
<1>8. CASE Activated \/ Deactivated
  <2>1. /\ call[Ext].st = "done"
        /\ plug' = [plug EXCEPT !.at = "on"] \/ plug' = [plug EXCEPT !.at = "off"]
        /\ plug.at # "off"
        /\ UNCHANGED <<call, park, wire, reg, flow, host, db, replies, faults>>
        /\ UNCHANGED <<life, cur, dead, sup, att, restarts, perm, closing>>
    BY <1>8 DEF Activated, Deactivated, Calls, sides
  <2>2. plug' \in [at : {"off", "opening", "on", "stopping"}, h : 0..MaxHandles, cut : SUBSET Flows]
        /\ plug'.h = plug.h
    BY <1>5, <2>1
  <2>3. Lives' /\ Mail' /\ Good(Now', Pending', call')
    <3>1. Lives'  BY <1>0, <2>1 DEF Lives
    <3>2. Mail'  BY <1>0, <2>1 DEF Mail
    <3>3. Now' = Now /\ Pending' = Pending  BY <2>1 DEF Now, Pending
    <3> QED  BY <1>0, <2>1, <3>1, <3>2, <3>3
  <2>4. Asking'  BY <1>0, <2>1, <2>2 DEF Asking, Known, Counted
  <2> QED  BY <2>3, <2>4 DEF Inv
<1> QED  BY <1>2, <1>3, <1>6, <1>7, <1>8 DEF Ask

-----------------------------------------------------------------------------
(* What goes on by itself keeps the invariant.                             *)

(* Callers that are answered ask for nothing new.                          *)
LEMMA AskingKept ==
  ASSUME Asking, call' \in [Callers -> CallType],
         \A e \in Callers : /\ call'[e].op = call[e].op
                            /\ call'[e].st = "free" <=> call[e].st = "free"
                            /\ call'[e].st = "sent" => call[e].st = "sent",
         UNCHANGED <<reg, plug, flow>>
  PROVE  Asking'
<1>1. Flows \subseteq Callers /\ Ext \in Callers  BY DEF Callers
<1>2. Known(call')  BY DEF Asking, Known
<1>3. Counted'  BY DEF Asking, Counted
<1> QED  BY <1>1, <1>2, <1>3 DEF Asking

(* A worker ends or close() goes on: no request moves.                     *)
LEMMA EndsInv == ASSUME Inv, Dies \/ Exits \/ Close \/ Closed PROVE Inv'
<1>0. Lives /\ Mail /\ Asking /\ Good(Now, Pending, call)  BY DEF Inv
<1>1. /\ UNCHANGED <<call, park, replies, host, db, reg, plug, flow>>
      /\ \/ wire' = wire
         \/ wire' = Append(wire, "close") /\ closing = "no"
  BY DEF Dies, Exits, Close, Closed, Aside
<1>2. Lives'  BY <1>0, DiesLives, CloseLives
<1>3. Mail' /\ Pending' = Pending
  <2>1. CASE wire' = wire
    BY <1>0, <1>1, <2>1 DEF Mail, Pending
  <2>2. CASE wire' = Append(wire, "close") /\ closing = "no"
    <3>1. "close" \notin Callers /\ ~Contains(wire, "close")
      BY <1>0, <2>2, DbWorkerAssumption DEF Lives
    <3>2. /\ wire \in Seq(Callers \cup {"close"}) /\ Once(wire)
          /\ "close" \in Callers \cup {"close"}
      BY <1>0 DEF Mail
    <3>3. /\ wire' \in Seq(Callers \cup {"close"}) /\ Once(wire')
          /\ \A e : Contains(wire', e) <=> Contains(wire, e) \/ e = "close"
      BY <2>2, <3>1, <3>2, Appended
    <3>4. Mail'  BY <1>0, <1>1, <3>1, <3>3 DEF Mail
    <3>5. Pending' = Pending  BY <1>1, <3>1, <3>3 DEF Pending
    <3> QED  BY <3>4, <3>5
  <2> QED  BY <1>1, <2>1, <2>2
<1>4. Asking'  BY <1>0, <1>1 DEF Asking, Known, Counted
<1>5. Good(Now', Pending', call')
  <2> DEFINE s == Now
             t == Now'
  <2>1. s \in States  BY <1>0 DEF Good
  <2>2. faults' \in 0..MaxFaults  BY <1>2 DEF Lives
  <2>3. t = [h |-> host, d |-> db, out |-> replies, f |-> faults']
    BY <1>1 DEF Now
  <2>4. s.h = host /\ s.d = db /\ s.out = replies  BY DEF Now
  <2>5. t \in States /\ t.h = s.h /\ t.d = s.d /\ t.out = s.out
    BY <2>1, <2>2, <2>3, <2>4 DEF States
  <2>6. t.h \in HostType  BY <2>5 DEF States
  <2> HIDE DEF s, t
  <2>7. Good(t, Pending, call)  BY <1>0, <2>5, <2>6, OtherGood DEF s
  <2> QED  BY <1>1, <1>3, <2>7 DEF t
<1> QED  BY <1>2, <1>3, <1>4, <1>5 DEF Inv

(* An answer arrives (onMessage).                                          *)
LEMMA DeliverInv == ASSUME Inv, Deliver PROVE Inv'
<1>0. /\ Lives /\ Mail /\ Asking /\ Good(Now, Pending, call)
      /\ call \in [Callers -> CallType]
  BY DEF Inv, Asking, Known
<1> DEFINE r == Head(replies)
           s == Now
           t == Now'
<1>1. /\ replies # <<>> /\ replies' = Tail(replies)
      /\ call' = IF r.to = "close" THEN call ELSE Answer(r.to, r.ans)
      /\ UNCHANGED <<park, wire, reg, host, db, plug, flow, faults>>
  BY DEF Deliver
<1>2. Lives'  BY <1>0, CloseLives
<1>3. Mail' /\ Pending' = Pending  BY <1>0, <1>1 DEF Mail, Pending
<1>4. s \in States /\ s.out = replies /\ s.h = host /\ s.d = db /\ s.f = faults
      /\ replies \in Seq(ReplyType)
  BY <1>0 DEF Good, Now, States
<1>5. t.h = s.h /\ t.d = s.d /\ t.out = Tail(s.out) /\ t \in States
  <2>1. Tail(replies) \in Seq(ReplyType)  BY <1>1, <1>4
  <2> QED  BY <1>1, <1>4, <2>1 DEF Now, States
<1> HIDE DEF t
<1>6. /\ r \in ReplyType
      /\ r.to \notin Callers => Good(t, Pending, call)
      /\ r.to \in Callers =>
           Good(t, Pending, [call EXCEPT ![r.to] = [@ EXCEPT !.st = "done", !.ans = r.ans]])
  BY <1>0, <1>1, <1>4, <1>5, DeliveredGood
<1>7. "close" \notin Callers /\ (r.to = "close" \/ r.to \in Callers)
  BY <1>6, DbWorkerAssumption DEF ReplyType
<1>8. CASE r.to = "close"
  <2>1. call' = call  BY <1>1, <1>8
  <2>2. Good(t, Pending', call')  BY <1>3, <1>6, <1>7, <1>8, <2>1
  <2>3. Asking'  BY <1>0, <1>1, <2>1 DEF Asking, Known, Counted
  <2> QED  BY <1>2, <1>3, <2>2, <2>3 DEF Inv, t
<1>9. CASE r.to \in Callers
  <2> DEFINE c == r.to
             told == [call[c] EXCEPT !.st = "done", !.ans = r.ans]
  <2>1. call' = [call EXCEPT ![c] = told]  BY <1>0, <1>1, <1>7, <1>9 DEF Answer
  <2>2. Good(t, Pending', call')  BY <1>3, <1>6, <1>9, <2>1
  <2>3. call[c].st = "sent"
    <3>1. To(replies, c)  BY <1>1, <1>4, Received
    <3> QED  BY <1>0, <1>4, <1>9, <3>1 DEF Good, Placed
  <2>4. told \in CallType /\ told.op = call[c].op /\ told.st = "done"
    BY <1>0, <1>6, <1>9 DEF CallType, ReplyType
  <2> HIDE DEF told
  <2>5. /\ call' \in [Callers -> CallType]
        /\ \A e \in Callers : /\ call'[e].op = call[e].op
                              /\ call'[e].st = "free" <=> call[e].st = "free"
                              /\ call'[e].st = "sent" => call[e].st = "sent"
    BY <1>0, <1>9, <2>1, <2>3, <2>4
  <2>6. Asking'  BY <1>0, <1>1, <2>5, AskingKept
  <2> QED  BY <1>2, <1>3, <2>2, <2>6 DEF Inv, t
<1> QED  BY <1>7, <1>8, <1>9

(* A caller that is told something keeps what it asked for.                *)
LEMMA Telling ==
  ASSUME NEW k \in [Callers -> CallType], NEW E \in SUBSET Callers, NEW a \in Answers,
         \A e \in E : k[e].st = "sent", NEW l, Ended(k, l, E, a)
  PROVE  \A e \in Callers : /\ l[e] \in CallType /\ l[e].op = k[e].op
                            /\ l[e].st = "free" <=> k[e].st = "free"
                            /\ l[e].st = "sent" => k[e].st = "sent"
<1>1. ASSUME NEW e \in Callers
      PROVE  /\ l[e] \in CallType /\ l[e].op = k[e].op
             /\ l[e].st = "free" <=> k[e].st = "free"
             /\ l[e].st = "sent" => k[e].st = "sent"
  <2>1. CASE e \in E
    <3>1. l[e] = [k[e] EXCEPT !.st = "done", !.ans = a]  BY <2>1 DEF Ended
    <3>2. k[e].st = "sent"  BY <2>1
    <3>3. l[e] \in CallType /\ l[e].op = k[e].op /\ l[e].st = "done"
      <4>1. k[e] \in CallType  OBVIOUS
      <4> QED  BY <3>1, <4>1 DEF CallType
    <3> QED  BY <3>2, <3>3
  <2>2. CASE e \notin E
    <3>1. l[e] = k[e]  BY <2>2 DEF Ended
    <3> QED  BY <3>1
  <2> QED  BY <2>1, <2>2
<1> QED  BY <1>1

(* The worker that main talks to is found to have ended, or is ended by    *)
(* close(): what it had not answered is rejected (_markDead).              *)
LEMMA DeathInv == ASSUME Inv, handleDeath \/ Terminate PROVE Inv'
<1>0. /\ Lives /\ Mail /\ Asking /\ Good(Now, Pending, call)
      /\ call \in [Callers -> CallType]
  BY DEF Inv, Asking, Known
<1>1. Lives'  BY <1>0, DeathLives, CloseLives
<1>2. /\ wire' = <<>> /\ replies' = <<>> /\ host' = NewHost
      /\ call' = IF dead THEN call ELSE Rejected
      /\ UNCHANGED <<reg, db, plug, flow, faults>>
  BY DEF handleDeath, Terminate, Aside
<1>3. CASE dead
  <2>1. Terminate  BY <1>3 DEF handleDeath
  <2>2. UNCHANGED <<wire, replies, host, call, park>>
    BY <1>0, <1>2, <1>3, <2>1 DEF Terminate, Lives
  <2>3. Mail' /\ Pending' = Pending /\ Now' = Now
    BY <1>0, <1>2, <2>2 DEF Mail, Pending, Now
  <2>4. Asking'  BY <1>0, <1>2, <2>2 DEF Asking, Known, Counted
  <2> QED  BY <1>0, <1>1, <2>2, <2>3, <2>4 DEF Inv
<1>4. CASE ~dead
  <2>1. park = <<>> /\ park' = <<>>
    <3>1. sup = "idle" /\ park = <<>>  BY <1>0, <1>4 DEF Lives
    <3>2. park' \in {park, <<>>}
      BY DEF handleDeath, Terminate, TryAgain
    <3> QED  BY <3>1, <3>2
  <2>2. \A e : ~Contains(<<>>, e)  BY DEF Contains
  <2>3. Once(<<>>)  BY DEF Once
  <2>4. Mail'  BY <1>2, <2>1, <2>2, <2>3 DEF Mail
  <2>5. Pending' = {}  BY <1>2, <2>1, <2>2 DEF Pending
  <2> DEFINE E == {e \in Callers : call[e].st = "sent" /\ e \notin {}}
             s == Now
             t == Now'
  <2>6. call' = [e \in Callers |-> IF e \in E THEN [call[e] EXCEPT !.st = "done", !.ans = "lost"]
                                   ELSE call[e]]
    BY <1>2, <1>4, <2>1, <2>2 DEF Rejected
  <2>7. E \in SUBSET Callers /\ "lost" \in Answers /\ \A e \in E : call[e].st = "sent"
    BY DEF Answers
  <2> HIDE DEF E
  <2>8. /\ Ended(call, call', E, "lost") /\ call' \in [Callers -> CallType]
        /\ \A e \in Callers : /\ call'[e].op = call[e].op
                              /\ call'[e].st = "free" <=> call[e].st = "free"
                              /\ call'[e].st = "sent" => call[e].st = "sent"
    <3>1. Ended(call, call', E, "lost")  BY <2>6 DEF Ended
    <3>2. \A e \in Callers : /\ call'[e] \in CallType /\ call'[e].op = call[e].op
                             /\ call'[e].st = "free" <=> call[e].st = "free"
                             /\ call'[e].st = "sent" => call[e].st = "sent"
      BY <1>0, <2>7, <3>1, Telling
    <3>3. call' = [e \in Callers |-> call'[e]]  BY <2>6
    <3> QED  BY <3>1, <3>2, <3>3
  <2>9. Asking'  BY <1>0, <1>2, <2>8, AskingKept
  <2>10. s \in States /\ s.d = db /\ s.f = faults  BY <1>0 DEF Good, Now
  <2>11. t = [h |-> NewHost, d |-> db, out |-> <<>>, f |-> faults]  BY <1>2 DEF Now
  <2>12. NewHost \in HostType /\ db \in DbType /\ faults \in 0..MaxFaults
    <3>1. NewHost \in HostType  BY DEF NewHost, HostType
    <3> QED  BY <2>10, <3>1 DEF States
  <2>13. t \in States /\ t.h = NewHost /\ t.d = s.d /\ t.out = <<>>
    BY <2>10, <2>11, <2>12 DEF States
  <2> HIDE DEF s, t
  <2>14. Good(t, {}, call')
    <3>1. {} \in SUBSET Pending  OBVIOUS
    <3>2. Ended(call, call', {e \in Callers : call[e].st = "sent" /\ e \notin {}}, "lost")
      BY <2>8 DEF E
    <3> QED  BY <1>0, <2>13, <3>1, <3>2, LostGood DEF s
  <2> QED  BY <1>1, <2>4, <2>5, <2>9, <2>14 DEF Inv, t
<1> QED  BY <1>3, <1>4

(* The requests that were parked are refused at the end of a respawn that  *)
(* has brought no worker, or are posted to the one it has (respawn).       *)
LEMMA UnparkedInv ==
  ASSUME Inv, Lives', call' = Unparked, park' = <<>>,
         UNCHANGED <<wire, replies, host, db, reg, plug, flow>>
  PROVE  Inv'
<1>0. /\ Mail /\ Asking /\ Good(Now, Pending, call) /\ call \in [Callers -> CallType]
  BY DEF Inv, Asking, Known
<1> DEFINE P == {e \in Callers : Contains(park, e)}
           s == Now
           t == Now'
<1>1. \A e : ~Contains(park', e)  BY DEF Contains
<1>2. Once(park') /\ park' \in Seq(Callers)  BY DEF Once
<1>3. Mail'  BY <1>0, <1>1, <1>2 DEF Mail
<1>4. Pending' = Pending \ P /\ P \in SUBSET Pending /\ P \in SUBSET Callers
  BY <1>0, <1>1 DEF Mail, Pending
<1>5. /\ Ended(call, call', P, "refused") /\ call' = [e \in Callers |-> call'[e]]
      /\ "refused" \in Answers
  BY DEF Unparked, Ended, Answers
<1>6. \A e \in P : call[e].st = "sent"  BY <1>0, <1>4 DEF Good, Placed, Waits
<1> HIDE DEF P
<1>7. /\ call' \in [Callers -> CallType]
      /\ \A e \in Callers : /\ call'[e].op = call[e].op
                            /\ call'[e].st = "free" <=> call[e].st = "free"
                            /\ call'[e].st = "sent" => call[e].st = "sent"
  <2>1. \A e \in Callers : /\ call'[e] \in CallType /\ call'[e].op = call[e].op
                           /\ call'[e].st = "free" <=> call[e].st = "free"
                           /\ call'[e].st = "sent" => call[e].st = "sent"
    BY <1>0, <1>4, <1>5, <1>6, Telling
  <2> QED  BY <1>5, <2>1
<1>8. Asking'  BY <1>0, <1>7, AskingKept
<1>9. Good(s, Pending', call')
  BY <1>0, <1>4, <1>5, ParkedGood
<1>10. Good(t, Pending', call')
  <2>1. s \in States /\ s.h = host /\ s.d = db /\ s.out = replies  BY <1>0 DEF Good, Now
  <2>2. t = [h |-> host, d |-> db, out |-> replies, f |-> faults']  BY DEF Now
  <2>3. faults' \in 0..MaxFaults  BY DEF Lives
  <2>4. t \in States /\ t.h = s.h /\ t.d = s.d /\ t.out = s.out /\ t.h \in HostType
    BY <2>1, <2>2, <2>3 DEF States
  <2> HIDE DEF s, t
  <2> QED  BY <1>9, <2>4, OtherGood
<1> QED  BY <1>3, <1>8, <1>10 DEF Inv

(* No request moves while a worker is spawned and gets ready.              *)
LEMMA StillInv ==
  ASSUME Inv, Lives', UNCHANGED <<call, park, wire, replies, host, db, reg, plug, flow>>
  PROVE  Inv'
<1>0. Mail /\ Asking /\ Good(Now, Pending, call)  BY DEF Inv
<1> DEFINE s == Now
           t == Now'
<1>1. Mail' /\ Pending' = Pending  BY <1>0 DEF Mail, Pending
<1>2. Asking'  BY <1>0 DEF Asking, Known, Counted
<1>3. s \in States /\ s.h = host /\ s.d = db /\ s.out = replies  BY <1>0 DEF Good, Now
<1>4. t = [h |-> host, d |-> db, out |-> replies, f |-> faults']  BY DEF Now
<1>5. faults' \in 0..MaxFaults  BY DEF Lives
<1>6. t \in States /\ t.h = s.h /\ t.d = s.d /\ t.out = s.out /\ t.h \in HostType
  BY <1>3, <1>4, <1>5 DEF States
<1> HIDE DEF s, t
<1>7. Good(t, Pending', call')  BY <1>0, <1>1, <1>6, OtherGood DEF s
<1> QED  BY <1>1, <1>2, <1>7 DEF Inv, t

(* The new worker is given what was parked (respawn).                      *)
LEMMA TakeOverInv == ASSUME Inv, sup \in {"starting", "register"}, TakeOver PROVE Inv'
<1>0. Lives /\ Mail  BY DEF Inv
<1>1. Lives'  BY <1>0, TakeOverLives
<1>2. park' = <<>> /\ UNCHANGED <<replies, host, db, reg, plug, flow, faults>>
  BY DEF TakeOver, Aside
<1>3. CASE closing # "no"
  <2>1. call' = Unparked /\ wire' = wire  BY <1>3 DEF TakeOver
  <2> QED  BY <1>1, <1>2, <2>1, UnparkedInv
<1>4. CASE closing = "no"
  <2>1. wire' = wire \o park /\ call' = call  BY <1>4 DEF TakeOver
  <2>2. wire = <<>> /\ park \in Seq(Callers)  BY <1>0 DEF Lives, Mail
  <2>3. wire' = park  BY <2>1, <2>2
  <2>4. \A e : ~Contains(park', e) /\ ~Contains(wire, e)  BY <1>2, <2>2 DEF Contains
  <2>5. Once(park') /\ park' \in Seq(Callers)  BY <1>2 DEF Once
  <2>6. wire' \in Seq(Callers \cup {"close"}) /\ Once(wire')  BY <1>0, <2>2, <2>3 DEF Mail
  <2>7. Mail'  BY <2>4, <2>5, <2>6 DEF Mail
  <2>8. Pending' = Pending  BY <2>3, <2>4 DEF Pending
  <2>9. Now' = Now  BY <1>2 DEF Now
  <2>10. Asking'  BY <1>2, <2>1 DEF Inv, Asking, Known, Counted
  <2> QED  BY <1>1, <2>1, <2>7, <2>8, <2>9, <2>10 DEF Inv
<1> QED  BY <1>3, <1>4

(* A start that failed, or a refused source, and what it does to the       *)
(* requests that are parked (respawn).                                     *)
LEMMA AttemptInv ==
  ASSUME Inv, Lives', sup \in {"starting", "register"}, NextAttempt PROVE Inv'
<1>1. ~perm  BY DEF Inv, Lives
<1>2. UNCHANGED <<wire, replies, host, reg, db, plug, flow>> /\ call' = IF perm' THEN Unparked ELSE call
  BY DEF NextAttempt, Aside
<1>3. (perm' /\ park' = <<>>) \/ (~perm' /\ park' = park)
  <2>1. \/ perm' = TRUE /\ park' = <<>>
        \/ perm' = perm /\ park' = park
    BY DEF NextAttempt, TryAgain
  <2> QED  BY <1>1, <2>1
<1>4. CASE perm' /\ park' = <<>>
  BY <1>2, <1>4, UnparkedInv
<1>5. CASE ~perm' /\ park' = park
  BY <1>2, <1>5, StillInv
<1> QED  BY <1>3, <1>4, <1>5

(* The steps of a respawn (respawn).                                       *)
LEMMA RespawnInv == ASSUME Inv, Respawn PROVE Inv'
<1>0. Lives /\ Mail  BY DEF Inv
<1>1. Lives'  BY <1>0, RespawnLives
<1>2. CASE SpawnAgain
  <2>1. UNCHANGED <<wire, replies, host, reg, db, plug, flow>>
        /\ ((call' = Unparked /\ park' = <<>>) \/ (call' = call /\ park' = park))
    BY <1>2 DEF SpawnAgain, Aside
  <2> QED  BY <1>1, <2>1, UnparkedInv, StillInv
<1>3. CASE StartFails
  BY <1>1, <1>3, AttemptInv DEF StartFails
<1>4. CASE StartReady
  <2>1. CASE TakeOver
    BY <1>4, <2>1, TakeOverInv DEF StartReady
  <2>2. CASE ~TakeOver
    <3>1. UNCHANGED <<wire, replies, host, reg, db, plug, flow>>
          /\ ((call' = Unparked /\ park' = <<>>) \/ (call' = call /\ park' = park))
      BY <1>4, <2>2 DEF StartReady, Aside
    <3> QED  BY <1>1, <3>1, UnparkedInv, StillInv
  <2> QED  BY <2>1, <2>2
<1>5. CASE Registered
  <2>1. CASE TakeOver
    BY <1>5, <2>1, TakeOverInv DEF Registered
  <2>2. CASE NextAttempt
    BY <1>1, <1>5, <2>2, AttemptInv DEF Registered
  <2> QED  BY <1>5, <2>1, <2>2 DEF Registered
<1> QED  BY <1>2, <1>3, <1>4, <1>5 DEF Respawn

(* The worker handles a message, or its timer ends a transaction           *)
(* (coordinator.ts: handle, shutdown, expire).                             *)
LEMMA WorkInv == ASSUME Inv, Work \/ LeaseExpires PROVE Inv'
<1>0. /\ Lives /\ Mail /\ Asking /\ Good(Now, Pending, call) /\ Known(call) /\ Counted
      /\ call[Ext].st # "free" => plug.h \in 1..MaxHandles
  BY DEF Inv, Asking
<1>1. "close" \notin Callers /\ wire \in Seq(Callers \cup {"close"}) /\ Once(wire)
  BY <1>0, DbWorkerAssumption DEF Mail
<1>2. life[cur] = "up" /\ ~dead
  <2>1. life[cur] = "up"  BY DEF Work, Serve, Shutdown, LeaseExpires
  <2> QED  BY <1>0, <2>1 DEF Lives
<1>3. ASSUME NEW r \in States, faults =< r.f, Good(r, Pending', call), Becomes(r), Mail',
             Contains(wire', "close") => Contains(wire, "close"),
             UNCHANGED <<sides, call, park, reg, plug, flow>>
      PROVE  Inv'
  <2>1. Now' = r
    <3>1. Now' = [h |-> r.h, d |-> r.d, out |-> r.out, f |-> r.f]  BY <1>3 DEF Now, Becomes
    <3> QED  BY <3>1 DEF States
  <2>2. Asking'  BY <1>0, <1>3 DEF Asking, Known, Counted
  <2>3. faults' \in 0..MaxFaults /\ faults =< faults'  BY <1>3 DEF Becomes, States
  <2>4. UNCHANGED <<life, cur, dead, sup, att, restarts, perm, closing, park>>  BY <1>3 DEF sides
  <2>5. att \in Nat /\ faults \in Nat /\ faults' \in Nat
    BY <1>0, <2>3, DbWorkerAssumption DEF Lives, Workers
  <2>6. att =< faults + 1 => att =< faults' + 1
    <3>1. \A i, j, k \in Nat : i =< j /\ k =< i + 1 => k =< j + 1  OBVIOUS
    <3> QED  BY <2>3, <2>5, <3>1
  <2>7. Lives'
    BY <1>0, <1>2, <1>3, <2>3, <2>4, <2>5, <2>6 DEF Lives
  <2> QED  BY <1>3, <2>1, <2>2, <2>7 DEF Inv
<1>4. CASE Serve
  <2> DEFINE c == Head(wire)
  <2>1. wire # <<>> /\ c # "close" /\ wire' = Tail(wire)
        /\ UNCHANGED <<sides, call, park, reg, plug, flow>>
    BY <1>4 DEF Serve
  <2>2. PICK r \in Served(Now, c) : Becomes(r)  BY <1>4 DEF Serve
  <2>3. /\ c \in Callers \cup {"close"} /\ wire' \in Seq(Callers \cup {"close"}) /\ Once(wire')
        /\ \A e : Contains(wire, e) <=> Contains(wire', e) \/ e = c
        /\ ~Contains(wire', c)
    BY <1>1, <2>1, HeadTaken
  <2> HIDE DEF c
  <2>4. c \in Callers /\ c \in Pending /\ Pending' = Pending \ {c}
    <3>1. c \in Callers  BY <2>1, <2>3
    <3>2. ~Contains(park, c)  BY <1>0, <2>3, <3>1 DEF Mail
    <3> QED  BY <2>1, <2>3, <3>1, <3>2 DEF Pending
  <2>5. Mail'  BY <1>0, <2>1, <2>3 DEF Mail
  <2>6. Good(r, Pending', call) /\ Now.f =< r.f
    BY <1>0, <2>2, <2>4, ServedGood
  <2>7. r \in States /\ Now.f = faults  BY <2>6 DEF Good, Now
  <2>8. Contains(wire', "close") => Contains(wire, "close")  BY <2>3
  <2> QED  BY <1>3, <2>1, <2>2, <2>5, <2>6, <2>7, <2>8
<1>5. CASE LeaseExpires
  <2>1. UNCHANGED <<sides, call, park, wire, reg, plug, flow>>  BY <1>5 DEF LeaseExpires
  <2>2. PICK u \in RolledBack(Now) : Becomes(Pump(u))  BY <1>5 DEF LeaseExpires
  <2>3. Good(u, Pending, call) /\ Now.f =< u.f  BY <1>0, <2>2, RolledBackGood
  <2>4. Contains(u.h.q, Ext) => plug.h \in 1..MaxHandles
    <3>1. Ext \in Callers  BY DEF Callers
    <3> QED  BY <1>0, <2>3, <3>1 DEF Good, Placed, Waits
  <2>5. Good(Pump(u), Pending, call) /\ Pump(u).f = u.f  BY <1>0, <2>3, <2>4, PumpGood
  <2>6. Pump(u) \in States /\ Now.f = faults  BY <2>5 DEF Good, Now
  <2>7. Mail' /\ Pending' = Pending  BY <1>0, <2>1 DEF Mail, Pending
  <2> HIDE <2>4
  <2> QED  BY <1>3, <2>1, <2>2, <2>3, <2>5, <2>6, <2>7
<1>6. CASE Shutdown
  <2> DEFINE v == Refuse(Cleared(Now), Now.h.q)
             r == Reply([v EXCEPT !.h = NewHost], "close", "ok")
  <2>1. /\ wire # <<>> /\ Head(wire) = "close" /\ wire' = Tail(wire)
        /\ UNCHANGED <<call, park, reg, plug, flow>> /\ Becomes(r)
    BY <1>6 DEF Shutdown, Now
  <2>2. Good(r, Pending, call)  BY <1>0, ShutGood
  <2> HIDE DEF r
  <2>3. /\ wire' \in Seq(Callers \cup {"close"}) /\ Once(wire')
        /\ \A e : Contains(wire, e) <=> Contains(wire', e) \/ e = "close"
    BY <1>1, <2>1, HeadTaken
  <2>4. Mail'  BY <1>0, <2>1, <2>3 DEF Mail
  <2>5. Pending' = Pending  BY <1>1, <2>1, <2>3 DEF Pending
  <2>6. Now' = r
    <3>1. Now' = [h |-> r.h, d |-> r.d, out |-> r.out, f |-> r.f]  BY <2>1 DEF Now, Becomes
    <3> QED  BY <2>2, <3>1 DEF Good, States
  <2>7. Asking'  BY <1>0, <2>1 DEF Asking, Known, Counted
  <2>8. Lives'  BY <1>0, <1>6, CloseLives
  <2> QED  BY <2>1, <2>2, <2>4, <2>5, <2>6, <2>7, <2>8 DEF Inv
<1> QED  BY <1>4, <1>5, <1>6 DEF Work

(* The initial state.                                                      *)
LEMMA InitInv == Init => Inv
<1> SUFFICES ASSUME Init PROVE Inv  OBVIOUS
<1>1. /\ life = [w \in Workers |-> IF w = 1 THEN "up" ELSE "none"]
      /\ cur = 1 /\ dead = FALSE /\ sup = "idle" /\ att = 1 /\ restarts = 0
      /\ perm = FALSE /\ closing = "no"
      /\ call = [c \in Callers |-> [op |-> "core", st |-> "free", ans |-> "none"]]
      /\ park = <<>> /\ wire = <<>> /\ replies = <<>> /\ reg = FALSE /\ host = NewHost
      /\ db = [core |-> {}, rows |-> {}, ran |-> {}]
      /\ plug = [at |-> "off", h |-> 0, cut |-> {}] /\ flow = [c \in Flows |-> 0] /\ faults = 0
  BY DEF Init
<1>2. \A e : ~Contains(<<>>, e)  BY DEF Contains
<1>3. Once(<<>>)  BY DEF Once
<1>4. Single(<<>>) /\ \A e : ~To(<<>>, e) /\ \A a : ~Tell(<<>>, e, a)
  BY DEF Single, To, Tell
<1>5. Lives
  <2>1. 1 \in Workers /\ 0 \in 0..MAX_RESTARTS /\ 0 \in 0..MaxFaults
    BY DbWorkerAssumption DEF Workers
  <2>2. life \in [Workers -> {"none", "starting", "up", "exiting", "ended"}] /\ life[cur] = "up"
    BY <1>1, <2>1
  <2>3. cur =< att /\ att =< faults + 1  BY <1>1
  <2>4. ~Contains(wire, "close")  BY <1>1, <1>2
  <2>5. /\ cur \in Workers /\ att \in Workers /\ restarts \in 0..MAX_RESTARTS
        /\ faults \in 0..MaxFaults
    BY <1>1, <2>1
  <2> QED  BY <1>1, <2>2, <2>3, <2>4, <2>5 DEF Lives
<1>6. Mail  BY <1>1, <1>2, <1>3 DEF Mail
<1>7. call \in [Callers -> CallType] /\ Ext \in Callers /\ Flows \subseteq Callers
      /\ \A c \in Callers : call[c].op = "core" /\ call[c].st = "free"
  BY <1>1 DEF CallType, Ops, Answers, Callers
<1>8. Asking
  <2>1. Known(call) /\ Counted  BY <1>7 DEF Known, Counted
  <2>2. flow \in [Flows -> Nat] /\ \A c \in Flows : flow[c] = 0 /\ 0 =< Asked[c]
    BY <1>1, DbWorkerAssumption
  <2>3. plug \in [at : {"off", "opening", "on", "stopping"}, h : 0..MaxHandles, cut : SUBSET Flows]
        /\ plug.at = "off"
    BY <1>1, DbWorkerAssumption
  <2> QED  BY <1>1, <1>7, <2>1, <2>2, <2>3 DEF Asking
<1>9. Pending = {}  BY <1>1, <1>2 DEF Pending
<1>10. Good(Now, Pending, call)
  <2> DEFINE s == Now
  <2>1. s = [h |-> NewHost, d |-> [core |-> {}, rows |-> {}, ran |-> {}], out |-> <<>>, f |-> 0]
    BY <1>1 DEF Now
  <2>2. NewHost \in HostType /\ [core |-> {}, rows |-> {}, ran |-> {}] \in DbType
        /\ 0 \in 0..MaxFaults
    BY DbWorkerAssumption DEF NewHost, HostType, DbType
  <2>3. s \in States  BY <2>1, <2>2 DEF States
  <2>4. /\ s.h.q = <<>> /\ s.h.tx = None /\ s.h.native = FALSE /\ s.h.pend = {} /\ s.out = <<>>
        /\ s.d.core = {} /\ s.d.rows = {} /\ s.d.ran = {}
    BY <2>1 DEF NewHost
  <2> HIDE DEF s
  <2>5. \A c : ~Waits(c, s, {}) /\ ~To(s.out, c)  BY <1>2, <1>4, <2>4 DEF Waits
  <2>6. Placed(s, {}, call)  BY <1>2, <1>3, <1>4, <2>4, <2>5 DEF Placed
  <2>7. Lent(s.h)  BY <2>4 DEF Lent
  <2>8. ASSUME NEW c \in Flows PROVE FlowOK(c, s, {}, call)
    <3>1. Of(c, s.d.rows) = {} /\ Of(c, s.d.ran) = {}  BY <2>4 DEF Of
    <3>2. c # None /\ call[c].op = "core" /\ call[c].st = "free"
      BY <1>7, DbWorkerAssumption DEF Callers
    <3> QED  BY <2>4, <3>1, <3>2 DEF FlowOK
  <2>9. ASSUME NEW c \in Core PROVE CoreOK(c, s, {}, call)
    <3>1. call[c].st = "free"  BY <1>7 DEF Callers
    <3>2. ~Told(c, "ok", s, call)  BY <1>4, <2>4, <3>1 DEF Told
    <3> QED  BY <2>4, <3>2 DEF CoreOK
  <2>10. Good(s, {}, call)  BY <2>3, <2>6, <2>7, <2>8, <2>9 DEF Good
  <2> QED  BY <1>9, <2>10 DEF s
<1> QED  BY <1>5, <1>6, <1>8, <1>10 DEF Inv

(* Every step.                                                             *)
LEMMA NextInv == Inv /\ [Next]_vars => Inv'
<1> SUFFICES ASSUME Inv, [Next]_vars PROVE Inv'  OBVIOUS
<1>1. CASE Ask  BY <1>1, AskInv
<1>2. CASE Dies \/ Exits \/ Close \/ Closed  BY <1>2, EndsInv
<1>3. CASE Deliver  BY <1>3, DeliverInv
<1>4. CASE handleDeath \/ Terminate  BY <1>4, DeathInv
<1>5. CASE Respawn  BY <1>5, RespawnInv
<1>6. CASE Work \/ LeaseExpires  BY <1>6, WorkInv
<1>7. CASE UNCHANGED vars
  <2>1. /\ UNCHANGED <<life, cur, dead, sup, att, restarts, perm, closing>>
        /\ UNCHANGED <<call, park, wire, replies, reg, host, db, plug, flow, faults>>
    BY <1>7 DEF vars, sides
  <2>2. Lives'  BY <2>1 DEF Inv, Lives
  <2> QED  BY <2>1, <2>2, StillInv
<1> QED  BY <1>1, <1>2, <1>3, <1>4, <1>5, <1>6, <1>7 DEF Next, Progress, EndClose

LEMMA AlwaysInv == Spec => []Inv
BY InitInv, NextInv, PTL DEF Spec

-----------------------------------------------------------------------------
(* What holds in every state of the system.                                *)

(* Every variable keeps to its type: among other things the coordinator    *)
(* never lends the database to anybody but a transaction, respawns never   *)
(* number more than MAX_RESTARTS in a window, and a statement is one its   *)
(* transaction asked for.                                                  *)
THEOREM TypeCorrect == Spec => []TypeOK
<1>1. Inv => TypeOK
  <2> SUFFICES ASSUME Inv PROVE TypeOK  OBVIOUS
  <2>1. /\ host \in HostType /\ db \in DbType /\ replies \in Seq(ReplyType)
        /\ faults \in 0..MaxFaults
    BY DEF Inv, Good, Now, States
  <2>2. call \in [Callers -> CallType] /\ reg \in BOOLEAN /\ flow \in [Flows -> Nat]
        /\ plug \in [at : {"off", "opening", "on", "stopping"}, h : 0..MaxHandles,
                     cut : SUBSET Flows]
        /\ \A c \in Flows : flow[c] =< Asked[c]
    BY DEF Inv, Asking, Known
  <2>3. park \in Seq(Callers) /\ wire \in Seq(Callers \cup {"close"})  BY DEF Inv, Mail
  <2> QED  BY <2>1, <2>2, <2>3 DEF TypeOK, Inv, Lives, HostType, DbType, ReplyType, CallType
<1> QED  BY <1>1, AlwaysInv, PTL

(* Of a transaction the file holds all that was carried out, or nothing,   *)
(* for any number of transactions and statements, crashes and respawns     *)
(* (coordinator.ts 137-175, 352-433).  ~Persists: an extension does not go *)
(* on after a statement that failed; one that does can lose the half that  *)
(* SQLite has rolled back (Executed).                                      *)
THEOREM TransactionsKept == ~Persists => (Spec => []TransactionWhole)
<1> SUFFICES ASSUME ~Persists PROVE Spec => []TransactionWhole  OBVIOUS
<1>1. Inv => TransactionWhole
  <2> SUFFICES ASSUME Inv, NEW c \in Flows PROVE Of(c, db.rows) \in {{}, Of(c, db.ran)}
    BY DEF TransactionWhole
  <2>1. FlowOK(c, Now, Pending, call)  BY DEF Inv, Good
  <2> QED  BY <2>1 DEF FlowOK, Now
<1> QED  BY <1>1, AlwaysInv, PTL

(* What a caller is told is so: "done" that its write is in the file,      *)
(* "refused" that it is not (worker-client.ts 13-26, coordinator.ts        *)
(* 436-460), whatever was parked, rejected, retried or cut off on the way. *)
THEOREM ToldTheTruth == ~Persists => (Spec => []AnswersTrue)
<1> SUFFICES ASSUME ~Persists PROVE Spec => []AnswersTrue  OBVIOUS
<1>1. Inv => AnswersTrue
  <2> SUFFICES ASSUME Inv PROVE AnswersTrue  OBVIOUS
  <2>1. ASSUME NEW c, NEW a \in Answers, Done(c, {a}) PROVE Told(c, a, Now, call)
    BY <2>1 DEF Done, Told
  <2>2. \A c \in Core : CoreOK(c, Now, Pending, call)  BY DEF Inv, Good
  <2>3. \A c \in Flows : FlowOK(c, Now, Pending, call)  BY DEF Inv, Good
  <2>4. "ok" \in Answers /\ "refused" \in Answers /\ Now.d = db  BY DEF Answers, Now
  <2>5. ASSUME NEW c \in Core
        PROVE  /\ Done(c, {"ok"}) => c \in db.core
               /\ Done(c, {"refused"}) => c \notin db.core
    BY <2>1, <2>2, <2>4 DEF CoreOK
  <2>6. ASSUME NEW c \in Flows, call[c].op = "commit"
        PROVE  /\ Done(c, {"ok"}) => Of(c, db.rows) = Of(c, db.ran)
               /\ Done(c, {"refused"}) => Of(c, db.rows) = {}
    BY <2>1, <2>3, <2>4, <2>6 DEF FlowOK
  <2> QED  BY <2>5, <2>6 DEF AnswersTrue
<1> QED  BY <1>1, AlwaysInv, PTL

-----------------------------------------------------------------------------
(* close().                                                                *)

\* Only the worker main talks to and the one spawned last can be alive, and
\* the latter only while a respawn is under way; close() ends the first and
\* waits for the respawn, which ends the second.
Alone ==
  /\ \A w \in Workers : life[w] \in {"starting", "up"} => w \in {cur, att}
  /\ sup \in {"idle", "backoff"} =>
       \A w \in Workers : life[w] \in {"starting", "up"} => w = cur
  /\ closing \in {"settle", "closed"} => dead
  /\ sup = "register" => closing = "no"
  /\ closing = "closed" => sup = "idle"

(* The steps of close() and of a worker's end keep that.                   *)
LEMMA EndsAlone ==
  ASSUME Lives, Alone, "close" \notin Window,
         Dies \/ Exits \/ Close \/ Closed \/ Terminate \/ Deliver \/ handleDeath \/ Shutdown
  PROVE  Alone'
<1>0. life \in [Workers -> {"none", "starting", "up", "exiting", "ended"}] /\ cur \in Workers
  BY DEF Lives
<1>1. CASE Dies \/ Exits
  <2>1. UNCHANGED <<cur, att, dead, sup, closing>>  BY <1>1 DEF Dies, Exits
  <2>2. \E w \in Workers : life' = [life EXCEPT ![w] = "ended"]
    BY <1>0, <1>1 DEF Dies, Exits, Lives
  <2>3. \A w \in Workers : life'[w] \in {"starting", "up"} => life[w] \in {"starting", "up"}
    BY <1>0, <2>2
  <2> QED  BY <2>1, <2>3 DEF Alone
<1>2. CASE Close
  <2>1. UNCHANGED <<life, cur, att, dead, sup>> /\ closing' \in {"asked", "terminate"}
        /\ sup # "register"
    BY <1>2 DEF Close
  <2> QED  BY <2>1 DEF Alone
<1>3. CASE Closed
  <2>1. UNCHANGED <<life, cur, att, dead, sup>> /\ closing' = "closed" /\ closing = "settle"
        /\ sup = "idle"
    BY <1>3 DEF Closed
  <2> QED  BY <2>1 DEF Alone
<1>4. CASE Terminate \/ Shutdown
  <2>1. /\ UNCHANGED <<cur, att, sup>>
        /\ \/ closing = "terminate" /\ closing' = "settle" /\ dead' = TRUE
           \/ closing' = closing /\ dead' = dead
        /\ \E a \in {"exiting", "ended"} : life' = [life EXCEPT ![cur] = a]
    BY <1>4 DEF Terminate, Shutdown
  <2>2. \A w \in Workers : life'[w] \in {"starting", "up"} => life[w] \in {"starting", "up"}
    BY <1>0, <2>1
  <2>3. sup = "register" => closing' = "no"
    BY <2>1 DEF Alone
  <2> QED  BY <2>1, <2>2, <2>3 DEF Alone
<1>5. CASE Deliver
  <2>1. UNCHANGED <<life, cur, att, dead, sup>> /\ ~dead /\ closing' \in {closing, "terminate"}
    BY <1>5 DEF Deliver
  <2>2. sup = "idle"  BY <2>1 DEF Lives
  <2> QED  BY <2>1, <2>2 DEF Alone
<1>6. CASE handleDeath
  <2>1. /\ UNCHANGED <<life, cur, att>> /\ ~dead /\ dead' = TRUE
        /\ closing' \in {closing, "terminate"}
        /\ sup' \in {sup, "idle", "backoff"} /\ (closing # "no" => sup' = sup)
        /\ (closing = "no" => closing' = "no")
    BY <1>6 DEF handleDeath, TryAgain
  <2>2. sup = "idle"  BY <2>1 DEF Lives
  <2> QED  BY <2>1, <2>2 DEF Alone
<1> QED  BY <1>1, <1>2, <1>3, <1>4, <1>5, <1>6

(* The steps of a respawn do: they look at closing before they go on.      *)
LEMMA RespawnAlone ==
  ASSUME Lives, Alone, "refused" \notin Window, Respawn PROVE Alone'
<1>0. life \in [Workers -> {"none", "starting", "up", "exiting", "ended"}]
      /\ cur \in Workers /\ att \in Workers /\ cur \in Nat /\ att \in Nat
  BY DEF Lives, Workers
<1>1. sup # "idle" => dead /\ life[cur] = "ended" /\ closing # "closed"  BY DEF Lives, Alone
<1>2. ASSUME TakeOver, sup # "idle", closing = "no" PROVE Alone'
  <2>1. life' = [life EXCEPT ![att] = "up"] /\ cur' = att /\ att' = att /\ sup' = "idle"
        /\ closing' = "no"
    BY <1>2 DEF TakeOver
  <2>2. \A w \in Workers : life'[w] \in {"starting", "up"} => w = att
    BY <1>0, <1>1, <1>2, <2>1 DEF Alone
  <2> QED  BY <2>1, <2>2 DEF Alone
<1>3. CASE SpawnAgain
  <2>1. sup = "backoff" /\ UNCHANGED <<cur, dead, closing>>  BY <1>3 DEF SpawnAgain
  <2>2. CASE closing # "no"
    <3>1. sup' = "idle" /\ UNCHANGED <<life, att>>  BY <1>3, <2>2 DEF SpawnAgain
    <3> QED  BY <2>1, <3>1 DEF Alone
  <2>3. CASE closing = "no"
    <3>1. sup' = "starting" /\ att' = att + 1 /\ life' = [life EXCEPT ![att + 1] = "starting"]
      BY <1>3, <2>3 DEF SpawnAgain
    <3>2. \A w \in Workers : life'[w] \in {"starting", "up"} => w = cur \/ w = att'
      BY <1>0, <2>1, <3>1 DEF Alone
    <3> QED  BY <2>1, <2>3, <3>1, <3>2 DEF Alone
  <2> QED  BY <2>2, <2>3
<1>4. ASSUME life' = [life EXCEPT ![att] = "ended"], sup' \in {"idle", "backoff"}, sup # "idle",
             UNCHANGED <<cur, att, dead, closing>>
      PROVE  Alone'
  <2>1. \A w \in Workers : life'[w] \in {"starting", "up"} => w = cur
    BY <1>0, <1>4 DEF Alone
  <2> QED  BY <1>1, <1>4, <2>1 DEF Alone
<1>5. CASE StartFails
  <2>1. /\ life' = [life EXCEPT ![att] = "ended"] /\ sup = "starting"
        /\ sup' \in {"idle", "backoff"} /\ UNCHANGED <<cur, att, dead, closing>>
    BY <1>5 DEF StartFails, NextAttempt, TryAgain
  <2> QED  BY <1>4, <2>1
<1>6. CASE StartReady
  <2>0. sup = "starting"  BY <1>6 DEF StartReady
  <2>1. CASE closing # "no"
    <3>1. /\ life' = [life EXCEPT ![att] = "ended"] /\ sup' = "idle"
          /\ UNCHANGED <<cur, att, dead, closing>>
      BY <1>6, <2>1 DEF StartReady
    <3> QED  BY <1>4, <2>0, <3>1
  <2>2. CASE closing = "no" /\ TakeOver
    BY <1>2, <2>0, <2>2
  <2>3. CASE closing = "no" /\ ~TakeOver
    <3>1. /\ life' = [life EXCEPT ![att] = "up"] /\ sup' = "register"
          /\ UNCHANGED <<cur, att, dead, closing>>
      BY <1>6, <2>3 DEF StartReady
    <3>2. \A w \in Workers : life'[w] \in {"starting", "up"} => w \in {cur, att}
      BY <1>0, <3>1 DEF Alone
    <3> QED  BY <2>3, <3>1, <3>2 DEF Alone
  <2> QED  BY <2>1, <2>2, <2>3
<1>7. CASE Registered
  <2>1. sup = "register" /\ TakeOver  BY <1>7 DEF Registered
  <2>2. closing = "no"  BY <2>1 DEF Alone
  <2> QED  BY <1>2, <2>1, <2>2
<1> QED  BY <1>3, <1>5, <1>6, <1>7 DEF Respawn

(* When close() resolves no worker holds the database, for any number of   *)
(* respawns (worker-client.ts 225-234, 366-382), unless close() comes, or  *)
(* a source is refused, while a new worker registers its sources: nobody   *)
(* looks at intentionalClose there, and a worker that refuses is left.     *)
THEOREM CloseEndsAll ==
  "close" \notin Window /\ "refused" \notin Window => (Spec => []ClosedMeansGone)
<1> SUFFICES ASSUME "close" \notin Window, "refused" \notin Window
             PROVE  Spec => []ClosedMeansGone
  OBVIOUS
<1>1. Init => Alone
  <2> SUFFICES ASSUME Init PROVE Alone  OBVIOUS
  <2>1. /\ life = [w \in Workers |-> IF w = 1 THEN "up" ELSE "none"]
        /\ cur = 1 /\ sup = "idle" /\ closing = "no"
    BY DEF Init
  <2> QED  BY <2>1 DEF Alone
<1>2. Inv /\ Alone /\ [Next]_vars => Alone'
  <2> SUFFICES ASSUME Inv, Alone, [Next]_vars PROVE Alone'  OBVIOUS
  <2>1. Lives  BY DEF Inv
  <2>2. CASE Dies \/ Exits \/ Close \/ Closed \/ Terminate \/ Deliver \/ handleDeath \/ Shutdown
    BY <2>1, <2>2, EndsAlone
  <2>3. CASE Respawn
    BY <2>1, <2>3, RespawnAlone
  <2>4. CASE UNCHANGED sides
    BY <2>4 DEF Alone, sides
  <2>5. Ask \/ Serve \/ LeaseExpires \/ UNCHANGED vars => UNCHANGED sides
    <3>1. Serve \/ LeaseExpires \/ UNCHANGED vars => UNCHANGED sides
      BY DEF Serve, LeaseExpires, vars
    <3>2. Ask => UNCHANGED sides
      BY DEF Ask, CoreCall, transaction, Activate, Activated, Deactivate, Deactivated, Calls
    <3> QED  BY <3>1, <3>2
  <2> QED  BY <2>2, <2>3, <2>4, <2>5 DEF Next, Progress, Work, EndClose
<1>3. Inv /\ Alone => ClosedMeansGone
  BY DEF Inv, Lives, Alone, ClosedMeansGone
<1> QED  BY <1>1, <1>2, <1>3, AlwaysInv, PTL DEF Spec

-----------------------------------------------------------------------------
(* Nobody is left waiting.                                                 *)

\* As much of the type of a state as says where its requests are.
Shaped(s) ==
  /\ {"h", "d", "out", "f"} \subseteq DOMAIN s
  /\ {"q", "tx", "native", "pend", "conns"} \subseteq DOMAIN s.h
  /\ {"core", "rows", "ran"} \subseteq DOMAIN s.d
  /\ s.h.q \in Seq(Callers) /\ s.out \in Seq(ReplyType)

\* From s to t no request is lost: it waits still, or it has its answer.
Keeps(s, t) ==
  \A e : /\ Contains(s.h.q, e) => Contains(t.h.q, e) \/ To(t.out, e)
         /\ To(s.out, e) => To(t.out, e)

\* Nothing waits in the coordinator unless a transaction holds the database.
Held(h) == h.q # <<>> => h.tx # None

(* An answer is sent (Reply).                                              *)
LEMMA ReplyKeeps ==
  ASSUME NEW s, Shaped(s), NEW c \in Callers \cup {"close"}, NEW a \in Answers
  PROVE  /\ Shaped(Reply(s, c, a)) /\ Keeps(s, Reply(s, c, a)) /\ To(Reply(s, c, a).out, c)
         /\ Reply(s, c, a).h = s.h
<1> DEFINE r == [to |-> c, ans |-> a]
           t == [s EXCEPT !.out = Append(s.out, r)]
<1>1. r \in ReplyType /\ r.to = c  BY DEF ReplyType
<1> HIDE DEF r
<1>2. Append(s.out, r) \in Seq(ReplyType)
      /\ \A e : To(Append(s.out, r), e) <=> To(s.out, e) \/ e = c
  BY <1>1, Replied DEF Shaped
<1>3. t.out = Append(s.out, r) /\ t.h = s.h /\ t.d = s.d /\ DOMAIN t = DOMAIN s  BY DEF Shaped
<1>4. Reply(s, c, a) = t  BY DEF Reply, r
<1> HIDE DEF t
<1> QED  BY <1>2, <1>3, <1>4 DEF Shaped, Keeps

(* What waits is refused, each with an answer of its own (rejectQueued,    *)
(* shutdown).                                                              *)
LEMMA RefuseKeeps ==
  ASSUME NEW s, Shaped(s), NEW cs \in Seq(Callers)
  PROVE  /\ Shaped(Refuse(s, cs)) /\ Refuse(s, cs).h = s.h
         /\ \A e : To(Refuse(s, cs).out, e) <=> To(s.out, e) \/ Contains(cs, e)
<1> DEFINE o == [i \in DOMAIN cs |-> [to |-> cs[i], ans |-> "refused"]]
           t == Refuse(s, cs)
<1>1. t.h = s.h /\ t.out = s.out \o o /\ t.d = s.d /\ DOMAIN t = DOMAIN s
  BY DEF Refuse, Shaped
<1>2. o \in Seq(ReplyType) /\ \A e : To(o, e) <=> Contains(cs, e)
  <2>1. Len(cs) \in Nat /\ DOMAIN cs = 1..Len(cs) /\ \A i \in 1..Len(cs) : cs[i] \in Callers
    OBVIOUS
  <2>2. \A i \in 1..Len(cs) : [to |-> cs[i], ans |-> "refused"] \in ReplyType
    BY <2>1 DEF ReplyType, Answers
  <2>3. o \in Seq(ReplyType) /\ Len(o) = Len(cs)  BY <2>1, <2>2, IsASeq
  <2>4. \A i \in 1..Len(cs) : o[i].to = cs[i]  BY <2>1
  <2> HIDE DEF o
  <2> QED  BY <2>1, <2>3, <2>4 DEF To, Contains
<1> HIDE DEF o
<1>3. s.out \o o \in Seq(ReplyType) /\ \A e : To(s.out \o o, e) <=> To(s.out, e) \/ To(o, e)
  BY <1>2, RepliedAll DEF Shaped
<1> HIDE DEF t
<1> QED  BY <1>1, <1>2, <1>3 DEF Shaped, t

(* The owner's begins that wait are refused, the rest stays (rejectQueued). *)
LEMMA UnqueuedKeeps ==
  ASSUME NEW s, Shaped(s) PROVE Shaped(Unqueued(s)) /\ Keeps(s, Unqueued(s))
<1> DEFINE cs == Sifted(s.h.q, TRUE)
           v == [s EXCEPT !.h.q = Sifted(@, FALSE)]
<1>1. /\ cs \in Seq(Callers) /\ Sifted(s.h.q, FALSE) \in Seq(Callers)
      /\ \A c : Contains(cs, c) <=> Contains(s.h.q, c) /\ Begins(c) = TRUE
      /\ \A c : Contains(Sifted(s.h.q, FALSE), c) <=> Contains(s.h.q, c) /\ Begins(c) = FALSE
  BY Sifting DEF Shaped
<1>2. v.h.q = Sifted(s.h.q, FALSE) /\ v.out = s.out /\ v.d = s.d
      /\ DOMAIN v = DOMAIN s /\ DOMAIN v.h = DOMAIN s.h
  BY DEF Shaped
<1>3. Unqueued(s) = Refuse(v, cs)  BY DEF Unqueued
<1> HIDE DEF cs, v
<1>4. Shaped(v)  BY <1>1, <1>2 DEF Shaped
<1>5. \A c : (Begins(c) = TRUE) \/ (Begins(c) = FALSE)  BY DEF Begins
<1>6. /\ Shaped(Refuse(v, cs)) /\ Refuse(v, cs).h = v.h
      /\ \A e : To(Refuse(v, cs).out, e) <=> To(v.out, e) \/ Contains(cs, e)
  BY <1>1, <1>4, RefuseKeeps
<1> QED  BY <1>1, <1>2, <1>3, <1>5, <1>6 DEF Keeps

(* The end of the active transaction moves no request, but that those of   *)
(* its owner that wait are refused (poisonOwner).                          *)
LEMMA PoisonedKeeps ==
  ASSUME NEW s, Shaped(s)
  PROVE  /\ Shaped(Cleared(s)) /\ Keeps(s, Cleared(s))
         /\ Shaped(Poisoned(s)) /\ Keeps(s, Poisoned(s))
<1> DEFINE v == [s EXCEPT !.h.conns = @ \ {plug.h}]
<1>1. ASSUME NEW u, Shaped(u) PROVE Shaped(Cleared(u)) /\ Keeps(u, Cleared(u))
  BY <1>1 DEF Shaped, Cleared, Keeps
<1>2. Shaped(v) /\ Keeps(s, v)  BY DEF Shaped, Keeps
<1>3. Poisoned(s) = Unqueued(Cleared(v))  BY DEF Poisoned
<1> HIDE DEF v
<1>4. Shaped(Cleared(v)) /\ Keeps(v, Cleared(v))  BY <1>1, <1>2
<1>5. Shaped(Poisoned(s)) /\ Keeps(Cleared(v), Poisoned(s))  BY <1>3, <1>4, UnqueuedKeeps
<1> QED  BY <1>1, <1>2, <1>4, <1>5 DEF Keeps

(* The same of a transaction that is rolled back (rollbackActive).         *)
LEMMA RolledBackKeeps ==
  ASSUME NEW s, Shaped(s), NEW r \in RolledBack(s)
  PROVE  Shaped(r) /\ Keeps(s, r)
<1>3. CASE r = Cleared(s)  BY <1>3, PoisonedKeeps
<1>4. CASE r = Poisoned(s)  BY <1>4, PoisonedKeeps
<1>5. CASE r = Poisoned([s EXCEPT !.f = @ + 1])
  <2> DEFINE v == [s EXCEPT !.f = @ + 1]
  <2>1. Shaped(v) /\ Keeps(s, v)  BY DEF Shaped, Keeps
  <2> HIDE DEF v
  <2>2. Shaped(Poisoned(v)) /\ Keeps(v, Poisoned(v))  BY <2>1, PoisonedKeeps
  <2> QED  BY <1>5, <2>1, <2>2 DEF Keeps, v
<1> QED  BY <1>3, <1>4, <1>5 DEF RolledBack

(* What pump() takes is answered, and it stops only at a request that      *)
(* begins a transaction (pump).                                            *)
LEMMA PumpKeeps ==
  ASSUME NEW s, Shaped(s) PROVE Shaped(Pump(s)) /\ Keeps(s, Pump(s)) /\ Held(Pump(s).h)
<1> DEFINE q == s.h.q
<1>1. q \in Seq(Callers) /\ s.out \in Seq(ReplyType)  BY DEF Shaped
<1>2. PICK n \in 0..Len(q) : /\ Pump(s) = Pumped(s, n)
                             /\ s.h.tx # None => n = 0
                             /\ s.h.tx = None => n = Len(q) \/ (n \in 1..Len(q) /\ Begins(q[n]))
  BY <1>1, PumpTakes
<1> DEFINE t == Pumped(s, n)
           rest == SubSeq(q, n + 1, Len(q))
           o == Oks(s, n)
<1>3. /\ t.h.q = rest /\ t.out = s.out \o o
      /\ t.h.tx = IF Begun(s, n) THEN q[n] ELSE s.h.tx
      /\ DOMAIN t = DOMAIN s /\ DOMAIN t.h = DOMAIN s.h /\ DOMAIN t.d = DOMAIN s.d
  BY DEF Pumped, PumpedHost, Shaped
<1>4. rest \in Seq(Callers) /\ \A c : Contains(rest, c) <=> \E i \in (n + 1)..Len(q) : q[i] = c
  BY <1>1, Split
<1>5. o \in Seq(ReplyType) /\ \A e : To(o, e) <=> \E i \in 1..n : q[i] = e
  <2>1. n \in Nat /\ \A i \in 1..n : q[i] \in Callers  BY <1>1
  <2>2. \A i \in 1..n : [to |-> q[i], ans |-> "ok"] \in ReplyType  BY <2>1 DEF ReplyType, Answers
  <2>3. o = [i \in 1..n |-> [to |-> q[i], ans |-> "ok"]]  BY DEF Oks
  <2>4. o \in Seq(ReplyType) /\ Len(o) = n  BY <2>1, <2>2, <2>3, IsASeq
  <2>5. \A i \in 1..n : o[i].to = q[i]  BY <2>3
  <2> HIDE DEF o
  <2> QED  BY <2>1, <2>4, <2>5 DEF To
<1> HIDE DEF o, rest, t
<1>6. s.out \o o \in Seq(ReplyType) /\ \A e : To(s.out \o o, e) <=> To(s.out, e) \/ To(o, e)
  BY <1>1, <1>5, RepliedAll
<1>7. ASSUME NEW e, Contains(q, e) PROVE Contains(rest, e) \/ To(o, e)
  <2>1. PICK i \in 1..Len(q) : q[i] = e  BY <1>1, <1>7 DEF Contains
  <2>2. i \in 1..n \/ i \in (n + 1)..Len(q)  BY <1>1
  <2> QED  BY <1>4, <1>5, <2>1, <2>2
<1>8. Held(t.h)
  <2>1. CASE s.h.tx # None
    <3>1. n = 0  BY <1>2, <2>1
    <3>2. ~Begun(s, n)  BY <3>1 DEF Begun, Ran
    <3> QED  BY <1>3, <2>1, <3>2 DEF Held
  <2>2. CASE s.h.tx = None /\ n = Len(q)
    <3>1. rest = <<>>  BY <1>1, <2>2 DEF rest
    <3> QED  BY <1>3, <3>1 DEF Held
  <2>3. CASE n \in 1..Len(q) /\ Begins(q[n])
    <3>1. Begun(s, n)  BY <2>3 DEF Begun, Ran
    <3>2. q[n] \in Callers /\ None \notin Callers  BY <1>1, <2>3, DbWorkerAssumption
    <3> QED  BY <1>3, <3>1, <3>2 DEF Held
  <2> QED  BY <1>2, <2>1, <2>2, <2>3
<1>9. Shaped(t)  BY <1>1, <1>3, <1>4, <1>6 DEF Shaped
<1> QED  BY <1>2, <1>3, <1>6, <1>7, <1>8, <1>9 DEF Keeps, t

(* After a request is served nothing else that waited is lost, and it      *)
(* waits itself or has its answer (handle).                                *)
LEMMA ServedKeeps ==
  ASSUME NEW s, Shaped(s), Held(s.h), NEW c \in Callers, call[c].op \in Ops, NEW r \in Served(s, c)
  PROVE  Shaped(r) /\ Keeps(s, r) /\ Held(r.h) /\ (Contains(r.h.q, c) \/ To(r.out, c))
<1> DEFINE Fine(u) == Shaped(u) /\ Keeps(s, u) /\ To(u.out, c)
           op == call[c].op
           queued == [s EXCEPT !.h.q = Append(@, c)]
<1>1. "ok" \in Answers /\ "refused" \in Answers  BY DEF Answers
<1>3. ASSUME NEW u, Shaped(u), Keeps(s, u), NEW a \in Answers
      PROVE  Fine(Reply(u, c, a)) /\ Reply(u, c, a).h = u.h
  BY <1>3, ReplyKeeps DEF Keeps
<1>4. ASSUME NEW u, Fine(u)
      PROVE  /\ Shaped(Pump(u)) /\ Keeps(s, Pump(u)) /\ Held(Pump(u).h)
             /\ Contains(Pump(u).h.q, c) \/ To(Pump(u).out, c)
  BY <1>4, PumpKeeps DEF Keeps
<1>5. Keeps(s, s)  BY DEF Keeps
<1>6. CASE r = Reply(s, c, "refused")
  BY <1>1, <1>3, <1>5, <1>6
<1>7. CASE r = Pump(queued)
  <2>1. /\ Append(s.h.q, c) \in Seq(Callers)
        /\ \A e : Contains(Append(s.h.q, c), e) <=> Contains(s.h.q, e) \/ e = c
    BY Appended DEF Shaped
  <2>2. queued.h.q = Append(s.h.q, c) /\ queued.out = s.out /\ queued.d = s.d
        /\ DOMAIN queued = DOMAIN s /\ DOMAIN queued.h = DOMAIN s.h
    BY DEF Shaped
  <2> HIDE DEF queued
  <2>3. Shaped(queued) /\ Keeps(s, queued) /\ Contains(queued.h.q, c)
    BY <2>1, <2>2 DEF Shaped, Keeps
  <2>4. Shaped(Pump(queued)) /\ Keeps(queued, Pump(queued)) /\ Held(Pump(queued).h)
    BY <2>3, PumpKeeps
  <2> QED  BY <1>7, <2>3, <2>4 DEF Keeps
<1>8. CASE op = "release" /\ r \in Released(s, c)
  <2> DEFINE T(u) == Pump(Unqueued(u))
             w(t) == [t EXCEPT !.h.conns = @ \ {plug.h}]
  <2>1. PICK u \in IF s.h.tx # None THEN RolledBack(s) ELSE {s} :
          \E a \in {"ok", "refused"} : r = Reply(w(T(u)), c, a)
    BY <1>8 DEF Released
  <2>2. Shaped(u) /\ Keeps(s, u)  BY <1>5, <2>1, RolledBackKeeps
  <2>3. Shaped(Unqueued(u)) /\ Keeps(s, Unqueued(u))  BY <2>2, UnqueuedKeeps DEF Keeps
  <2> DEFINE t == T(u)
  <2>4. Shaped(t) /\ Keeps(s, t) /\ Held(t.h)  BY <2>3, PumpKeeps DEF Keeps
  <2> HIDE DEF T
  <2>5. Shaped(w(t)) /\ Keeps(s, w(t)) /\ Held(w(t).h)  BY <2>4 DEF Shaped, Keeps, Held
  <2> HIDE DEF w
  <2> QED  BY <1>1, <1>3, <2>1, <2>5
<1>9. CASE op = "exec" /\ r \in Executed(s, c)
  <2>1. PICK u : \E a \in {"ok", "refused"} :
          /\ Shaped(u) /\ Keeps(s, u) /\ Held(u.h)
          /\ \/ r = Reply(u, c, a)
             \/ r = [Reply(u, c, a) EXCEPT !.h.native = FALSE, !.h.pend = {}]
    <3> DEFINE k == flow[c]
               done == [s EXCEPT !.d.ran = @ \cup {<<c, k>>}]
               d1 == [done EXCEPT !.h.pend = @ \cup {<<c, k>>}]
               d2 == [done EXCEPT !.d.rows = @ \cup {<<c, k>>}]
               f1 == [s EXCEPT !.f = @ + 1]
    <3>1. Shaped(d1) /\ Keeps(s, d1) /\ Held(d1.h)  BY DEF Shaped, Keeps, Held
    <3>2. Shaped(d2) /\ Keeps(s, d2) /\ Held(d2.h)  BY DEF Shaped, Keeps, Held
    <3>3. Shaped(f1) /\ Keeps(s, f1) /\ Held(f1.h)  BY DEF Shaped, Keeps, Held
    <3>4. \/ r = Reply(d1, c, "ok") \/ r = Reply(d2, c, "ok")
          \/ r = Reply(f1, c, "refused")
          \/ r = [Reply(f1, c, "refused") EXCEPT !.h.native = FALSE, !.h.pend = {}]
      BY <1>9 DEF Executed
    <3> HIDE DEF d1, d2, f1
    <3>5. CASE r = Reply(d1, c, "ok")  BY <3>1, <3>5
    <3>6. CASE r = Reply(d2, c, "ok")  BY <3>2, <3>6
    <3>7. CASE r = Reply(f1, c, "refused")  BY <3>3, <3>7
    <3>8. CASE r = [Reply(f1, c, "refused") EXCEPT !.h.native = FALSE, !.h.pend = {}]
      BY <3>3, <3>8
    <3> QED  BY <3>4, <3>5, <3>6, <3>7, <3>8
  <2>0. PICK a \in {"ok", "refused"} :
          /\ Shaped(u) /\ Keeps(s, u) /\ Held(u.h)
          /\ \/ r = Reply(u, c, a)
             \/ r = [Reply(u, c, a) EXCEPT !.h.native = FALSE, !.h.pend = {}]
    BY <2>1
  <2> DEFINE v == Reply(u, c, a)
  <2>2. Fine(v) /\ v.h = u.h  BY <1>1, <1>3, <2>0
  <2> HIDE DEF v
  <2>3. Shaped(v) /\ Keeps(s, v) /\ To(v.out, c) /\ Held(v.h)  BY <2>0, <2>2
  <2>4. CASE r = v  BY <2>3, <2>4
  <2>5. CASE r = [v EXCEPT !.h.native = FALSE, !.h.pend = {}]
    BY <2>3, <2>5 DEF Shaped, Keeps, Held
  <2> QED  BY <2>0, <2>4, <2>5 DEF v
<1>10. CASE op = "commit" /\ \E u \in Committed(s, c) : r = Pump(u)
  <2>1. PICK u \in Committed(s, c) : r = Pump(u)  BY <1>10
  <2> DEFINE kp == [s EXCEPT !.d.rows = @ \cup s.h.pend]
             kept == Reply(kp, c, "ok")
             fails == [s EXCEPT !.f = @ + 1]
  <2>2. Shaped(kp) /\ Keeps(s, kp)  BY DEF Shaped, Keeps
  <2>3. Shaped(fails) /\ Keeps(s, fails)  BY DEF Shaped, Keeps
  <2>4. \/ u = Cleared(kept) \/ u = Poisoned(kept)
        \/ \E x \in RolledBack(s) \cup RolledBack(fails) : u = Reply(x, c, "refused")
    BY <2>1 DEF Committed
  <2> HIDE DEF kp, fails
  <2>5. Fine(kept)  BY <1>1, <1>3, <2>2
  <2> HIDE DEF kept
  <2>6. Fine(u)
    <3>1. CASE u = Cleared(kept)
      <4>1. Shaped(u) /\ Keeps(kept, u) /\ u.out = kept.out
        BY <2>5, <3>1 DEF Shaped, Cleared, Keeps
      <4> QED  BY <2>5, <4>1 DEF Keeps
    <3>2. CASE u = Poisoned(kept)
      <4>1. Shaped(u) /\ Keeps(kept, u)  BY <2>5, <3>2, PoisonedKeeps
      <4> QED  BY <2>5, <4>1 DEF Keeps
    <3>3. CASE \E x \in RolledBack(s) \cup RolledBack(fails) : u = Reply(x, c, "refused")
      <4>1. PICK x \in RolledBack(s) \cup RolledBack(fails) : u = Reply(x, c, "refused")
        BY <3>3
      <4>2. Shaped(x) /\ Keeps(s, x)  BY <2>3, <4>1, RolledBackKeeps DEF Keeps
      <4> QED  BY <1>1, <1>3, <4>1, <4>2
    <3> QED  BY <2>4, <3>1, <3>2, <3>3
  <2> QED  BY <1>4, <2>1, <2>6
<1>11. CASE op = "rollback" /\ \E u \in Undone(s, c) : r = Pump(u)
  <2>1. PICK u \in Undone(s, c) : r = Pump(u)  BY <1>11
  <2>2. PICK x \in RolledBack(s), a \in {"ok", "refused"} : u = Reply(x, c, a)
    BY <2>1 DEF Undone
  <2>3. Shaped(x) /\ Keeps(s, x)  BY <2>2, RolledBackKeeps
  <2>4. Fine(u)  BY <1>1, <1>3, <2>2, <2>3
  <2> QED  BY <1>4, <2>1, <2>4
<1>12. \/ r = Reply(s, c, "refused") \/ r = Pump(queued)
       \/ op = "release" /\ r \in Released(s, c)
       \/ op = "exec" /\ r \in Executed(s, c)
       \/ op = "commit" /\ \E u \in Committed(s, c) : r = Pump(u)
       \/ op = "rollback" /\ \E u \in Undone(s, c) : r = Pump(u)
  BY DEF Served, Op, Begins, Ops
<1> QED  BY <1>6, <1>7, <1>8, <1>9, <1>10, <1>11, <1>12

\* A request that has no answer is parked, on its way, in the coordinator's
\* queue or answered, and each of these is where something goes on: a respawn
\* is under way, the worker is up, a transaction has its timer.  A worker that
\* registers its sources is up, and one that was asked to shut down will.
Waiting(c) ==
  Contains(park, c) \/ Contains(wire, c) \/ Contains(host.q, c) \/ To(replies, c)
Awake ==
  /\ \A c \in Callers : call[c].st = "sent" => Waiting(c)
  /\ Held(host)
  /\ sup = "register" => life[att] = "up"
  /\ closing = "asked" => ~dead
  /\ closing = "asked" /\ life[cur] = "up" => Contains(wire, "close")

(* A call is refused, parked or posted (guard).                            *)
LEMMA AskAwake == ASSUME Inv, Awake, Ask PROVE Awake'
<1>0. /\ call \in [Callers -> CallType] /\ park \in Seq(Callers)
      /\ wire \in Seq(Callers \cup {"close"})
  BY DEF Inv, Asking, Known, Mail
<1>1. UNCHANGED <<life, cur, dead, sup, att, closing, replies, host>>
  BY DEF Ask, CoreCall, transaction, Activate, Activated, Deactivate, Deactivated, Calls, sides
<1>2. ASSUME NEW c \in Callers, NEW op, Issue(c, op) PROVE Awake'
  <2> DEFINE asked == [op |-> op, st |-> "sent", ans |-> "none"]
             told == [asked EXCEPT !.st = "done", !.ans = "refused"]
  <2>1. /\ Append(park, c) \in Seq(Callers)
        /\ \A e : Contains(Append(park, c), e) <=> Contains(park, e) \/ e = c
    BY <1>0, Appended
  <2>2. \A e : Contains(Append(wire, c), e) <=> Contains(wire, e) \/ e = c
    <3>1. c \in Callers \cup {"close"}  OBVIOUS
    <3> QED  BY <1>0, <3>1, Appended
  <2>3. /\ \A e : Contains(park, e) => Contains(park', e)
        /\ \A e : Contains(wire, e) => Contains(wire', e)
    BY <1>2, <2>1, <2>2 DEF Issue
  <2>4. ASSUME NEW e \in Callers, call'[e].st = "sent" PROVE Waiting(e)'
    <3>1. CASE e # c
      <4>1. call'[e] = call[e]  BY <1>0, <1>2, <3>1 DEF Issue
      <4> QED  BY <1>1, <2>3, <2>4, <4>1 DEF Awake, Waiting
    <3>2. CASE e = c
      <4>1. told.st = "done"  OBVIOUS
      <4> HIDE DEF told
      <4>2. ~(perm \/ closing # "no")
        <5>1. perm \/ closing # "no" => call' = [call EXCEPT ![c] = told]
          BY <1>2 DEF Issue, told
        <5> QED  BY <1>0, <2>4, <3>2, <4>1, <5>1
      <4>3. park' = Append(park, c) \/ wire' = Append(wire, c)  BY <1>2, <4>2 DEF Issue
      <4> QED  BY <2>1, <2>2, <3>2, <4>3 DEF Waiting
    <3> QED  BY <3>1, <3>2
  <2> QED  BY <1>1, <2>3, <2>4 DEF Awake
<1>3. CASE Activated \/ Deactivated
  <2>1. UNCHANGED <<call, park, wire>>  BY <1>3 DEF Activated, Deactivated
  <2> QED  BY <1>1, <2>1 DEF Awake, Waiting
<1>4. Core \subseteq Callers /\ Flows \subseteq Callers /\ Ext \in Callers  BY DEF Callers
<1> QED  BY <1>2, <1>3, <1>4 DEF Ask, CoreCall, transaction, Activate, Deactivate

(* An answer arrives (onMessage).                                          *)
LEMMA DeliverAwake == ASSUME Inv, Awake, Deliver PROVE Awake'
<1>0. call \in [Callers -> CallType] /\ replies \in Seq(ReplyType)
  BY DEF Inv, Asking, Known, Good, Now, States
<1> DEFINE r == Head(replies)
<1>1. /\ replies # <<>> /\ ~dead /\ replies' = Tail(replies)
      /\ call' = IF r.to = "close" THEN call ELSE Answer(r.to, r.ans)
      /\ closing' \in {closing, "terminate"}
      /\ UNCHANGED <<life, cur, dead, sup, att, park, wire, host>>
  BY DEF Deliver
<1>2. \A e : To(replies, e) <=> To(replies', e) \/ e = r.to  BY <1>0, <1>1, Received
<1> HIDE DEF r
<1>3. "close" \notin Callers  BY DbWorkerAssumption
<1>4. ASSUME NEW e \in Callers, call'[e].st = "sent" PROVE Waiting(e)'
  <2>1. e # r.to /\ call'[e] = call[e]
    BY <1>0, <1>1, <1>3, <1>4 DEF Answer
  <2> QED  BY <1>1, <1>2, <1>4, <2>1 DEF Awake, Waiting
<1> QED  BY <1>1, <1>4 DEF Awake

(* The worker takes a message, or its timer ends a transaction             *)
(* (coordinator.ts: handle, shutdown, expire).                             *)
LEMMA WorkAwake == ASSUME Inv, Awake, Work \/ LeaseExpires PROVE Awake'
<1>0. /\ Lives /\ wire \in Seq(Callers \cup {"close"}) /\ Now \in States /\ Known(call)
      /\ host \in HostType /\ replies \in Seq(ReplyType)
  BY DEF Inv, Asking, Mail, Good, Now, States
<1>1. Shaped(Now) /\ Now.h = host /\ Now.out = replies /\ Held(Now.h)
  BY <1>0 DEF Shaped, Now, Awake, HostType, States, DbType
<1>2. sup = "idle"
  <2>1. life[cur] = "up"  BY DEF Work, Serve, Shutdown, LeaseExpires
  <2> QED  BY <1>0, <2>1 DEF Lives
<1>3. CASE Serve
  <2> DEFINE c == Head(wire)
  <2>1. wire # <<>> /\ c # "close" /\ wire' = Tail(wire) /\ UNCHANGED <<sides, call, park>>
    BY <1>3 DEF Serve
  <2>2. PICK r \in Served(Now, c) : Becomes(r)  BY <1>3 DEF Serve
  <2>3. c \in Callers \cup {"close"} /\ \A e : Contains(wire, e) <=> Contains(wire', e) \/ e = c
    BY <1>0, <2>1, HeadTaken
  <2> HIDE DEF c
  <2>4. c \in Callers /\ call[c].op \in Ops  BY <1>0, <2>1, <2>3 DEF Known, CallType
  <2>5. Keeps(Now, r) /\ Held(r.h) /\ (Contains(r.h.q, c) \/ To(r.out, c))
    BY <1>1, <2>2, <2>4, ServedKeeps
  <2>6. host' = r.h /\ replies' = r.out  BY <2>2 DEF Becomes
  <2>7. UNCHANGED <<life, cur, dead, sup, att, closing>>  BY <2>1 DEF sides
  <2>8. ASSUME NEW e \in Callers, call'[e].st = "sent" PROVE Waiting(e)'
    <3>1. Waiting(e)  BY <2>1, <2>8 DEF Awake
    <3> QED  BY <1>1, <2>1, <2>3, <2>5, <2>6, <3>1 DEF Waiting, Keeps
  <2> QED  BY <2>1, <2>3, <2>5, <2>6, <2>7, <2>8 DEF Awake
<1>4. CASE LeaseExpires
  <2>1. UNCHANGED <<sides, call, park, wire>>  BY <1>4 DEF LeaseExpires
  <2>2. PICK u \in RolledBack(Now) : Becomes(Pump(u))  BY <1>4 DEF LeaseExpires
  <2>3. Shaped(u) /\ Keeps(Now, u)  BY <1>1, <2>2, RolledBackKeeps
  <2>4. Keeps(u, Pump(u)) /\ Held(Pump(u).h)  BY <2>3, PumpKeeps
  <2>5. host' = Pump(u).h /\ replies' = Pump(u).out  BY <2>2 DEF Becomes
  <2>6. UNCHANGED <<life, cur, dead, sup, att, closing>>  BY <2>1 DEF sides
  <2>7. ASSUME NEW e \in Callers, call'[e].st = "sent" PROVE Waiting(e)'
    <3>1. Waiting(e)  BY <2>1, <2>7 DEF Awake
    <3> QED  BY <1>1, <2>1, <2>3, <2>4, <2>5, <3>1 DEF Waiting, Keeps
  <2> QED  BY <2>1, <2>4, <2>5, <2>6, <2>7 DEF Awake
<1>5. CASE Shutdown
  <2> DEFINE v == Refuse(Cleared(Now), host.q)
             w == [v EXCEPT !.h = NewHost]
  <2>1. /\ wire # <<>> /\ Head(wire) = "close" /\ wire' = Tail(wire)
        /\ life' = [life EXCEPT ![cur] = "exiting"]
        /\ UNCHANGED <<call, park, cur, dead, sup, att, closing>>
        /\ Becomes(Reply(w, "close", "ok"))
    BY <1>5 DEF Shutdown
  <2>2. Shaped(Cleared(Now)) /\ Cleared(Now).out = replies
    BY <1>1 DEF Shaped, Cleared
  <2>3. Shaped(v) /\ \A e : To(v.out, e) <=> To(replies, e) \/ Contains(host.q, e)
    BY <1>1, <2>2, RefuseKeeps DEF Shaped
  <2> HIDE DEF v
  <2>4. Shaped(w) /\ w.out = v.out /\ w.h = NewHost
    <3>1. NewHost.q = <<>> /\ {"q", "tx", "native", "pend", "conns"} \subseteq DOMAIN NewHost
      BY DEF NewHost
    <3>2. w.h = NewHost /\ w.out = v.out /\ w.d = v.d /\ DOMAIN w = DOMAIN v
      BY <2>3 DEF Shaped
    <3>3. <<>> \in Seq(Callers)  OBVIOUS
    <3> HIDE DEF w
    <3> QED  BY <2>3, <3>1, <3>2, <3>3 DEF Shaped
  <2> HIDE DEF w
  <2>5. Keeps(w, Reply(w, "close", "ok")) /\ Reply(w, "close", "ok").h = NewHost
    <3>1. "close" \in Callers \cup {"close"} /\ "ok" \in Answers  BY DEF Answers
    <3> QED  BY <2>4, <3>1, ReplyKeeps
  <2>6. host' = NewHost /\ replies' = Reply(w, "close", "ok").out  BY <2>1, <2>5 DEF Becomes
  <2>7. \A e : Contains(wire, e) <=> Contains(wire', e) \/ e = "close"
    BY <1>0, <2>1, HeadTaken
  <2>8. ASSUME NEW e \in Callers, call'[e].st = "sent" PROVE Waiting(e)'
    <3>1. Waiting(e) /\ e # "close"  BY <2>1, <2>8, DbWorkerAssumption DEF Awake
    <3> QED  BY <2>1, <2>3, <2>4, <2>5, <2>6, <2>7, <3>1 DEF Waiting, Keeps
  <2>9. life'[cur] # "up" /\ Held(NewHost)  BY <1>0, <2>1 DEF Lives, Held, NewHost
  <2> QED  BY <1>2, <2>1, <2>6, <2>8, <2>9 DEF Awake
<1> QED  BY <1>3, <1>4, <1>5 DEF Work

(* A worker ends, and close() goes on.  "dies": nobody watches a worker    *)
(* that registers its sources.                                             *)
LEMMA EndsAwake ==
  ASSUME Inv, Awake, "dies" \notin Window, Dies \/ Exits \/ Close \/ Closed PROVE Awake'
<1>0. Lives /\ wire \in Seq(Callers \cup {"close"})  BY DEF Inv, Mail
<1>1. CASE Dies \/ Exits
  <2>1. /\ life' = [life EXCEPT ![cur] = "ended"] /\ life[cur] \in {"up", "exiting"}
        /\ UNCHANGED <<cur, dead, sup, att, closing, call, park, wire, replies, host>>
    BY <1>1 DEF Dies, Exits
  <2>2. sup = "idle" /\ life'[cur] = "ended"  BY <1>0, <2>1 DEF Lives
  <2> QED  BY <2>1, <2>2 DEF Awake, Waiting
<1>2. CASE Close
  <2>1. UNCHANGED <<life, cur, dead, sup, att, call, park, replies, host>>  BY <1>2 DEF Close
  <2>2. CASE ~dead
    <3>1. closing' = "asked" /\ wire' = Append(wire, "close")  BY <1>2, <2>2 DEF Close
    <3>2. \A e : Contains(wire', e) <=> Contains(wire, e) \/ e = "close"
      <4>1. "close" \in Callers \cup {"close"}  OBVIOUS
      <4> QED  BY <1>0, <3>1, <4>1, Appended
    <3> QED  BY <2>1, <2>2, <3>1, <3>2 DEF Awake, Waiting
  <2>3. CASE dead
    <3>1. closing' = "terminate" /\ wire' = wire  BY <1>2, <2>3 DEF Close
    <3> QED  BY <2>1, <3>1 DEF Awake, Waiting
  <2> QED  BY <2>2, <2>3
<1>3. CASE Closed
  <2>1. UNCHANGED <<life, cur, dead, sup, att, call, park, wire, replies, host>>
        /\ closing' = "closed"
    BY <1>3 DEF Closed
  <2> QED  BY <2>1 DEF Awake, Waiting
<1> QED  BY <1>1, <1>2, <1>3

(* What the worker that has ended had not answered is rejected (_markDead). *)
LEMMA DeathAwake == ASSUME Inv, Awake, handleDeath \/ Terminate PROVE Awake'
<1>0. Lives /\ call \in [Callers -> CallType]  BY DEF Inv, Asking, Known
<1>1. /\ wire' = <<>> /\ replies' = <<>> /\ host' = NewHost /\ dead' = TRUE
      /\ call' = IF dead THEN call ELSE Rejected
      /\ closing' # "asked"
      /\ cur' = cur /\ att' = att
  BY DEF handleDeath, Terminate, Aside
<1>2. Held(NewHost)  BY DEF Held, NewHost
<1>3. sup' = "register" => sup = "register" /\ dead /\ life' = [life EXCEPT ![cur] = "ended"]
  <2>1. CASE handleDeath
    <3>1. ~dead /\ sup' \in {sup, "idle", "backoff"}  BY <2>1 DEF handleDeath, TryAgain
    <3> QED  BY <1>0, <3>1 DEF Lives
  <2>2. CASE Terminate
    <3>1. sup' = sup /\ life' = [life EXCEPT ![cur] = "ended"]  BY <2>2 DEF Terminate
    <3> QED  BY <1>0, <3>1 DEF Lives
  <2> QED  BY <2>1, <2>2
<1>4. sup' = "register" => life'[att'] = "up"
  <2> SUFFICES ASSUME sup' = "register" PROVE life'[att] = "up"  BY <1>1
  <2>1. cur < att /\ cur \in Nat /\ att \in Workers /\ life[att] = "up"
    BY <1>0, <1>3 DEF Lives, Workers, Awake
  <2> QED  BY <1>0, <1>3, <2>1 DEF Lives
<1>5. ASSUME NEW e \in Callers, call'[e].st = "sent" PROVE Waiting(e)'
  <2>1. CASE ~dead
    <3>1. call' = Rejected /\ park = <<>>  BY <1>0, <1>1, <2>1 DEF Lives
    <3>2. ~Contains(park, e)  BY <3>1 DEF Contains
    <3>3. call[e].st = "sent" => call'[e] = [call[e] EXCEPT !.st = "done", !.ans = "lost"]
      BY <3>1, <3>2 DEF Rejected
    <3>4. call[e].st # "sent" => call'[e] = call[e]  BY <3>1 DEF Rejected
    <3>5. call[e] \in CallType  BY <1>0
    <3> QED  BY <1>5, <3>3, <3>4, <3>5 DEF CallType
  <2>2. CASE dead
    <3>1. Terminate  BY <2>2 DEF handleDeath
    <3>2. park' = park /\ call' = call  BY <1>1, <2>2, <3>1 DEF Terminate
    <3>3. Waiting(e) /\ wire = <<>> /\ replies = <<>> /\ host = NewHost
      BY <1>0, <1>5, <2>2, <3>2 DEF Awake, Lives
    <3> QED  BY <1>1, <3>2, <3>3 DEF Waiting
  <2> QED  BY <2>1, <2>2
<1> QED  BY <1>1, <1>2, <1>4, <1>5 DEF Awake

(* A respawn keeps what is parked, posts it or refuses it (respawn).       *)
LEMMA RespawnAwake == ASSUME Inv, Awake, Respawn PROVE Awake'
<1>0. /\ Lives /\ call \in [Callers -> CallType] /\ park \in Seq(Callers)
  BY DEF Inv, Asking, Known, Mail
<1>1. sup # "idle" /\ dead /\ wire = <<>>
  BY <1>0 DEF Respawn, SpawnAgain, StartFails, StartReady, Registered, Lives
<1>2. closing # "asked"  BY <1>1 DEF Awake
<1>3. UNCHANGED <<closing, replies, host>>
  BY DEF Respawn, SpawnAgain, StartFails, StartReady, Registered, NextAttempt, TakeOver
<1>4. \/ call' = Unparked /\ wire' = wire
      \/ call' = call /\ wire' = wire \o park
      \/ call' = call /\ wire' = wire /\ park' = park
  <2>1. NextAttempt => \/ call' = Unparked /\ wire' = wire
                       \/ call' = call /\ wire' = wire /\ park' = park
    <3> SUFFICES ASSUME NextAttempt, ~perm' PROVE call' = call /\ wire' = wire /\ park' = park
      BY DEF NextAttempt
    <3>1. call' = call /\ wire' = wire /\ TryAgain  BY DEF NextAttempt
    <3> QED  BY <3>1 DEF TryAgain
  <2> QED  BY <2>1 DEF Respawn, SpawnAgain, StartFails, StartReady, Registered, TakeOver
<1>5. ASSUME NEW e \in Callers, call'[e].st = "sent" PROVE Waiting(e)'
  <2>1. CASE call' = Unparked /\ wire' = wire
    <3>1. Contains(park, e) => call'[e] = [call[e] EXCEPT !.st = "done", !.ans = "refused"]
      BY <2>1 DEF Unparked
    <3>2. ~Contains(park, e) => call'[e] = call[e]  BY <2>1 DEF Unparked
    <3>3. call[e] \in CallType  BY <1>0
    <3>4. ~Contains(park, e) /\ call[e].st = "sent"  BY <1>5, <3>1, <3>2, <3>3 DEF CallType
    <3> QED  BY <1>3, <2>1, <3>4 DEF Awake, Waiting
  <2>2. CASE call' = call /\ wire' = wire \o park
    <3>1. wire' = park  BY <1>0, <1>1, <2>2
    <3>2. Waiting(e) /\ ~Contains(wire, e)  BY <1>1, <1>5, <2>2 DEF Awake, Contains
    <3> QED  BY <1>3, <3>1, <3>2 DEF Waiting
  <2>3. CASE call' = call /\ wire' = wire /\ park' = park
    BY <1>3, <1>5, <2>3 DEF Awake, Waiting
  <2> QED  BY <1>4, <2>1, <2>2, <2>3
<1>6. sup' = "register" => life'[att'] = "up"
  <2> SUFFICES ASSUME sup' = "register" PROVE life'[att'] = "up"  OBVIOUS
  <2>1. ~TryAgain  BY DEF TryAgain
  <2>2. life' = [life EXCEPT ![att] = "up"] /\ att' = att
    BY <2>1 DEF Respawn, SpawnAgain, StartFails, StartReady, Registered, NextAttempt, TakeOver
  <2> QED  BY <1>0, <2>2 DEF Lives
<1> QED  BY <1>2, <1>3, <1>5, <1>6 DEF Awake

(* The system never comes to rest with a request that has no answer or a   *)
(* close() that has not resolved, for any number of callers, transactions, *)
(* crashes and respawns (worker-client.ts 126-139, 209-280, 290-335,       *)
(* 364-380).  "dies": a worker that crashes while it registers its sources *)
(* is watched by nobody, and the respawn waits for it for ever.            *)
THEOREM NobodyHangs == "dies" \notin Window => (Spec => []NothingHangs)
<1> SUFFICES ASSUME "dies" \notin Window PROVE Spec => []NothingHangs  OBVIOUS
<1>1. Init => Awake
  <2> SUFFICES ASSUME Init PROVE Awake  OBVIOUS
  <2>1. \A c \in Callers : call[c].st = "free"  BY DEF Init
  <2>2. host = NewHost /\ sup = "idle" /\ closing = "no"  BY DEF Init
  <2> QED  BY <2>1, <2>2 DEF Awake, Held, NewHost
<1>2. Inv /\ Awake /\ [Next]_vars => Awake'
  <2> SUFFICES ASSUME Inv, Awake, [Next]_vars PROVE Awake'  OBVIOUS
  <2>1. CASE Ask  BY <2>1, AskAwake
  <2>2. CASE Dies \/ Exits \/ Close \/ Closed  BY <2>2, EndsAwake
  <2>3. CASE Deliver  BY <2>3, DeliverAwake
  <2>4. CASE handleDeath \/ Terminate  BY <2>4, DeathAwake
  <2>5. CASE Respawn  BY <2>5, RespawnAwake
  <2>6. CASE Work \/ LeaseExpires  BY <2>6, WorkAwake
  <2>7. CASE UNCHANGED vars
    <3>1. UNCHANGED <<life, cur, dead, sup, att, closing, call, park, wire, replies, host>>
      BY <2>7 DEF vars, sides
    <3> QED  BY <3>1 DEF Awake, Waiting
  <2> QED  BY <2>1, <2>2, <2>3, <2>4, <2>5, <2>6, <2>7 DEF Next, Progress, EndClose
<1>3. Inv /\ Awake => NothingHangs
  <2> SUFFICES ASSUME Inv, Awake, ~CanProgress PROVE NothingHangs  BY DEF NothingHangs
  <2>1. Lives  BY DEF Inv
  <2>2. sup = "idle" /\ park = <<>>
    BY <2>1 DEF Lives, CanProgress, Awake
  <2>3. dead \/ life[cur] = "up"  BY <2>1 DEF Lives, CanProgress
  <2>4. wire = <<>> /\ replies = <<>> /\ host.q = <<>>
    <3>1. CASE dead
      BY <2>1, <3>1 DEF Lives, NewHost
    <3>2. CASE ~dead
      <4>1. replies = <<>> /\ wire = <<>> /\ host.tx = None  BY <2>3, <3>2 DEF CanProgress
      <4> QED  BY <4>1 DEF Awake, Held
    <3> QED  BY <3>1, <3>2
  <2>5. \A e : ~Contains(<<>>, e) /\ ~To(<<>>, e)  BY DEF Contains, To
  <2>6. \A c \in Callers : call[c].st # "sent"  BY <2>2, <2>4, <2>5 DEF Awake, Waiting
  <2>7. closing \in {"no", "closed"}
    <3>1. closing \notin {"terminate", "settle"}  BY <2>2 DEF CanProgress
    <3>2. closing # "asked"
      BY <2>3, <2>4, <2>5 DEF Awake
    <3> QED  BY <2>1, <3>1, <3>2 DEF Lives
  <2> QED  BY <2>6, <2>7 DEF NothingHangs
<1> QED  BY <1>1, <1>2, <1>3, AlwaysInv, PTL DEF Spec
=============================================================================
