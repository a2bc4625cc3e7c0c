------------------------ MODULE FeedConsumer_proofs ------------------------
(***************************************************************************)
(* Proofs about FeedConsumer.                                              *)
(***************************************************************************)
EXTENDS FeedConsumer, FiniteSetTheorems, WellFoundedInduction, TLAPS

-----------------------------------------------------------------------------
(* Numbers in order.                                                       *)

(* ORDER BY seq returns each number once, from the lowest up (InOrder).    *)
LEMMA Ordered ==
  ASSUME NEW S \in SUBSET Nat, IsFiniteSet(S)
  PROVE  /\ InOrder(S) \in Seq(S) /\ Len(InOrder(S)) = Cardinality(S)
         /\ \A i, j \in 1..Cardinality(S) : i < j => InOrder(S)[i] < InOrder(S)[j]
         /\ \A s \in S : \E k \in 1..Cardinality(S) : InOrder(S)[k] = s
<1> DEFINE n == Cardinality(S)
           upTo(s) == {t \in S : t <= s}
           rank == [s \in S |-> Cardinality(upTo(s))]
<1>1. n \in Nat  BY FS_CardinalityType
<1>2. ASSUME NEW s \in S PROVE IsFiniteSet(upTo(s)) /\ rank[s] \in 1..n
  <2>1. upTo(s) \in SUBSET S /\ s \in upTo(s)  OBVIOUS
  <2> HIDE DEF upTo
  <2>2. IsFiniteSet(upTo(s)) /\ Cardinality(upTo(s)) <= n  BY <2>1, FS_Subset
  <2>3. Cardinality(upTo(s)) \in Nat /\ Cardinality(upTo(s)) # 0
    BY <2>1, <2>2, FS_CardinalityType, FS_EmptySet
  <2> QED  BY <1>1, <2>2, <2>3
<1>3. ASSUME NEW s \in S, NEW t \in S, s < t PROVE rank[s] < rank[t]
  <2>0. s \in Nat /\ t \in Nat /\ t <= t /\ ~(t <= s)  BY <1>3
  <2>1. upTo(s) \in SUBSET upTo(t) /\ t \in upTo(t) /\ t \notin upTo(s)
    <3>1. \A u \in S : u <= s => u <= t  BY <1>3, <2>0
    <3> QED  BY <2>0, <3>1
  <2>2. IsFiniteSet(upTo(t)) /\ rank[s] \in Nat /\ rank[t] \in Nat  BY <1>1, <1>2
  <2>3. rank[s] = Cardinality(upTo(s)) /\ rank[t] = Cardinality(upTo(t))  OBVIOUS
  <2> HIDE DEF upTo, rank
  <2>4. Cardinality(upTo(s)) <= Cardinality(upTo(t)) /\ Cardinality(upTo(s)) # Cardinality(upTo(t))
    BY <2>1, <2>2, FS_Subset
  <2> QED  BY <2>2, <2>3, <2>4
<1>4. \A s \in S : rank[s] = Cardinality(upTo(s))  OBVIOUS
<1>5. rank \in [S -> 1..n]  BY <1>2
<1>6. InOrder(S) = [k \in 1..n |-> CHOOSE s \in S : Cardinality(upTo(s)) = k]  BY DEF InOrder
<1> HIDE DEF upTo, rank
<1>7. \A s, t \in S : rank[s] = rank[t] => s = t
  <2> SUFFICES ASSUME NEW s \in S, NEW t \in S, rank[s] = rank[t] PROVE s = t  OBVIOUS
  <2>1. ~(s < t) /\ ~(t < s)
    <3>1. rank[s] \in Nat /\ rank[t] \in Nat  BY <1>1, <1>5
    <3> QED  BY <1>3, <3>1
  <2> QED  BY <2>1
<1>8. rank \in Injection(S, 1..n)  BY <1>5, <1>7 DEF Injection, IsInjective
<1>9. IsFiniteSet(1..n) /\ Cardinality(1..n) = n  BY <1>1, FS_Interval
<1>10. rank \in Surjection(S, 1..n)  BY <1>8, <1>9, FS_Injection
<1>11. \A k \in 1..n : \E s \in S : rank[s] = k  BY <1>10 DEF Surjection
<1>12. ASSUME NEW k \in 1..n PROVE InOrder(S)[k] \in S /\ rank[InOrder(S)[k]] = k
  <2>1. \E s \in S : Cardinality(upTo(s)) = k  BY <1>4, <1>11
  <2>2. InOrder(S)[k] = CHOOSE s \in S : Cardinality(upTo(s)) = k  BY <1>6
  <2>3. InOrder(S)[k] \in S /\ Cardinality(upTo(InOrder(S)[k])) = k  BY <2>1, <2>2
  <2> QED  BY <1>4, <2>3
<1>13. InOrder(S) \in Seq(S) /\ Len(InOrder(S)) = n
  <2>1. InOrder(S) \in [1..n -> S]  BY <1>6, <1>12
  <2> QED  BY <1>1, <2>1
<1>14. ASSUME NEW i \in 1..n, NEW j \in 1..n, i < j PROVE InOrder(S)[i] < InOrder(S)[j]
  <2> DEFINE x == InOrder(S)[i]
             y == InOrder(S)[j]
  <2>1. x \in S /\ y \in S /\ rank[x] = i /\ rank[y] = j  BY <1>12
  <2> HIDE DEF x, y
  <2>2. x \in Nat /\ y \in Nat /\ x # y /\ ~(y < x)  BY <1>1, <1>3, <1>14, <2>1
  <2>3. x < y  BY <2>2
  <2> QED  BY <2>3 DEF x, y
<1>15. ASSUME NEW s \in S PROVE \E k \in 1..n : InOrder(S)[k] = s
  <2>1. rank[s] \in 1..n  BY <1>5
  <2> QED  BY <1>7, <1>12, <2>1
<1> QED  BY <1>13, <1>14, <1>15

(* A LIMIT leaves the lowest numbers: none below the last of a page is     *)
(* missing from it (FirstOf).                                              *)
LEMMA Paged ==
  ASSUME NEW S \in SUBSET Nat, IsFiniteSet(S), NEW n \in Nat \ {0}
  PROVE  /\ FirstOf(S, n) \in Seq(S)
         /\ S # {} => /\ FirstOf(S, n) # <<>> /\ Last(FirstOf(S, n)) \in S
                      /\ \A i \in 1..Len(FirstOf(S, n)) : FirstOf(S, n)[i] <= Last(FirstOf(S, n))
         /\ S = {} => FirstOf(S, n) = <<>>
         /\ \A s \in S : s <= Last(FirstOf(S, n)) => \E i \in 1..Len(FirstOf(S, n)) : FirstOf(S, n)[i] = s
<1> DEFINE q == InOrder(S)
           c == Cardinality(S)
           m == Min({n, c})
           p == SubSeq(q, 1, m)
<1>1. c \in Nat /\ (c = 0 <=> S = {})  BY FS_CardinalityType, FS_EmptySet
<1>2. /\ q \in Seq(S) /\ Len(q) = c
      /\ \A i, j \in 1..c : i < j => q[i] < q[j]
      /\ \A s \in S : \E k \in 1..c : q[k] = s
  BY Ordered
<1> HIDE DEF q, c
<1>3. m \in 0..c /\ (c # 0 => m # 0)
  <2>1. n <= c \/ c <= n  BY <1>1
  <2>2. m \in {n, c} /\ m <= n /\ m <= c  BY <1>1, <2>1 DEF Min
  <2> QED  BY <1>1, <2>2
<1>4. FirstOf(S, n) = p  BY DEF FirstOf, q, c
<1> HIDE DEF m
<1>5. p \in Seq(S) /\ Len(p) = m /\ \A i \in 1..m : p[i] = q[i] /\ i \in 1..c
  BY <1>1, <1>2, <1>3
<1>6. \A i \in 1..c : q[i] \in Nat
  <2>1. \A i \in 1..c : q[i] \in S  BY <1>1, <1>2
  <2> QED  BY <2>1
<1> HIDE DEF p
<1>7. Last(p) = p[m]  BY <1>5 DEF Last
<1>8. ASSUME S # {} PROVE /\ p # <<>> /\ Last(p) \in S /\ m \in 1..m /\ Last(p) = q[m]
                         /\ \A i \in 1..m : p[i] <= Last(p)
  <2>0. c # 0  BY <1>1, <1>8
  <2>1. m \in 1..m /\ m \in 1..c  BY <1>1, <1>3, <2>0
  <2>2. p # <<>> /\ Last(p) = q[m] /\ q[m] \in S  BY <1>2, <1>5, <1>7, <2>1
  <2>3. ASSUME NEW i \in 1..m PROVE p[i] <= Last(p)
    <3>1. p[i] = q[i] /\ i \in 1..c /\ (i = m \/ i < m)  BY <1>5, <2>1
    <3> QED  BY <1>2, <1>6, <2>1, <2>2, <3>1
  <2> QED  BY <2>1, <2>2, <2>3
<1>9. S = {} => p = <<>>  BY <1>1, <1>3, <1>5
<1>10. ASSUME NEW s \in S, s <= Last(p) PROVE \E i \in 1..m : p[i] = s
  <2>1. Last(p) = q[m] /\ m \in 1..c  BY <1>1, <1>3, <1>8
  <2>2. PICK k \in 1..c : q[k] = s  BY <1>2
  <2>3. q[m] \in Nat /\ q[k] \in Nat /\ ~(q[m] < q[k])  BY <1>6, <1>10, <2>1, <2>2
  <2>4. ~(m < k)  BY <1>2, <2>1, <2>3
  <2>5. k \in 1..m  BY <1>1, <1>3, <2>4
  <2> QED  BY <1>5, <2>2, <2>5
<1> QED  BY <1>4, <1>5, <1>8, <1>9, <1>10

(* A set of numbers has a least one, and a greatest where it is bounded.   *)
LEMMA LeastOf == ASSUME NEW T \in SUBSET Nat, T # {} PROVE Min(T) \in T /\ \A m \in T : Min(T) <= m
<1>1. PICK n \in T : \A m \in T : ~(<<m, n>> \in OpToRel(<, Nat))
  BY NatLessThanWellFounded, WFMin
<1>2. ASSUME NEW m \in T PROVE n <= m
  <2>1. m \in Nat /\ n \in Nat  OBVIOUS
  <2>2. ~(m < n)  BY <1>1, <2>1, Zenon DEF OpToRel
  <2> QED  BY <2>1, <2>2
<1>3. \E x \in T : \A y \in T : x <= y  BY <1>2
<1> QED  BY <1>3, Zenon DEF Min

(* The same from above: the last row of a page (MAX(seq)).                 *)
LEMMA GreatestOf ==
  ASSUME NEW n \in Nat, NEW T \in SUBSET (0..n), T # {}
  PROVE  Max(T) \in T /\ \A m \in T : m <= Max(T)
<1> DEFINE U == {n - t : t \in T}
<1>1. U \in SUBSET Nat /\ U # {}
  <2>1. \A t \in T : t \in Nat /\ n - t \in Nat  OBVIOUS
  <2> QED  BY <2>1
<1>2. Min(U) \in U /\ \A u \in U : Min(U) <= u
  <2> HIDE DEF U
  <2> QED  BY <1>1, LeastOf
<1>3. PICK x \in T : Min(U) = n - x  BY <1>2
<1>4. ASSUME NEW m \in T PROVE x >= m
  <2>1. n - m \in U  OBVIOUS
  <2>2. n - x <= n - m  BY <1>2, <1>3, <2>1
  <2>3. x \in Nat /\ m \in Nat  OBVIOUS
  <2> QED  BY <2>2, <2>3
<1>5. \E z \in T : \A y \in T : z >= y  BY <1>4
<1>6. Max(T) \in T /\ \A y \in T : Max(T) >= y  BY <1>5, Zenon DEF Max
<1> QED  BY <1>6

-----------------------------------------------------------------------------
(* What is known of every state.                                           *)

\* Where the loop holds nothing; where it seeds; where it holds a page; where
\* it follows the feed; where it holds a batch.
Resting == {"off", "dead", "backoff", "seedCheck", "seedHead", "seedBegin"}
Seeds == {"seedPage", "seedWork", "seedBusy", "seedFlush", "seedCommit", "seedEnd"}
SeedPages == {"seedWork", "seedBusy", "seedFlush", "seedCommit"}
Feeds == {"feedRows", "feedEmpty", "feedWait", "feedDocs", "work", "busy", "flush",
          "commit"}
Batches == {"work", "busy", "flush", "commit"}

\* A list of changes has the number s; all its numbers are above lo and not
\* above hi.
In(q, s) == \E i \in 1..Len(q) : q[i].seq = s
Within(q, lo, hi) == \A i \in 1..Len(q) : lo < q[i].seq /\ q[i].seq <= hi

\* In documents `docs' with the change numbers up to `head': d carries the
\* number s; and what was read under a number is of the document that still
\* has it.
Carries(d, s, docs) == docs[d].st # "none" /\ docs[d].seq = s
Tells(c, docs, head) ==
  /\ c.seq <= head
  /\ \A d \in Docs : Carries(d, c.seq, docs) => c.doc = d /\ (c.match <=> Matches(docs[d]))
  /\ c.match => c.doc \in Docs /\ c.src # 0
AllTell(q, docs, head) == \A i \in 1..Len(q) : Tells(q[i], docs, head)
AllMatch(q) == \A i \in 1..Len(q) : q[i].match
RefsTell(w, docs, head) ==
  \A i \in 1..Len(w) : /\ w[i].seq <= head
                       /\ \A d \in Docs : Carries(d, w[i].seq, docs) => w[i].ref = d

\* The corpus: a document's number is its own, and is in the log unless the
\* log has been pruned above it.
CorpusTypes ==
  /\ doc \in [Docs -> Document]
  /\ log \in Seq(Docs \cup {Noise, Gone}) /\ headSeq <= MaxSeq
Corpus ==
  /\ CorpusTypes
  /\ \A d \in Docs : doc[d].st # "none" =>
       doc[d].seq \in 1..headSeq /\ doc[d].src # 0 /\ log[doc[d].seq] \in {d, Gone}
  /\ \A d, e \in Docs : doc[d].st # "none" /\ Carries(e, doc[d].seq, doc) => d = e

\* The rows that hold change numbers.
Marks ==
  /\ cutoff \in 1..MaxSeq + 1 /\ cutoff <= headSeq + 1
  /\ row \in 0..MaxSeq \cup {None} /\ seedRow \in 0..MaxSeq \cup {None}
  /\ row # None => row <= headSeq
  /\ floor \in 0..MaxSeq /\ floor <= headSeq
  /\ \A s \in 1..headSeq : log[s] = Gone => s < floor
  /\ ledger \in [Seqs -> Outcomes \cup {None}]
  /\ \A s \in Seqs : ledger[s] # None => s <= headSeq

\* A prune deletes below the floor it published.
Pruned ==
  /\ prune \in Prunes
  /\ prune.pc \in {"publish", "delete"} => prune.limit <= headSeq
  /\ prune.pc = "delete" => prune.limit <= floor

Clean(t) == t.todo = <<>> /\ t.win = <<>> /\ t.staged = <<>> /\ t.led = {}

\* Where the loop is, and where its cursors are.
TailShape ==
  /\ tail \in Tails
  /\ tail.pc \in Resting \cup {"seedPage", "seedEnd", "feedRows", "feedEmpty", "feedWait"} =>
       Clean(tail)
  /\ tail.pc = "seedBegin" => tail.h0 <= headSeq /\ (row # None => row <= tail.h0)
  /\ tail.pc \in Seeds => row # None /\ row = tail.h0 /\ seedRow = tail.after /\ tail.win = <<>>
  /\ tail.pc \in SeedPages => tail.pos <= tail.h0 /\ Within(tail.todo, tail.after, tail.pos)
  /\ tail.pc \in Feeds =>
       /\ row # None /\ row <= tail.cur /\ tail.cur <= headSeq /\ tail.led = {}
       /\ Within(tail.todo, row, tail.cur) /\ Within(tail.win, row, tail.cur)
  /\ tail.pc \in Batches => tail.win = <<>> /\ row <= tail.pos /\ tail.pos <= tail.cur
  /\ tail.pc \in {"flush", "commit"} => row < tail.pos
  /\ tail.pc = "feedDocs" => tail.win # <<>> /\ tail.staged = <<>>
  /\ tail.pc \in {"work", "busy", "seedWork", "seedBusy"} => tail.todo # <<>>
  /\ tail.pc \in {"busy", "seedBusy"} => Head(tail.todo).match
  /\ tail.pc \in {"flush", "commit", "seedFlush", "seedCommit"} =>
       Bounded(tail) \/ tail.todo = <<>>

\* What the loop has read.
TailReads ==
  /\ AllTell(tail.todo, doc, headSeq) /\ AllTell(tail.staged, doc, headSeq)
  /\ AllMatch(tail.staged) /\ RefsTell(tail.win, doc, headSeq)
  /\ \A e \in tail.led : /\ e.seq <= headSeq /\ e.outcome # "skip"
                         /\ e.outcome = "done" => In(tail.staged, e.seq)

\* What a re-drive has read.  It records "done" and "skip" for numbers that no
\* document waits under.
RedriveOK ==
  /\ redrive \in Redrives
  /\ AllTell(redrive.todo, doc, headSeq) /\ AllTell(redrive.staged, doc, headSeq)
  /\ AllMatch(redrive.staged)
  /\ \A i \in 1..Len(redrive.page) : redrive.page[i] <= headSeq
  /\ redrive.pc = "work" => redrive.todo # <<>>
  /\ redrive.pc \in {"idle", "list", "resolve", "record"} =>
       redrive.todo = <<>> /\ redrive.staged = <<>>
  /\ redrive.pc \in {"idle", "list", "resolve"} => redrive.led = {}
  /\ \A e \in redrive.led :
       /\ e.seq <= headSeq
       /\ e.outcome \in {"done", "skip"} =>
            \A d \in Docs : Carries(d, e.seq, doc) /\ Matches(doc[d]) => In(redrive.staged, e.seq)

\* Who is attached.
Flags ==
  /\ aborted \in BOOLEAN /\ attached \in BOOLEAN /\ others \in {"none", "with", "alone"}
  /\ faults \in 0..MaxFaults
  /\ tail.pc # "off" => attached
  /\ aborted => attached
  /\ others = "alone" => ~attached

\* The inductive invariant of NeverRewinds and TypeCorrect.
Inv == Corpus /\ Marks /\ Pruned /\ TailShape /\ TailReads /\ RedriveOK /\ Flags

-----------------------------------------------------------------------------
(* What is known where the stops of a hold settle together, or nothing is  *)
(* pruned.                                                                 *)

\* Either the stops of a hold settle in one step, or the instance does not
\* combine stops with prunes.
StopsTogether == Staggered => ~({"stop", "prune"} \subseteq Kinds)

\* What follows from the operations an instance has.
Together ==
  /\ "stop" \notin Kinds => ~aborted
  /\ "prune" \notin Kinds => prune = PruneIdle /\ floor = 0 /\ cutoff = 1
  /\ "prune" \in Kinds => (others = "with" <=> attached)

\* A prune stays behind the cursor of the worker that is attached.
Limit == IF prune.pc = "limits" THEN Min({prune.limit, cutoff}) ELSE prune.limit
Behind ==
  /\ prune.pc # "idle" =>
       /\ others # "alone" /\ row # None => Limit <= row + 1
       /\ Limit <= headSeq + 1
       /\ tail.pc = "seedBegin" => Limit <= tail.h0 + 1
  /\ tail.pc = "seedBegin" => floor <= tail.h0 + 1 /\ cutoff <= tail.h0 + 1
  /\ tail.pc \in Seeds \cup Feeds => floor <= row + 1

\* The seed and the feed hold every document of what they have read.
SeedCover ==
  /\ tail.pc \in SeedPages =>
       \A d \in Docs : Matches(doc[d]) /\ tail.after < doc[d].seq /\ doc[d].seq <= tail.pos =>
          \/ In(tail.todo, doc[d].seq) \/ In(tail.staged, doc[d].seq)
          \/ Settled(doc[d].seq)
          \/ \E e \in tail.led : e.seq = doc[d].seq /\ e.outcome \in {"deferred", "failed"}
  /\ tail.pc = "seedEnd" =>
       \A d \in Docs : Matches(doc[d]) => ~(tail.after < doc[d].seq /\ doc[d].seq <= tail.h0)
FeedCover ==
  tail.pc \in Feeds =>
     \A d \in Docs : Matches(doc[d]) /\ row < doc[d].seq /\ doc[d].seq <= tail.cur =>
        \/ In(tail.win, doc[d].seq) \/ In(tail.todo, doc[d].seq)
        \/ In(tail.staged, doc[d].seq) \/ Settled(doc[d].seq)

\* NothingMissed below the cursor, and the same while the loop reads from a
\* cursor that a prune has just come level with.
Watched == row # None /\ (row >= floor \/ tail.pc \in Seeds \cup Feeds)
NothingLost ==
  Watched => \A d \in Docs : Matches(doc[d]) /\ doc[d].seq <= row =>
                Seeding(doc[d].seq) \/ Settled(doc[d].seq)

\* The strengthening of NothingMissed: it needs Inv beside it.
Cover == Together /\ Behind /\ SeedCover /\ FeedCover /\ NothingLost

-----------------------------------------------------------------------------
(* The corpus moves on, and what was read of it stays true.                *)

(* The markers of the log are no documents, and "no row" is no number and  *)
(* no outcome.                                                             *)
LEMMA Names ==
  Noise \notin Docs /\ Gone \notin Docs /\ Noise # Gone /\ None \notin Nat /\ None \notin Outcomes
<1>1. Noise # Gone
  <2>1. Cardinality({Noise}) = 1  BY FS_Singleton
  <2>2. Noise = Gone => {Noise, Gone} = {Noise}  OBVIOUS
  <2> QED  BY <2>1, <2>2, NamesAssumption
<1> QED  BY <1>1, NamesAssumption

\* What a write to the corpus does: it appends, and a document it changes gets
\* a new number.
Grows ==
  /\ log' \in Seq(Docs \cup {Noise, Gone}) /\ headSeq <= headSeq' /\ headSeq' <= MaxSeq
  /\ \A s \in 1..headSeq : log'[s] = log[s]
  /\ \A s \in (headSeq + 1)..headSeq' : log'[s] # Gone
  /\ doc' \in [Docs -> Document]
  /\ \A d \in Docs : \/ doc'[d] = doc[d]
                     \/ doc'[d].st = "none"
                     \/ /\ doc'[d].seq \in (headSeq + 1)..headSeq' /\ log'[doc'[d].seq] = d
                        /\ doc'[d].src # 0

\* As far as the documents go.
Renumbers ==
  /\ headSeq <= headSeq'
  /\ \A d \in Docs : doc'[d] = doc[d] \/ doc'[d].st = "none" \/ doc'[d].seq > headSeq

(* Steps that leave the corpus alone (every other store call).             *)
LEMMA StillGrows == ASSUME Corpus, UNCHANGED <<doc, log>> PROVE Grows
<1>1. headSeq' = headSeq /\ headSeq \in Nat  BY DEF headSeq, Corpus, CorpusTypes
<1>2. \A s \in (headSeq + 1)..headSeq' : log'[s] # Gone  BY <1>1
<1> QED  BY <1>1, <1>2 DEF Grows, Corpus, CorpusTypes

(* A write that appends to the log renumbers what it changes               *)
(* (appendChange).                                                         *)
LEMMA GrowsRenumbers == ASSUME Corpus, Grows PROVE Renumbers
<1>1. headSeq \in Nat /\ headSeq' \in Nat  BY DEF headSeq, Corpus, CorpusTypes, Grows
<1> QED  BY <1>1 DEF Grows, Renumbers

(* A write keeps a document's number its own (appendChange).               *)
LEMMA CorpusGrows == ASSUME Corpus, Grows PROVE Corpus'
<1>1. headSeq \in Nat /\ headSeq' \in Nat  BY DEF headSeq, Corpus, CorpusTypes, Grows
<1>2. CorpusTypes'  BY DEF CorpusTypes, Grows, headSeq
<1>3. ASSUME NEW d \in Docs, doc'[d].st # "none"
      PROVE  /\ doc'[d].seq \in 1..headSeq' /\ doc'[d].src # 0
             /\ log'[doc'[d].seq] \in {d, Gone}
             /\ doc'[d] = doc[d] \/ (doc'[d].seq > headSeq /\ log'[doc'[d].seq] = d)
  <2>1. CASE doc'[d] = doc[d]
    <3>1. doc[d].seq \in 1..headSeq /\ doc[d].src # 0 /\ log[doc[d].seq] \in {d, Gone}
      BY <1>3, <2>1 DEF Corpus
    <3>2. log'[doc[d].seq] = log[doc[d].seq]  BY <3>1 DEF Grows
    <3> QED  BY <1>1, <2>1, <3>1, <3>2 DEF Grows
  <2>2. CASE /\ doc'[d].seq \in (headSeq + 1)..headSeq' /\ log'[doc'[d].seq] = d
             /\ doc'[d].src # 0
    BY <1>1, <2>2
  <2> QED  BY <1>3, <2>1, <2>2 DEF Grows
<1>4. ASSUME NEW d \in Docs, NEW e \in Docs, doc'[d].st # "none", Carries(e, doc'[d].seq, doc')
      PROVE  d = e
  <2>1. doc'[e].st # "none" /\ doc'[e].seq = doc'[d].seq  BY <1>4 DEF Carries
  <2>2. CASE doc'[d] = doc[d] /\ doc'[e] = doc[e]
    <3>1. doc[d].st # "none" /\ Carries(e, doc[d].seq, doc)  BY <1>4, <2>1, <2>2 DEF Carries
    <3> QED  BY <3>1 DEF Corpus
  <2>3. CASE doc'[d] = doc[d] /\ doc'[e] # doc[e]
    <3>1. doc[d].seq \in 1..headSeq /\ doc'[e].seq > headSeq  BY <1>3, <1>4, <2>1, <2>3 DEF Corpus
    <3> QED  BY <1>1, <2>1, <2>3, <3>1
  <2>4. CASE doc'[d] # doc[d] /\ doc'[e] = doc[e]
    <3>1. doc[e].seq \in 1..headSeq /\ doc'[d].seq > headSeq  BY <1>3, <1>4, <2>1, <2>4 DEF Corpus
    <3> QED  BY <1>1, <2>1, <2>4, <3>1
  <2>5. CASE doc'[d] # doc[d] /\ doc'[e] # doc[e]
    BY <1>3, <1>4, <2>1, <2>5
  <2> QED  BY <2>2, <2>3, <2>4, <2>5
<1>5. \A d \in Docs : doc'[d].st # "none" =>
         doc'[d].seq \in 1..headSeq' /\ doc'[d].src # 0 /\ log'[doc'[d].seq] \in {d, Gone}
  BY <1>3
<1>6. \A d, e \in Docs : doc'[d].st # "none" /\ Carries(e, doc'[d].seq, doc') => d = e
  BY <1>4
<1> QED  BY <1>2, <1>5, <1>6 DEF Corpus, Carries

(* The rows that hold numbers stay below the head (headSeq).               *)
LEMMA MarksGrow ==
  ASSUME Corpus, Marks, Grows, UNCHANGED <<cutoff, row, seedRow, floor, ledger>>
  PROVE  Marks'
<1>1. headSeq \in Nat /\ headSeq' \in Nat /\ headSeq <= headSeq' /\ MaxSeq \in Nat
  BY BoundsAssumption DEF headSeq, Corpus, CorpusTypes, Grows
<1>2. \A s \in 1..headSeq' : log'[s] = Gone => s < floor
  <2> SUFFICES ASSUME NEW s \in 1..headSeq', log'[s] = Gone PROVE s < floor  OBVIOUS
  <2>1. s \notin (headSeq + 1)..headSeq'  BY DEF Grows
  <2>2. s \in 1..headSeq  BY <1>1, <2>1
  <2> QED  BY <2>2 DEF Grows, Marks
<1>3. row # None => row <= headSeq'
  <2>1. row # None => row \in Nat /\ row <= headSeq  BY DEF Marks
  <2> QED  BY <1>1, <2>1
<1>4. \A s \in Seqs : ledger[s] # None => s <= headSeq'  BY <1>1 DEF Marks, Seqs
<1>5. cutoff <= headSeq' + 1 /\ floor <= headSeq'
  <2>1. cutoff \in Nat /\ floor \in Nat /\ cutoff <= headSeq + 1 /\ floor <= headSeq
    BY <1>1 DEF Marks
  <2>2. cutoff <= headSeq' + 1
    <3> DEFINE h == headSeq
               g == headSeq'
    <3>1. h \in Nat /\ g \in Nat /\ h <= g /\ cutoff \in Nat /\ cutoff <= h + 1  BY <1>1, <2>1
    <3> HIDE DEF h, g
    <3>2. cutoff <= g + 1  BY <3>1
    <3> QED  BY <3>2 DEF g
  <2>3. floor <= headSeq'  BY <1>1, <2>1
  <2> QED  BY <2>2, <2>3
<1> QED  BY <1>2, <1>3, <1>4, <1>5 DEF Marks

(* A change that was read stays true of the document that still has its    *)
(* number.                                                                 *)
LEMMA TellsOn ==
  ASSUME Corpus, Renumbers, NEW c, c.seq \in Nat, Tells(c, doc, headSeq),
         headSeq' \in Nat
  PROVE  Tells(c, doc', headSeq')
<1>1. headSeq \in Nat  BY DEF headSeq, Corpus, CorpusTypes
<1>2. ASSUME NEW d \in Docs, Carries(d, c.seq, doc') PROVE doc'[d] = doc[d]
  <2>1. ~(doc'[d].seq > headSeq)  BY <1>1, <1>2 DEF Tells, Carries
  <2> QED  BY <1>2, <2>1 DEF Renumbers, Carries
<1>3. ASSUME NEW d \in Docs, Carries(d, c.seq, doc')
      PROVE  c.doc = d /\ (c.match <=> Matches(doc'[d]))
  <2>1. Carries(d, c.seq, doc)  BY <1>2, <1>3 DEF Carries
  <2> QED  BY <1>2, <1>3, <2>1 DEF Tells
<1>4. c.seq <= headSeq'  BY <1>1 DEF Tells, Renumbers
<1> QED  BY <1>3, <1>4 DEF Tells

(* The head of the log is a number.                                        *)
LEMMA HeadNat == ASSUME Corpus PROVE headSeq \in Nat
BY DEF headSeq, Corpus, CorpusTypes

(* A list of changes that were read stays true in the same way.            *)
LEMMA AllTellOn ==
  ASSUME Corpus, Renumbers, headSeq' \in Nat, NEW q \in Seq(Change), AllTell(q, doc, headSeq)
  PROVE  AllTell(q, doc', headSeq')
<1> SUFFICES ASSUME NEW i \in 1..Len(q) PROVE Tells(q[i], doc', headSeq')  BY DEF AllTell
<1>1. q[i] \in Change  OBVIOUS
<1>2. q[i].seq \in Nat  BY <1>1, BoundsAssumption DEF Change, Seqs
<1> QED  BY <1>2, TellsOn DEF AllTell

(* And a window of log rows whose documents are still to be read.          *)
LEMMA RefsTellOn ==
  ASSUME Corpus, Renumbers, headSeq' \in Nat,
         NEW w \in Seq([seq : Seqs, ref : Docs \cup {Noise}]), RefsTell(w, doc, headSeq)
  PROVE  RefsTell(w, doc', headSeq')
<1> SUFFICES ASSUME NEW i \in 1..Len(w)
             PROVE  /\ w[i].seq <= headSeq'
                    /\ \A d \in Docs : Carries(d, w[i].seq, doc') => w[i].ref = d
  BY DEF RefsTell
<1> DEFINE s == w[i].seq
<1>1. w[i] \in [seq : Seqs, ref : Docs \cup {Noise}]
  <2> DEFINE R == [seq : Seqs, ref : Docs \cup {Noise}]
  <2>1. w \in Seq(R)  OBVIOUS
  <2> HIDE DEF R
  <2>2. w[i] \in R  BY <2>1
  <2> QED  BY <2>2 DEF R
<1>2. s \in Nat /\ s <= headSeq /\ headSeq \in Nat  BY <1>1, BoundsAssumption, HeadNat DEF Seqs, RefsTell
<1>3. \A d \in Docs : Carries(d, s, doc) => w[i].ref = d  BY DEF RefsTell
<1> HIDE DEF s
<1>4. \A d \in Docs : Carries(d, s, doc') => Carries(d, s, doc)
  <2> SUFFICES ASSUME NEW d \in Docs, Carries(d, s, doc') PROVE Carries(d, s, doc)  OBVIOUS
  <2>1. ~(doc'[d].seq > headSeq)  BY <1>2 DEF Carries
  <2> QED  BY <2>1 DEF Renumbers, Carries
<1>5. s <= headSeq'  BY <1>2 DEF Renumbers
<1> QED  BY <1>3, <1>4, <1>5 DEF s

(* What the loop has read stays true while others write (emitCommit).      *)
LEMMA ReadsOn ==
  ASSUME Corpus, Renumbers, headSeq' \in Nat, tail \in Tails, TailReads,
         tail'.todo = tail.todo, tail'.win = tail.win, tail'.staged = tail.staged,
         tail'.led = tail.led
  PROVE  TailReads'
<1>1. /\ tail.todo \in Seq(Change) /\ tail.staged \in Seq(Change)
      /\ tail.win \in Seq([seq : Seqs, ref : Docs \cup {Noise}])
      /\ \A e \in tail.led : e.seq \in Nat
  <2>1. tail.todo \in Seq(Change) /\ tail.staged \in Seq(Change)  BY DEF Tails
  <2>2. tail.win \in Seq([seq : Seqs, ref : Docs \cup {Noise}])  BY DEF Tails
  <2>3. tail.led \in SUBSET [seq : Seqs, outcome : Outcomes]  BY DEF Tails
  <2>4. \A e \in tail.led : e.seq \in Nat  BY <2>3, BoundsAssumption DEF Seqs
  <2> QED  BY <2>1, <2>2, <2>4
<1>2. /\ AllTell(tail.todo, doc', headSeq') /\ AllTell(tail.staged, doc', headSeq')
      /\ RefsTell(tail.win, doc', headSeq')
  BY <1>1, AllTellOn, RefsTellOn DEF TailReads
<1>3. \A e \in tail.led : e.seq <= headSeq'
  BY <1>1, HeadNat DEF TailReads, Renumbers
<1> QED  BY <1>2, <1>3 DEF TailReads

(* A commit wakes the loop and leaves the rest of it.                      *)
LEMMA WokenIs ==
  ASSUME NEW t \in Tails
  PROVE  LET u == Woken(t) IN
         /\ u \in Tails /\ u.todo = t.todo /\ u.win = t.win /\ u.staged = t.staged
         /\ u.led = t.led /\ u.pc = t.pc /\ u.cur = t.cur /\ u.pos = t.pos
         /\ u.after = t.after /\ u.h0 = t.h0
<1> DEFINE b == t.pc \in {"feedRows", "feedEmpty", "feedWait"}
<1>1. b \in BOOLEAN /\ Woken(t) = [t EXCEPT !.woke = b]  BY DEF Woken
<1> HIDE DEF b
<1> QED  BY <1>1 DEF Tails

(* Where the loop is does not depend on a write to the corpus, which may   *)
(* wake it (emitCommit).                                                   *)
LEMMA ShapeOn ==
  ASSUME Corpus, headSeq' \in Nat, headSeq <= headSeq', TailShape,
         tail' \in {tail, Woken(tail)}, UNCHANGED <<row, seedRow>>
  PROVE  /\ TailShape'
         /\ tail'.todo = tail.todo /\ tail'.win = tail.win /\ tail'.staged = tail.staged
         /\ tail'.led = tail.led /\ tail'.pc = tail.pc /\ tail'.cur = tail.cur
         /\ tail'.pos = tail.pos /\ tail'.after = tail.after /\ tail'.h0 = tail.h0
<1>1. /\ tail'.todo = tail.todo /\ tail'.win = tail.win /\ tail'.staged = tail.staged
      /\ tail'.led = tail.led /\ tail'.pc = tail.pc /\ tail'.cur = tail.cur
      /\ tail'.pos = tail.pos /\ tail'.after = tail.after /\ tail'.h0 = tail.h0
      /\ tail' \in Tails
  BY WokenIs DEF TailShape
<1>2. headSeq \in Nat /\ tail.h0 \in Nat /\ tail.cur \in Nat
  BY HeadNat, BoundsAssumption DEF TailShape, Tails
<1>3. tail.h0 <= headSeq => tail.h0 <= headSeq'  BY <1>2
<1>4. tail.cur <= headSeq => tail.cur <= headSeq'  BY <1>2
<1> QED  BY <1>1, <1>3, <1>4 DEF TailShape, Clean, Bounded

(* A write to the corpus leaves what a re-drive holds true.                *)
LEMMA RedriveOn ==
  ASSUME Corpus, Renumbers, headSeq' \in Nat, RedriveOK, redrive' = redrive
  PROVE  RedriveOK'
<1>1. /\ redrive.todo \in Seq(Change) /\ redrive.staged \in Seq(Change)
      /\ redrive.page \in Seq(Seqs) /\ \A e \in redrive.led : e.seq \in Nat
  BY BoundsAssumption DEF RedriveOK, Redrives, Seqs
<1>2. AllTell(redrive.todo, doc', headSeq') /\ AllTell(redrive.staged, doc', headSeq')
  BY <1>1, AllTellOn DEF RedriveOK
<1>3. headSeq \in Nat /\ headSeq <= headSeq'  BY HeadNat DEF Renumbers
<1>4. \A i \in 1..Len(redrive.page) : redrive.page[i] <= headSeq'
  <2> SUFFICES ASSUME NEW i \in 1..Len(redrive.page) PROVE redrive.page[i] <= headSeq'  OBVIOUS
  <2>0. redrive.page[i] \in Seqs  BY <1>1
  <2>1. redrive.page[i] \in Nat /\ redrive.page[i] <= headSeq
    BY <2>0, BoundsAssumption DEF RedriveOK, Seqs
  <2> QED  BY <1>3, <2>1
<1>5. ASSUME NEW e \in redrive.led
      PROVE  /\ e.seq <= headSeq'
             /\ e.outcome \in {"done", "skip"} =>
                  \A d \in Docs : Carries(d, e.seq, doc') /\ Matches(doc'[d]) => In(redrive.staged, e.seq)
  <2>1. e.seq \in Nat /\ e.seq <= headSeq  BY <1>1 DEF RedriveOK
  <2>2. ASSUME NEW d \in Docs, Carries(d, e.seq, doc') PROVE doc'[d] = doc[d]
    <3>1. ~(doc'[d].seq > headSeq)  BY <1>3, <2>1, <2>2 DEF Carries
    <3> QED  BY <2>2, <3>1 DEF Renumbers, Carries
  <2>3. \A d \in Docs : Carries(d, e.seq, doc') => Carries(d, e.seq, doc) /\ doc'[d] = doc[d]
    BY <2>2 DEF Carries
  <2> QED  BY <1>3, <2>1, <2>3 DEF RedriveOK
<1> QED  BY <1>2, <1>4, <1>5 DEF RedriveOK

-----------------------------------------------------------------------------
(* Outputs are written (the enrich part of a consumer commit).             *)

(* A consumer commit keeps, in order, the outputs whose document is still  *)
(* there (commitTx).                                                       *)
LEMMA Keeps ==
  ASSUME NEW es \in Seq(Change)
  PROVE  /\ Enriched(es) \in Seq(Change)
         /\ \A k \in 1..Len(Enriched(es)) : \E i \in 1..Len(es) :
              Enriched(es)[k] = es[i] /\ doc[es[i].doc].st # "none"
         /\ \A i \in 1..Len(es) : doc[es[i].doc].st # "none" =>
              \E k \in 1..Len(Enriched(es)) : Enriched(es)[k] = es[i]
<1> DEFINE S == {i \in DOMAIN es : doc[es[i].doc].st # "none"}
           kept == InOrder(S)
           n == Cardinality(S)
<1>1. S \in SUBSET Nat /\ IsFiniteSet(S)
  <2>1. DOMAIN es = 1..Len(es) /\ Len(es) \in Nat  OBVIOUS
  <2>2. IsFiniteSet(1..Len(es))  BY <2>1, FS_Interval
  <2>3. S \in SUBSET (1..Len(es))  BY <2>1
  <2> HIDE DEF S
  <2>4. S \in SUBSET Nat  BY <2>1, <2>3
  <2>5. IsFiniteSet(S)  BY <2>2, <2>3, FS_Subset
  <2> QED  BY <2>4, <2>5
<1>2. kept \in Seq(S) /\ Len(kept) = n /\ \A s \in S : \E k \in 1..n : kept[k] = s
  <2> HIDE DEF S
  <2> QED  BY <1>1, Ordered
<1>3. Enriched(es) = [k \in DOMAIN kept |-> es[kept[k]]]  BY DEF Enriched
<1>4. \A i \in S : i \in 1..Len(es) /\ doc[es[i].doc].st # "none"  OBVIOUS
<1>5. \A i \in 1..Len(es) : doc[es[i].doc].st # "none" => i \in S  OBVIOUS
<1> HIDE DEF kept, S
<1>6. n \in Nat /\ DOMAIN kept = 1..n  BY <1>2
<1>7. ASSUME NEW k \in 1..n PROVE kept[k] \in S  BY <1>2, <1>6
<1>8. \A k \in 1..n : es[kept[k]] \in Change  BY <1>4, <1>7
<1>9. Enriched(es) \in Seq(Change) /\ Len(Enriched(es)) = n
      /\ \A k \in 1..n : Enriched(es)[k] = es[kept[k]]
  <2> DEFINE f == [k \in 1..n |-> es[kept[k]]]
  <2>1. f \in [1..n -> Change]  BY <1>8
  <2>2. Enriched(es) = f  BY <1>3, <1>6
  <2> HIDE DEF n, f
  <2>3. f \in Seq(Change) /\ Len(f) = n  BY <1>6, <2>1
  <2>4. \A k \in 1..n : f[k] = es[kept[k]]  BY DEF f
  <2> QED  BY <2>2, <2>3, <2>4
<1>10. ASSUME NEW i \in 1..Len(es), doc[es[i].doc].st # "none"
       PROVE  \E k \in 1..n : Enriched(es)[k] = es[i]
  <2>1. PICK k \in 1..n : kept[k] = i  BY <1>2, <1>5, <1>10
  <2> QED  BY <1>9, <2>1
<1>11. ASSUME NEW k \in 1..n
       PROVE  \E i \in 1..Len(es) : Enriched(es)[k] = es[i] /\ doc[es[i].doc].st # "none"
  <2>1. kept[k] \in 1..Len(es) /\ doc[es[kept[k]].doc].st # "none"  BY <1>4, <1>7
  <2> QED  BY <1>9, <2>1
<1> HIDE DEF n
<1> QED  BY <1>9, <1>10, <1>11

(* Every output is appended as a change of its document, which no longer   *)
(* matches; the others stay as they are (commitTx).                        *)
LEMMA Written ==
  ASSUME Corpus, NEW es \in Seq(Change), AllMatch(es), AllTell(es, doc, headSeq), Enrich(es)
  PROVE  /\ Grows
         /\ \A d \in Docs : Matches(doc'[d]) =>
              doc'[d] = doc[d] /\ \A i \in 1..Len(es) : es[i].doc # d
         /\ Enriched(es) = <<>> => headSeq' = headSeq
<1> DEFINE ok == Enriched(es)
           m == Len(ok)
           at(d) == {i \in DOMAIN ok : ok[i].doc = d}
<1>1. /\ ok \in Seq(Change)
      /\ \A k \in 1..m : \E i \in 1..Len(es) : ok[k] = es[i] /\ doc[es[i].doc].st # "none"
      /\ \A i \in 1..Len(es) : doc[es[i].doc].st # "none" => \E k \in 1..m : ok[k] = es[i]
  BY Keeps
<1>2. /\ headSeq + m <= MaxSeq
      /\ log' = log \o [i \in DOMAIN ok |-> ok[i].doc]
      /\ doc' = [d \in Docs |-> IF at(d) = {} THEN doc[d]
                                ELSE [doc[d] EXCEPT !.seq = headSeq + Max(at(d)),
                                                    !.out = ok[Max(at(d))].src]]
  BY DEF Enrich
<1>3. ok = <<>> => m = 0  OBVIOUS
<1> HIDE DEF ok
<1>4. m \in Nat /\ DOMAIN ok = 1..m  BY <1>1
<1>5. ASSUME NEW k \in 1..m
      PROVE  ok[k].doc \in Docs /\ ok[k].src \in 1..MaxSeq /\ doc[ok[k].doc].st # "none"
  <2>1. PICK i \in 1..Len(es) : ok[k] = es[i] /\ doc[es[i].doc].st # "none"  BY <1>1
  <2>2. es[i].match /\ Tells(es[i], doc, headSeq)  BY DEF AllMatch, AllTell
  <2>3. es[i] \in Change  OBVIOUS
  <2>4. es[i].src \in 0..MaxSeq  BY <2>3 DEF Change
  <2> QED  BY <2>1, <2>2, <2>4, BoundsAssumption DEF Tells
<1>6. headSeq \in Nat /\ MaxSeq \in Nat  BY HeadNat, BoundsAssumption
<1>7. /\ log' \in Seq(Docs \cup {Noise, Gone}) /\ headSeq' = headSeq + m
      /\ \A s \in 1..headSeq : log'[s] = log[s]
      /\ \A k \in 1..m : log'[headSeq + k] = ok[k].doc
  <2> DEFINE T == Docs \cup {Noise, Gone}
             more == [i \in 1..m |-> ok[i].doc]
  <2>1. more \in [1..m -> T]  BY <1>5
  <2>2. log \in Seq(T)  BY DEF Corpus, CorpusTypes
  <2>3. log' = log \o more  BY <1>2, <1>4
  <2>4. \A k \in 1..m : more[k] = ok[k].doc  OBVIOUS
  <2> HIDE DEF T, more, m
  <2>5. more \in Seq(T) /\ Len(more) = m  BY <1>4, <2>1
  <2>6. log' \in Seq(T) /\ Len(log') = Len(log) + m
    <3> DEFINE longer == log \o more
    <3>1. longer \in Seq(T) /\ Len(longer) = Len(log) + Len(more)  BY <2>2, <2>5
    <3>2. log' = longer  BY <2>3
    <3> HIDE DEF longer
    <3> QED  BY <2>5, <3>1, <3>2
  <2>7. \A s \in 1..Len(log) : log'[s] = log[s]  BY <2>2, <2>3, <2>5
  <2>8. \A k \in 1..m : log'[Len(log) + k] = more[k]  BY <1>4, <2>2, <2>3, <2>5
  <2> QED  BY <2>4, <2>6, <2>7, <2>8 DEF headSeq, T
<1>8. ASSUME NEW s \in (headSeq + 1)..headSeq' PROVE log'[s] # Gone /\ \E k \in 1..m : s = headSeq + k
  <2>1. s - headSeq \in 1..m /\ s = headSeq + (s - headSeq)  BY <1>4, <1>6, <1>7
  <2>2. log'[s] = ok[s - headSeq].doc  BY <1>7, <2>1
  <2>3. log'[s] \in Docs  BY <1>5, <2>1, <2>2
  <2> QED  BY <2>1, <2>3, Names
<1>9. ASSUME NEW d \in Docs
      PROVE  /\ doc'[d] \in Document
             /\ \/ at(d) = {} /\ doc'[d] = doc[d]
                \/ /\ at(d) # {} /\ doc'[d].st # "none" /\ doc'[d].src # 0 /\ doc'[d].out # 0
                   /\ doc'[d].seq \in (headSeq + 1)..headSeq' /\ log'[doc'[d].seq] = d
  <2>1. doc[d] \in Document  BY DEF Corpus, CorpusTypes
  <2>2. CASE at(d) = {}
    <3>1. doc'[d] = doc[d]  BY <1>2, <2>2
    <3> QED  BY <2>1, <2>2, <3>1
  <2>3. CASE at(d) # {}
    <3> DEFINE x == Max(at(d))
    <3>1. at(d) \in SUBSET (0..m)  BY <1>4
    <3>2. x \in at(d)
      <4> HIDE DEF at
      <4> QED  BY <1>4, <2>3, <3>1, GreatestOf
    <3>3. x \in 1..m /\ ok[x].doc = d  BY <1>4, <3>2
    <3>4. doc'[d] = [doc[d] EXCEPT !.seq = headSeq + x, !.out = ok[x].src]  BY <1>2, <2>3
    <3> HIDE DEF x, at, m
    <3>5. ok[x].src \in 1..MaxSeq /\ doc[d].st # "none"  BY <1>5, <3>3
    <3>6. headSeq + x \in 0..MaxSeq /\ headSeq + x \in (headSeq + 1)..headSeq'
      <4> DEFINE h == headSeq
                 g == headSeq'
      <4>1. h \in Nat /\ m \in Nat /\ g = h + m /\ h + m <= MaxSeq /\ x \in 1..m /\ MaxSeq \in Nat
        BY <1>2, <1>4, <1>6, <1>7, <3>3
      <4> HIDE DEF h, g
      <4>2. h + x \in 0..MaxSeq /\ h + x \in (h + 1)..g  BY <4>1
      <4> QED  BY <4>2 DEF h, g
    <3>7. /\ doc'[d].seq = headSeq + x /\ doc'[d].out = ok[x].src
          /\ doc'[d].src = doc[d].src /\ doc'[d].st = doc[d].st
      BY <2>1, <3>4 DEF Document
    <3>8. doc'[d] \in Document
      <4> DEFINE s == headSeq + x
                 o == ok[x].src
                 r == doc[d]
      <4>1. r \in Document /\ s \in 0..MaxSeq /\ o \in 0..MaxSeq /\ doc'[d] = [r EXCEPT !.seq = s, !.out = o]
        BY <1>6, <2>1, <3>4, <3>5, <3>6
      <4> HIDE DEF r, s, o
      <4> QED  BY <4>1 DEF Document
    <3>9. doc[d].src # 0  BY <3>5 DEF Corpus
    <3>10. log'[headSeq + x] = d  BY <1>7, <3>3
    <3> QED  BY <1>6, <2>3, <3>5, <3>6, <3>7, <3>8, <3>9, <3>10
  <2> QED  BY <2>2, <2>3
<1>10. ASSUME NEW d \in Docs, Matches(doc'[d])
       PROVE  doc'[d] = doc[d] /\ \A i \in 1..Len(es) : es[i].doc # d
  <2>1. at(d) = {} /\ doc'[d] = doc[d]  BY <1>9, <1>10 DEF Matches
  <2>2. doc[d].st # "none"  BY <1>10, <2>1 DEF Matches
  <2>3. ASSUME NEW i \in 1..Len(es), es[i].doc = d PROVE FALSE
    <3>1. PICK k \in 1..m : ok[k] = es[i]  BY <1>1, <2>2, <2>3
    <3>2. k \in at(d)  BY <1>4, <2>3, <3>1
    <3> QED  BY <2>1, <3>2
  <2> QED  BY <2>1, <2>3
<1> HIDE DEF at, m
<1>11. Grows
  <2>1. doc' \in [Docs -> Document]
    <3>1. DOMAIN doc' = Docs /\ doc' = [d \in Docs |-> doc'[d]]  BY <1>2
    <3> QED  BY <1>9, <3>1
  <2>2. headSeq <= headSeq' /\ headSeq' <= MaxSeq
    <3> DEFINE h == headSeq
               g == headSeq'
    <3>1. h \in Nat /\ m \in Nat /\ g = h + m /\ h + m <= MaxSeq  BY <1>2, <1>4, <1>6, <1>7
    <3> HIDE DEF h, g
    <3>2. h <= g /\ g <= MaxSeq  BY <3>1
    <3> QED  BY <3>2 DEF h, g
  <2> QED  BY <1>7, <1>8, <1>9, <2>1, <2>2 DEF Grows
<1>12. ok = <<>> => headSeq' = headSeq  BY <1>3, <1>6, <1>7 DEF m
<1> QED  BY <1>10, <1>11, <1>12 DEF ok

-----------------------------------------------------------------------------
(* The loop's record.                                                      *)

\* The rows of a window, and the outcomes a loop is about to record.
Refs == [seq : Seqs, ref : Docs \cup {Noise}]
Leds == [seq : Seqs, outcome : Outcomes]

(* The fields of a loop have their types.                                  *)
LEMMA TailTypes ==
  ASSUME NEW t \in Tails
  PROVE  /\ t.cur \in 0..MaxSeq /\ t.pos \in 0..MaxSeq /\ t.after \in 0..MaxSeq /\ t.h0 \in 0..MaxSeq
         /\ t.cur \in Nat /\ t.pos \in Nat /\ t.after \in Nat /\ t.h0 \in Nat
         /\ t.win \in Seq(Refs) /\ t.todo \in Seq(Change) /\ t.staged \in Seq(Change)
         /\ t.led \in SUBSET Leds /\ t.retries \in 0..MaxRetries
BY BoundsAssumption DEF Tails, Refs, Leds

(* The fields of a change have theirs.                                     *)
LEMMA ChangeTypes ==
  ASSUME NEW c \in Change
  PROVE  /\ c.seq \in Seqs /\ c.seq \in Nat /\ c.doc \in Docs \cup {Noise}
         /\ c.src \in 0..MaxSeq /\ c.match \in BOOLEAN
BY BoundsAssumption DEF Change, Seqs

(* The first change is taken (todo.shift in the loops).                    *)
LEMMA Shifted ==
  ASSUME NEW q \in Seq(Change), q # <<>>
  PROVE  /\ Head(q) \in Change /\ Tail(q) \in Seq(Change)
         /\ \A s : In(q, s) <=> In(Tail(q), s) \/ Head(q).seq = s
         /\ \A docs, head : AllTell(q, docs, head) =>
              Tells(Head(q), docs, head) /\ AllTell(Tail(q), docs, head)
         /\ \A lo, hi : Within(q, lo, hi) =>
              Within(Tail(q), lo, hi) /\ lo < Head(q).seq /\ Head(q).seq <= hi
<1>1. Head(q) = q[1] /\ 1 \in 1..Len(q) /\ q[1] \in Change /\ Tail(q) \in Seq(Change)  OBVIOUS
<1>2. \A i \in 1..Len(Tail(q)) : Tail(q)[i] = q[i + 1] /\ i + 1 \in 1..Len(q)  OBVIOUS
<1>3. \A i \in 1..Len(q) : i = 1 \/ (i - 1 \in 1..Len(Tail(q)) /\ Tail(q)[i - 1] = q[i])  OBVIOUS
<1>4. ASSUME NEW s PROVE In(q, s) <=> In(Tail(q), s) \/ Head(q).seq = s
  <2>1. ASSUME In(q, s) PROVE In(Tail(q), s) \/ Head(q).seq = s  BY <1>1, <1>3, <2>1 DEF In
  <2>2. ASSUME In(Tail(q), s) PROVE In(q, s)  BY <1>2, <2>2 DEF In
  <2>3. ASSUME Head(q).seq = s PROVE In(q, s)  BY <1>1, <2>3 DEF In
  <2> QED  BY <2>1, <2>2, <2>3
<1>5. \A docs, head : AllTell(q, docs, head) =>
        Tells(Head(q), docs, head) /\ AllTell(Tail(q), docs, head)
  BY <1>1, <1>2 DEF AllTell
<1>6. \A lo, hi : Within(q, lo, hi) =>
        Within(Tail(q), lo, hi) /\ lo < Head(q).seq /\ Head(q).seq <= hi
  BY <1>1, <1>2 DEF Within
<1> QED  BY <1>1, <1>4, <1>5, <1>6

(* An output waits for a flush (staged.push).                              *)
LEMMA Pushed ==
  ASSUME NEW q \in Seq(Change), NEW c \in Change
  PROVE  /\ Append(q, c) \in Seq(Change)
         /\ \A s : In(Append(q, c), s) <=> In(q, s) \/ c.seq = s
         /\ \A docs, head : AllTell(q, docs, head) /\ Tells(c, docs, head) =>
              AllTell(Append(q, c), docs, head)
         /\ AllMatch(q) /\ c.match => AllMatch(Append(q, c))
         /\ \A lo, hi : Within(q, lo, hi) /\ lo < c.seq /\ c.seq <= hi => Within(Append(q, c), lo, hi)
<1> DEFINE r == Append(q, c)
<1>1. r \in Seq(Change) /\ Len(r) = Len(q) + 1 /\ Len(q) \in Nat
      /\ r[Len(q) + 1] = c /\ \A i \in 1..Len(q) : r[i] = q[i]  OBVIOUS
<1> HIDE DEF r
<1>2. \A i \in 1..Len(r) : (i \in 1..Len(q) /\ r[i] = q[i]) \/ (i = Len(q) + 1 /\ r[i] = c)
  BY <1>1
<1>3. Len(q) + 1 \in 1..Len(r) /\ \A i \in 1..Len(q) : i \in 1..Len(r)  BY <1>1
<1>4. ASSUME NEW s PROVE In(r, s) <=> In(q, s) \/ c.seq = s
  <2>1. ASSUME In(r, s) PROVE In(q, s) \/ c.seq = s  BY <1>2, <2>1 DEF In
  <2>2. ASSUME In(q, s) PROVE In(r, s)  BY <1>1, <1>3, <2>2 DEF In
  <2>3. ASSUME c.seq = s PROVE In(r, s)  BY <1>1, <1>3, <2>3 DEF In
  <2> QED  BY <2>1, <2>2, <2>3
<1>5. \A docs, head : AllTell(q, docs, head) /\ Tells(c, docs, head) => AllTell(r, docs, head)
  BY <1>2 DEF AllTell
<1>6. AllMatch(q) /\ c.match => AllMatch(r)  BY <1>2 DEF AllMatch
<1>7. \A lo, hi : Within(q, lo, hi) /\ lo < c.seq /\ c.seq <= hi => Within(r, lo, hi)
  BY <1>2 DEF Within
<1> QED  BY <1>1, <1>4, <1>5, <1>6, <1>7 DEF r

\* All but where the loop is.
Same(t, u) == /\ u.cur = t.cur /\ u.win = t.win /\ u.todo = t.todo /\ u.staged = t.staged
              /\ u.led = t.led /\ u.pos = t.pos /\ u.after = t.after /\ u.h0 = t.h0

(* The next change, or a flush (the conditions of a flush).                *)
LEMMA NextIs ==
  ASSUME NEW t \in Tails, NEW w, NEW f,
         {w, f} \subseteq {"seedWork", "seedFlush", "work", "flush"}
  PROVE  /\ Next1(t, w, f) \in Tails /\ Same(t, Next1(t, w, f))
         /\ Next1(t, w, f).pc \in {w, f}
         /\ Next1(t, w, f).pc = w /\ w # f => t.todo # <<>> /\ ~Bounded(t)
         /\ Next1(t, w, f).pc = f /\ w # f => Bounded(Next1(t, w, f)) \/ t.todo = <<>>
<1> DEFINE p == IF Bounded(t) \/ t.todo = <<>> THEN f ELSE w
<1>1. /\ p \in {w, f} /\ (p = w /\ w # f => t.todo # <<>> /\ ~Bounded(t))
      /\ (p = f /\ w # f => Bounded(t) \/ t.todo = <<>>)
  OBVIOUS
<1>2. Next1(t, w, f) = [t EXCEPT !.pc = p]  BY DEF Next1
<1> HIDE DEF p
<1>3. p \in {"seedWork", "seedFlush", "work", "flush"}  BY <1>1
<1>4. [t EXCEPT !.pc = p] \in Tails /\ Same(t, [t EXCEPT !.pc = p]) /\ [t EXCEPT !.pc = p].pc = p
  BY <1>3 DEF Tails, Same
<1>5. Bounded(t) => Bounded([t EXCEPT !.pc = p])  BY <1>4 DEF Bounded, Same
<1> QED  BY <1>1, <1>2, <1>4, <1>5

(* After a flush another one follows only once nothing is left to work.    *)
LEMMA NextOfNone ==
  ASSUME NEW t \in Tails, t.staged = <<>>, NEW w, NEW f, w # f,
         {w, f} \subseteq {"seedWork", "seedFlush", "work", "flush"}
  PROVE  /\ Next1(t, w, f) \in Tails /\ Same(t, Next1(t, w, f))
         /\ Next1(t, w, f).pc \in {w, f}
         /\ Next1(t, w, f).pc = w => t.todo # <<>>
         /\ Next1(t, w, f).pc = f => t.todo = <<>>
<1>1. ~Bounded(t)  BY BoundsAssumption DEF Bounded
<1>2. ~Bounded(Next1(t, w, f))
  <2>1. Same(t, Next1(t, w, f))  BY NextIs
  <2> QED  BY <1>1, <2>1 DEF Bounded, Same
<1> QED  BY <1>2, NextIs

(* A loop that is off is a loop.                                           *)
LEMMA OffTypes == TailOff \in Tails
<1> DEFINE R == [seq : Seqs, ref : Docs \cup {Noise}]
           L == [seq : Seqs, outcome : Outcomes]
           N == 0..MaxSeq
           B == 0..MaxRetries
<1>1. <<>> \in Seq(R) /\ <<>> \in Seq(Change) /\ {} \in SUBSET L /\ 0 \in N /\ 0 \in B
  BY BoundsAssumption
<1>2. Tails = [pc : {"off", "dead", "backoff", "seedCheck", "seedHead", "seedBegin",
                "seedPage", "seedWork", "seedBusy", "seedFlush", "seedCommit",
                "seedEnd", "feedRows", "feedEmpty", "feedWait", "feedDocs",
                "work", "busy", "flush", "commit"}, cur : N, win : Seq(R), todo : Seq(Change), staged : Seq(Change),
               led : SUBSET L, pos : N, after : N, h0 : N, woke : BOOLEAN, retries : B]
  BY DEF Tails
<1> HIDE DEF R, L, N, B
<1> QED  BY <1>1, <1>2 DEF TailOff

\* The state of the loop and of what it has read.
TailInv == TailShape /\ TailReads

(* The loop stops, waits to retry, or is not started (attach).             *)
LEMMA Rests ==
  ASSUME tail' \in Tails, Clean(tail'), tail'.pc \in {"off", "dead", "backoff", "seedCheck"}
  PROVE  TailInv'
<1>1. TailShape'
  BY DEF TailShape, Seeds, SeedPages, Feeds, Batches, Clean
<1>2. TailReads'
  BY DEF TailReads, Clean, AllTell, AllMatch, RefsTell
<1> QED  BY <1>1, <1>2 DEF TailInv

(* A change of the batch is worked.                                        *)
LEMMA Popped ==
  ASSUME Corpus, tail \in Tails, tail.todo # <<>>, TailReads, UNCHANGED <<doc, log>>,
         tail'.todo = Tail(tail.todo), tail'.win = tail.win,
         \/ tail'.staged = tail.staged
         \/ tail'.staged = Append(tail.staged, Head(tail.todo)) /\ Head(tail.todo).match,
         \A e \in tail'.led :
           \/ e \in tail.led
           \/ /\ e.seq = Head(tail.todo).seq /\ e.outcome # "skip"
              /\ e.outcome = "done" => tail'.staged = Append(tail.staged, Head(tail.todo))
  PROVE  TailReads' /\ \A s : In(tail.staged, s) => In(tail'.staged, s)
<1> DEFINE c == Head(tail.todo)
           q == tail.staged
<1>1. q \in Seq(Change) /\ tail.todo \in Seq(Change)  BY TailTypes
<1>2. c \in Change /\ Tells(c, doc, headSeq) /\ AllTell(Tail(tail.todo), doc, headSeq)
  BY <1>1, Shifted DEF TailReads
<1>3. AllTell(q, doc, headSeq) /\ AllMatch(q)  BY DEF TailReads
<1> HIDE DEF c
<1>4. /\ \A s : In(Append(q, c), s) <=> In(q, s) \/ c.seq = s
      /\ AllTell(Append(q, c), doc, headSeq) /\ (c.match => AllMatch(Append(q, c)))
  BY <1>1, <1>2, <1>3, Pushed
<1>5. AllTell(tail'.staged, doc, headSeq) /\ AllMatch(tail'.staged)
      /\ \A s : In(q, s) => In(tail'.staged, s)
  BY <1>3, <1>4 DEF c
<1>6. ASSUME NEW e \in tail'.led
      PROVE  /\ e.seq <= headSeq /\ e.outcome # "skip"
             /\ e.outcome = "done" => In(tail'.staged, e.seq)
  <2>1. CASE e \in tail.led  BY <1>5, <2>1 DEF TailReads
  <2>2. CASE /\ e.seq = c.seq /\ e.outcome # "skip"
             /\ e.outcome = "done" => tail'.staged = Append(q, c)
    BY <1>2, <1>4, <2>2 DEF Tells
  <2> QED  BY <2>1, <2>2 DEF c
<1>7. headSeq' = headSeq  BY DEF headSeq
<1> QED  BY <1>2, <1>5, <1>6, <1>7 DEF TailReads

-----------------------------------------------------------------------------
(* The steps of the loop: where it is and what it has read.                *)

(* A loop that has ended holds nothing.                                    *)
LEMMA Settles ==
  ASSUME tail' = TailOff
  PROVE  TailInv' /\ tail'.pc = "off" /\ Clean(tail')
<1>1. tail' \in Tails /\ tail'.pc = "off" /\ Clean(tail')  BY OffTypes DEF TailOff, Clean
<1> QED  BY <1>1, Rests

(* A failure ends the loop or has it wait (the catch of attach).           *)
LEMMA Catches ==
  ASSUME tail \in Tails, Caught
  PROVE  /\ TailInv' /\ tail'.pc \in {"off", "dead", "backoff"} /\ Clean(tail')
         /\ \/ aborted /\ Settle
            \/ ~aborted /\ KeepRun /\ tail'.pc # "off"
<1>1. CASE aborted /\ Settle
  BY <1>1, Settles DEF Settle
<1>2. CASE /\ ~aborted /\ tail.retries < MaxRetries
           /\ tail' = [TailOff EXCEPT !.pc = "backoff", !.retries = tail.retries + 1]
           /\ KeepRun
  <2> DEFINE n == tail.retries + 1
  <2>1. n \in 0..MaxRetries  BY <1>2, TailTypes, BoundsAssumption
  <2>2. tail' = [TailOff EXCEPT !.pc = "backoff", !.retries = n]  BY <1>2
  <2> HIDE DEF n
  <2>3. tail' \in Tails  BY <2>1, <2>2, OffTypes DEF Tails
  <2>4. tail'.pc = "backoff" /\ Clean(tail')  BY <2>2 DEF TailOff, Clean
  <2> QED  BY <1>2, <2>3, <2>4, Rests
<1>3. CASE ~aborted /\ tail' = [TailOff EXCEPT !.pc = "dead"] /\ KeepRun
  <2>1. tail' \in Tails  BY <1>3, OffTypes DEF Tails
  <2>2. tail'.pc = "dead" /\ Clean(tail')  BY <1>3 DEF TailOff, Clean
  <2> QED  BY <1>3, <2>1, <2>2, Rests
<1> QED  BY <1>1, <1>2, <1>3 DEF Caught

(* Nothing was read yet (seedConsumer's first two calls, a feed that found *)
(* nothing, a backoff that is over, an admission).                         *)
LEMMA GoesOn ==
  ASSUME Inv, Backoff \/ SeedCheck \/ SeedHead \/ FeedEmpty \/ FeedWake \/ Admit
  PROVE  TailInv'
<1>0. headSeq' = headSeq /\ UNCHANGED durable /\ tail \in Tails
  BY DEF Backoff, SeedCheck, SeedHead, FeedEmpty, FeedWake, Admit, durable, headSeq, Inv,
         TailShape
<1>r. row \in 0..MaxSeq \cup {None} /\ seedRow \in 0..MaxSeq \cup {None} /\ headSeq \in 0..MaxSeq
      /\ (row # None => row <= headSeq)
  BY HeadNat, BoundsAssumption DEF Inv, Marks, Corpus, CorpusTypes
<1>1. CASE Backoff
  <2>1. /\ tail.pc = "backoff" /\ Clean(tail) /\ tail' = [tail EXCEPT !.pc = "seedCheck"]
    BY <1>1 DEF Backoff, At, Goto, Inv, TailShape, Resting
  <2>2. tail' \in Tails /\ Same(tail, tail') /\ tail'.pc = "seedCheck"
    BY <1>0, <2>1 DEF Tails, Same
  <2>3. Clean(tail')  BY <2>1, <2>2 DEF Clean, Same
  <2> QED  BY <2>2, <2>3, Rests
<1>2. CASE SeedCheck
  <2>1. tail.pc = "seedCheck" /\ Clean(tail)
    BY <1>2 DEF SeedCheck, At, Inv, TailShape, Resting
  <2>2. \/ row # None /\ row >= floor /\ tail' = [tail EXCEPT !.pc = "feedRows", !.cur = row]
        \/ /\ row # None /\ row >= floor /\ seedRow # None
           /\ tail' = [tail EXCEPT !.pc = "seedPage", !.after = seedRow, !.h0 = row]
        \/ tail' = [tail EXCEPT !.pc = "seedHead"]
    BY <1>2 DEF SeedCheck, Feedable
  <2>3. CASE row # None /\ tail' = [tail EXCEPT !.pc = "feedRows", !.cur = row]
    <3>1. row \in 0..MaxSeq  BY <1>r, <2>3
    <3>2. tail' \in Tails /\ tail'.pc = "feedRows" /\ tail'.cur = row /\ Clean(tail')
      BY <1>0, <2>1, <2>3, <3>1 DEF Tails, Clean
    <3>3. TailShape'
      BY <1>0, <1>r, <2>3, <3>1, <3>2 DEF TailShape, Seeds, SeedPages, Feeds, Batches, Clean, Within, durable
    <3>4. TailReads'
      BY <3>2 DEF TailReads, Clean, AllTell, AllMatch, RefsTell
    <3> QED  BY <3>3, <3>4 DEF TailInv
  <2>4. CASE row # None /\ seedRow # None
             /\ tail' = [tail EXCEPT !.pc = "seedPage", !.after = seedRow, !.h0 = row]
    <3>1. row \in 0..MaxSeq /\ seedRow \in 0..MaxSeq  BY <1>r, <2>4
    <3>2. tail' \in Tails /\ tail'.pc = "seedPage" /\ tail'.after = seedRow /\ tail'.h0 = row
          /\ Clean(tail')
      BY <1>0, <2>1, <2>4, <3>1 DEF Tails, Clean
    <3>3. TailShape'
      BY <1>0, <1>r, <2>4, <3>1, <3>2 DEF TailShape, Seeds, SeedPages, Feeds, Batches, Clean, durable
    <3>4. TailReads'
      BY <3>2 DEF TailReads, Clean, AllTell, AllMatch, RefsTell
    <3> QED  BY <3>3, <3>4 DEF TailInv
  <2>5. CASE tail' = [tail EXCEPT !.pc = "seedHead"]
    <3>1. tail' \in Tails /\ tail'.pc = "seedHead" /\ Clean(tail')
      BY <1>0, <2>1, <2>5 DEF Tails, Clean
    <3>2. TailShape'  BY <3>1 DEF TailShape, Seeds, SeedPages, Feeds, Batches
    <3>3. TailReads'
      BY <3>1 DEF TailReads, Clean, AllTell, AllMatch, RefsTell
    <3> QED  BY <3>2, <3>3 DEF TailInv
  <2> QED  BY <2>2, <2>3, <2>4, <2>5
<1>3. CASE SeedHead
  <2>1. /\ tail.pc = "seedHead" /\ Clean(tail)
        /\ tail' = [tail EXCEPT !.pc = "seedBegin", !.h0 = headSeq]
    BY <1>3 DEF SeedHead, At, Inv, TailShape, Resting
  <2>2. tail' \in Tails /\ tail'.pc = "seedBegin" /\ tail'.h0 = headSeq /\ Clean(tail')
    BY <1>0, <1>r, <2>1 DEF Tails, Clean
  <2>3. TailShape'
    BY <1>0, <1>r, <2>2 DEF TailShape, Seeds, SeedPages, Feeds, Batches, durable
  <2>4. TailReads'
    BY <2>2 DEF TailReads, Clean, AllTell, AllMatch, RefsTell
  <2> QED  BY <2>3, <2>4 DEF TailInv
<1>4. CASE FeedEmpty \/ FeedWake
  <2>1. \/ tail.pc = "feedEmpty" /\ tail' = [tail EXCEPT !.pc = "feedWait"]
        \/ tail.pc = "feedWait" /\ tail' = [tail EXCEPT !.pc = "feedRows", !.woke = FALSE]
    BY <1>4 DEF FeedEmpty, FeedWake, At, Goto
  <2>2. tail' \in Tails /\ Same(tail, tail') /\ tail'.pc \in {"feedRows", "feedWait"}
    BY <1>0, <2>1 DEF Tails, Same
  <2>3. TailShape'
    BY <1>0, <2>1, <2>2 DEF Inv, TailShape, Seeds, SeedPages, Feeds, Batches, Same, Clean, durable
  <2>4. TailReads'  BY <1>0, <2>2 DEF Inv, TailReads, Same, durable
  <2> QED  BY <2>3, <2>4 DEF TailInv
<1>5. CASE Admit
  <2>1. \/ tail.pc = "seedFlush" /\ tail' = [tail EXCEPT !.pc = "seedCommit"]
        \/ tail.pc = "flush" /\ tail' = [tail EXCEPT !.pc = "commit"]
    BY <1>5 DEF Admit, At, Goto
  <2>2. tail' \in Tails /\ Same(tail, tail')  BY <1>0, <2>1 DEF Tails, Same
  <2>3. \/ tail.pc = "seedFlush" /\ tail'.pc = "seedCommit"
        \/ tail.pc = "flush" /\ tail'.pc = "commit"
    BY <1>0, <2>1 DEF Tails
  <2>4. TailShape'
    BY <1>0, <2>2, <2>3
       DEF Inv, TailShape, Resting, Seeds, SeedPages, Feeds, Batches, Same, Clean, Bounded, durable
  <2>5. TailReads'  BY <1>0, <2>2 DEF Inv, TailReads, Same, durable
  <2> QED  BY <2>4, <2>5 DEF TailInv
<1> QED  BY <1>1, <1>2, <1>3, <1>4, <1>5

(* A document is read under its own number (materializeRow).               *)
LEMMA DocRead ==
  ASSUME Corpus, NEW d \in Docs, doc[d].st # "none"
  PROVE  /\ DocChange(doc[d].seq, d) \in Change /\ Tells(DocChange(doc[d].seq, d), doc, headSeq)
         /\ DocChange(doc[d].seq, d).seq = doc[d].seq
<1> DEFINE s == doc[d].seq
<1>1. /\ doc[d] \in Document /\ s \in 1..headSeq /\ doc[d].src # 0 /\ headSeq \in Nat /\ headSeq <= MaxSeq
      /\ \A e \in Docs : Carries(e, s, doc) => d = e
  BY HeadNat DEF Corpus, CorpusTypes
<1>2. doc[d].src \in 0..MaxSeq /\ s \in Seqs  BY <1>1, BoundsAssumption DEF Document, Seqs
<1>3. Matches(doc[d]) \in BOOLEAN  BY DEF Matches
<1> HIDE DEF s
<1>4. DocChange(s, d) \in Change /\ DocChange(s, d).seq = s /\ DocChange(s, d).doc = d
      /\ DocChange(s, d).match = Matches(doc[d]) /\ DocChange(s, d).src = doc[d].src
  BY <1>2, <1>3 DEF DocChange, Change
<1>5. s <= headSeq  BY <1>1
<1>6. Tells(DocChange(s, d), doc, headSeq)
  BY <1>1, <1>4, <1>5 DEF Tells
<1> QED  BY <1>4, <1>6 DEF s

(* A page of the seed (seedPage).                                          *)
LEMMA PageRead ==
  ASSUME Corpus, tail \in Tails, SeedDocs # {}
  PROVE  /\ SeedPageOf \in Seq(Change) /\ SeedPageOf # <<>>
         /\ AllTell(SeedPageOf, doc, headSeq)
         /\ Last(SeedPageOf).seq \in 0..MaxSeq /\ Last(SeedPageOf).seq <= tail.h0
         /\ Within(SeedPageOf, tail.after, Last(SeedPageOf).seq)
         /\ \A d \in SeedDocs : doc[d].seq <= Last(SeedPageOf).seq => In(SeedPageOf, doc[d].seq)
<1> DEFINE S == {doc[d].seq : d \in SeedDocs}
           page == FirstOf(S, SeedPage)
           of(s) == CHOOSE d \in SeedDocs : doc[d].seq = s
           n == Len(page)
           q == SeedPageOf
<1>1. q = [i \in DOMAIN page |-> DocChange(page[i], of(page[i]))]  BY DEF SeedPageOf
<1>2. \A d \in SeedDocs : /\ d \in Docs /\ doc[d].st # "none" /\ doc[d].seq \in 1..headSeq
                          /\ tail.after < doc[d].seq /\ doc[d].seq <= tail.h0
  BY DEF SeedDocs, Corpus
<1>3. S \in SUBSET Nat /\ IsFiniteSet(S) /\ S # {}
  <2>1. S \in SUBSET (1..headSeq) /\ S # {}  BY <1>2
  <2>2. IsFiniteSet(1..headSeq) /\ headSeq \in Nat  BY HeadNat, FS_Interval
  <2> HIDE DEF S
  <2>3. IsFiniteSet(S)  BY <2>1, <2>2, FS_Subset
  <2>4. S \in SUBSET Nat  BY <2>1, <2>2
  <2> QED  BY <2>1, <2>3, <2>4
<1>4. \A s \in S : of(s) \in SeedDocs /\ doc[of(s)].seq = s /\ tail.after < s /\ s <= tail.h0
  BY <1>2
<1>5. \A d \in SeedDocs : doc[d].seq \in S  OBVIOUS
<1>6. SeedPage \in Nat \ {0}  BY BoundsAssumption
<1> HIDE DEF S, of, q
<1>7. /\ page \in Seq(S) /\ page # <<>> /\ Last(page) \in S
      /\ \A i \in 1..n : page[i] <= Last(page)
      /\ \A s \in S : s <= Last(page) => \E i \in 1..n : page[i] = s
  BY <1>3, <1>6, Paged
<1> HIDE DEF page
<1>8. n \in Nat /\ n # 0 /\ DOMAIN page = 1..n /\ \A i \in 1..n : page[i] \in S  BY <1>7
<1>9. Last(page) = page[n]  BY DEF Last
<1>10. \A i \in 1..n : /\ q[i] = DocChange(page[i], of(page[i]))
                       /\ q[i] \in Change /\ Tells(q[i], doc, headSeq) /\ q[i].seq = page[i]
  <2> SUFFICES ASSUME NEW i \in 1..n
               PROVE  /\ q[i] = DocChange(page[i], of(page[i]))
                      /\ q[i] \in Change /\ Tells(q[i], doc, headSeq) /\ q[i].seq = page[i]
    OBVIOUS
  <2>1. q[i] = DocChange(page[i], of(page[i]))  BY <1>1, <1>8
  <2>2. page[i] \in S  BY <1>8
  <2>3. of(page[i]) \in Docs /\ doc[of(page[i])].st # "none" /\ doc[of(page[i])].seq = page[i]
    BY <1>2, <1>4, <2>2
  <2> DEFINE d == of(page[i])
  <2>4. d \in Docs /\ doc[d].st # "none" /\ doc[d].seq = page[i]  BY <2>3
  <2> HIDE DEF d
  <2>5. /\ DocChange(doc[d].seq, d) \in Change /\ Tells(DocChange(doc[d].seq, d), doc, headSeq)
        /\ DocChange(doc[d].seq, d).seq = doc[d].seq
    BY <2>4, DocRead
  <2> QED  BY <2>1, <2>4, <2>5 DEF d
<1> HIDE DEF n
<1>11. q \in Seq(Change) /\ Len(q) = n
  <2>1. q \in [1..n -> Change]  BY <1>1, <1>8, <1>10
  <2> QED  BY <1>8, <2>1
<1>12. Last(q) = q[n] /\ n \in 1..n  BY <1>8, <1>11 DEF Last
<1>13. Last(q).seq = Last(page)  BY <1>9, <1>10, <1>12
<1>14. Last(page) <= tail.h0 /\ Last(page) \in 0..MaxSeq
  <2>1. Last(page) <= tail.h0 /\ Last(page) \in Nat  BY <1>3, <1>4, <1>7
  <2>2. tail.h0 \in 0..MaxSeq /\ MaxSeq \in Nat  BY TailTypes, BoundsAssumption
  <2> QED  BY <2>1, <2>2
<1>15. Within(q, tail.after, Last(q).seq)
  <2> SUFFICES ASSUME NEW i \in 1..n
               PROVE  tail.after < q[i].seq /\ q[i].seq <= Last(page)
    BY <1>11, <1>13 DEF Within
  <2>1. page[i] \in S /\ page[i] <= Last(page)  BY <1>7, <1>8 DEF n
  <2> QED  BY <1>4, <1>10, <2>1
<1>16. ASSUME NEW d \in SeedDocs, doc[d].seq <= Last(q).seq PROVE In(q, doc[d].seq)
  <2>1. PICK i \in 1..n : page[i] = doc[d].seq  BY <1>5, <1>7, <1>13, <1>16 DEF n
  <2> QED  BY <1>10, <1>11, <2>1 DEF In
<1>17. AllTell(q, doc, headSeq)  BY <1>10, <1>11 DEF AllTell
<1>18. q # <<>>  BY <1>8, <1>11
<1> QED  BY <1>11, <1>13, <1>14, <1>15, <1>16, <1>17, <1>18 DEF q

(* The rows of a window of the log (feed).                                 *)
LEMMA WindowRead ==
  ASSUME Corpus, tail \in Tails
  PROVE  /\ Window \in Seq(1..headSeq)
         /\ \A i \in 1..Len(Window) : log[Window[i]] # Gone /\ tail.cur < Window[i]
         /\ Window # <<>> => /\ Last(Window) \in 1..headSeq /\ tail.cur < Last(Window)
                             /\ \A i \in 1..Len(Window) : Window[i] <= Last(Window)
         /\ \A s \in 1..headSeq : s > tail.cur /\ log[s] # Gone =>
              Window # <<>> /\ (s <= Last(Window) => \E i \in 1..Len(Window) : Window[i] = s)
<1> DEFINE S == {s \in DOMAIN log : s > tail.cur /\ log[s] # Gone}
<1>1. Window = FirstOf(S, FeedBatch)  BY DEF Window
<1>2. DOMAIN log = 1..headSeq /\ headSeq \in Nat  BY HeadNat DEF Corpus, CorpusTypes, headSeq
<1>3. S \in SUBSET (1..headSeq)  BY <1>2
<1>4. \A s \in S : log[s] # Gone /\ tail.cur < s
  <2>1. tail.cur \in Nat  BY TailTypes
  <2> QED  BY <1>2, <2>1
<1>5. \A s \in 1..headSeq : s > tail.cur /\ log[s] # Gone => s \in S  BY <1>2
<1> HIDE DEF S
<1>6. IsFiniteSet(S) /\ S \in SUBSET Nat
  <2>1. IsFiniteSet(1..headSeq)  BY <1>2, FS_Interval
  <2>2. IsFiniteSet(S)  BY <1>3, <2>1, FS_Subset
  <2> QED  BY <1>2, <1>3, <2>2
<1>7. FeedBatch \in Nat \ {0}  BY BoundsAssumption
<1> DEFINE w == FirstOf(S, FeedBatch)
<1>8. /\ w \in Seq(S)
      /\ S # {} => /\ w # <<>> /\ Last(w) \in S /\ \A i \in 1..Len(w) : w[i] <= Last(w)
      /\ S = {} => w = <<>>
      /\ \A s \in S : s <= Last(w) => \E i \in 1..Len(w) : w[i] = s
  BY <1>6, <1>7, Paged
<1> HIDE DEF w
<1>9. \A i \in 1..Len(w) : w[i] \in S  BY <1>8
<1>10. w \in Seq(1..headSeq)
  <2> DEFINE H == 1..headSeq
  <2>1. S \in SUBSET H  BY <1>3
  <2> HIDE DEF H
  <2>2. DOMAIN w = 1..Len(w) /\ Len(w) \in Nat /\ \A i \in 1..Len(w) : w[i] \in H
    BY <1>8, <1>9, <2>1
  <2>3. w \in [1..Len(w) -> H]  BY <1>8, <2>2
  <2>4. w \in Seq(H)  BY <2>2, <2>3
  <2> QED  BY <2>4 DEF H
<1>11. \A i \in 1..Len(w) : log[w[i]] # Gone /\ tail.cur < w[i]  BY <1>4, <1>9
<1>12. w # <<>> => /\ Last(w) \in 1..headSeq /\ tail.cur < Last(w)
                   /\ \A i \in 1..Len(w) : w[i] <= Last(w)
  BY <1>3, <1>4, <1>8
<1>13. \A s \in 1..headSeq : s > tail.cur /\ log[s] # Gone =>
         w # <<>> /\ (s <= Last(w) => \E i \in 1..Len(w) : w[i] = s)
  BY <1>5, <1>8
<1> QED  BY <1>1, <1>10, <1>11, <1>12, <1>13 DEF w

(* A page of the seed is read, or the seed has reached its end.            *)
LEMMA SeedPageStep ==
  ASSUME Inv, ReadSeedPage
  PROVE  TailInv'
<1>1. /\ tail.pc = "seedPage" /\ Clean(tail) /\ tail \in Tails /\ tail.win = <<>>
      /\ row # None /\ row = tail.h0 /\ seedRow = tail.after
  BY DEF ReadSeedPage, At, Inv, TailShape, Seeds
<1>2. UNCHANGED durable /\ headSeq' = headSeq  BY DEF ReadSeedPage, durable, headSeq
<1>3. CASE SeedDocs = {} /\ tail' = [tail EXCEPT !.pc = "seedEnd"]
  <2>1. tail' \in Tails /\ Same(tail, tail') /\ tail'.pc = "seedEnd"  BY <1>1, <1>3 DEF Tails, Same
  <2>2. Clean(tail')  BY <1>1, <2>1 DEF Clean, Same
  <2>3. TailShape'
    BY <1>1, <1>2, <2>1, <2>2 DEF TailShape, Resting, Seeds, SeedPages, Feeds, Batches, Same, durable
  <2>4. TailReads'  BY <2>2 DEF TailReads, Clean, AllTell, AllMatch, RefsTell
  <2> QED  BY <2>3, <2>4 DEF TailInv
<1>4. CASE /\ SeedDocs # {}
           /\ tail' = [tail EXCEPT !.pc = "seedWork", !.todo = SeedPageOf, !.pos = Last(SeedPageOf).seq]
  <2> DEFINE q == SeedPageOf
             p == Last(SeedPageOf).seq
  <2>1. /\ q \in Seq(Change) /\ q # <<>> /\ AllTell(q, doc, headSeq)
        /\ p \in 0..MaxSeq /\ p <= tail.h0 /\ Within(q, tail.after, p)
    BY <1>1, <1>4, PageRead DEF Inv
  <2>2. tail' = [tail EXCEPT !.pc = "seedWork", !.todo = q, !.pos = p]  BY <1>4
  <2> HIDE DEF q, p
  <2>3. tail' \in Tails  BY <1>1, <2>1, <2>2 DEF Tails
  <2>4. /\ tail'.pc = "seedWork" /\ tail'.todo = q /\ tail'.pos = p /\ tail'.after = tail.after
        /\ tail'.h0 = tail.h0 /\ tail'.win = <<>> /\ tail'.staged = <<>> /\ tail'.led = {}
    BY <1>1, <2>2 DEF Tails, Clean
  <2>5. TailShape'
    BY <1>1, <1>2, <2>1, <2>3, <2>4 DEF TailShape, Resting, Seeds, SeedPages, Feeds, Batches, durable
  <2>6. TailReads'
    BY <1>2, <2>1, <2>4 DEF TailReads, AllTell, AllMatch, RefsTell, durable
  <2> QED  BY <2>5, <2>6 DEF TailInv
<1> QED  BY <1>3, <1>4 DEF ReadSeedPage

(* A change is taken out of the batch, with its output where there is one. *)
LEMMA WorkedIs ==
  ASSUME NEW t \in Tails, t.todo # <<>>, NEW r
  PROVE  LET u == Worked(t, r) IN
         /\ u \in Tails /\ u.pc = t.pc /\ u.todo = Tail(t.todo)
         /\ u.staged = IF r = "done" THEN Append(t.staged, Head(t.todo)) ELSE t.staged
         /\ u.cur = t.cur /\ u.win = t.win /\ u.led = t.led /\ u.pos = t.pos
         /\ u.after = t.after /\ u.h0 = t.h0
<1> DEFINE s == IF r = "done" THEN Append(t.staged, Head(t.todo)) ELSE t.staged
           q == Tail(t.todo)
<1>1. t.todo \in Seq(Change) /\ t.staged \in Seq(Change)  BY TailTypes
<1>2. Head(t.todo) \in Change /\ q \in Seq(Change)  BY <1>1
<1>3. s \in Seq(Change)  BY <1>1, <1>2
<1>4. Worked(t, r) = [t EXCEPT !.todo = q, !.staged = s]  BY DEF Worked
<1> HIDE DEF q, s
<1>5. [t EXCEPT !.todo = q, !.staged = s] \in Tails  BY <1>2, <1>3 DEF Tails
<1>6. LET u == [t EXCEPT !.todo = q, !.staged = s] IN
      /\ u.pc = t.pc /\ u.todo = q /\ u.staged = s
      /\ u.cur = t.cur /\ u.win = t.win /\ u.led = t.led /\ u.pos = t.pos
      /\ u.after = t.after /\ u.h0 = t.h0
  BY DEF Tails
<1> QED  BY <1>4, <1>5, <1>6 DEF q, s

(* After a document of the seed: the next one, or the flush.               *)
LEMMA SeedNext ==
  ASSUME NEW t \in Tails
  PROVE  LET u == Next1(t, "seedWork", "seedFlush") IN
         /\ u \in Tails /\ Same(t, u) /\ u.pc \in {"seedWork", "seedFlush"}
         /\ u.pc = "seedWork" => t.todo # <<>>
         /\ u.pc = "seedFlush" => Bounded(u) \/ t.todo = <<>>
<1> DEFINE w == "seedWork"
           f == "seedFlush"
<1>1. {w, f} \subseteq {"seedWork", "seedFlush", "work", "flush"} /\ w # f  OBVIOUS
<1> HIDE DEF w, f
<1>2. LET u == Next1(t, w, f) IN
      /\ u \in Tails /\ Same(t, u) /\ u.pc \in {w, f} /\ (u.pc = w => t.todo # <<>>)
      /\ u.pc = f => Bounded(u) \/ t.todo = <<>>
  BY <1>1, NextIs
<1> QED  BY <1>2 DEF w, f

(* After a change of the feed: the next one, or the flush.                 *)
LEMMA FeedNext ==
  ASSUME NEW t \in Tails
  PROVE  LET u == Next1(t, "work", "flush") IN
         /\ u \in Tails /\ Same(t, u) /\ u.pc \in {"work", "flush"}
         /\ u.pc = "work" => t.todo # <<>>
         /\ u.pc = "flush" => Bounded(u) \/ t.todo = <<>>
<1> DEFINE w == "work"
           f == "flush"
<1>1. {w, f} \subseteq {"seedWork", "seedFlush", "work", "flush"} /\ w # f  OBVIOUS
<1> HIDE DEF w, f
<1>2. LET u == Next1(t, w, f) IN
      /\ u \in Tails /\ Same(t, u) /\ u.pc \in {w, f} /\ (u.pc = w => t.todo # <<>>)
      /\ u.pc = f => Bounded(u) \/ t.todo = <<>>
  BY <1>1, NextIs
<1> QED  BY <1>2 DEF w, f

(* One document of the page (workOne).                                     *)
LEMMA SeedWorkStep ==
  ASSUME Inv, SeedWork
  PROVE  TailInv'
<1>1. /\ tail.pc = "seedWork" /\ tail \in Tails /\ tail.todo # <<>> /\ tail.win = <<>>
      /\ row # None /\ row = tail.h0 /\ seedRow = tail.after
      /\ tail.pos <= tail.h0 /\ Within(tail.todo, tail.after, tail.pos) /\ TailReads /\ Corpus
  BY DEF SeedWork, At, Inv, TailShape, Seeds, SeedPages
<1>2. UNCHANGED durable /\ headSeq' = headSeq  BY DEF SeedWork, durable, headSeq
<1>3. CASE /\ ~Head(tail.todo).match
           /\ tail' = Next1([tail EXCEPT !.todo = Tail(tail.todo)], "seedWork", "seedFlush")
  <2> DEFINE q == Tail(tail.todo)
             t == [tail EXCEPT !.todo = q]
  <2>1. q \in Seq(Change) /\ Within(q, tail.after, tail.pos)
    BY <1>1, TailTypes, Shifted
  <2>2. tail' = Next1(t, "seedWork", "seedFlush")  BY <1>3
  <2>3. t \in Tails /\ t.todo = q /\ t.staged = tail.staged /\ t.win = tail.win /\ t.led = tail.led
        /\ t.pos = tail.pos /\ t.after = tail.after /\ t.h0 = tail.h0
    <3> HIDE DEF q
    <3> QED  BY <1>1, <2>1 DEF Tails
  <2> HIDE DEF t
  <2>4. tail' \in Tails /\ Same(t, tail') /\ tail'.pc \in {"seedWork", "seedFlush"}
        /\ (tail'.pc = "seedWork" => t.todo # <<>>)
        /\ (tail'.pc = "seedFlush" => Bounded(tail') \/ t.todo = <<>>)
    BY <2>2, <2>3, SeedNext
  <2>5. TailReads'
    BY <1>1, <1>2, <2>3, <2>4, Popped DEF Same, durable
  <2> HIDE DEF q
  <2>6. TailShape'
    BY <1>1, <1>2, <2>1, <2>3, <2>4 DEF TailShape, Resting, Seeds, SeedPages, Feeds, Batches, Same, durable
  <2> QED  BY <2>5, <2>6 DEF TailInv
<1>4. CASE Head(tail.todo).match /\ tail' = [tail EXCEPT !.pc = "seedBusy"]
  <2>1. tail' \in Tails /\ Same(tail, tail') /\ tail'.pc = "seedBusy"  BY <1>1, <1>4 DEF Tails, Same
  <2>2. TailShape'
    BY <1>1, <1>2, <1>4, <2>1 DEF TailShape, Resting, Seeds, SeedPages, Feeds, Batches, Same, durable
  <2>3. TailReads'  BY <1>1, <1>2, <2>1 DEF TailReads, Same, durable
  <2> QED  BY <2>2, <2>3 DEF TailInv
<1> QED  BY <1>3, <1>4 DEF SeedWork, Goto

(* The worker has answered for a document of the seed: staged, deferred or *)
(* failed.                                                                 *)
LEMMA SeedWorkedStep ==
  ASSUME Inv, SeedWorked
  PROVE  TailInv'
<1>1. /\ tail.pc = "seedBusy" /\ tail \in Tails /\ tail.todo # <<>> /\ tail.win = <<>>
      /\ row # None /\ row = tail.h0 /\ seedRow = tail.after /\ Head(tail.todo).match
      /\ tail.pos <= tail.h0 /\ Within(tail.todo, tail.after, tail.pos) /\ TailReads /\ Corpus
  BY DEF SeedWorked, At, Inv, TailShape, Seeds, SeedPages
<1>2. UNCHANGED durable /\ headSeq' = headSeq  BY DEF SeedWorked, durable, headSeq
<1> DEFINE c == Head(tail.todo)
<1>3. PICK r \in {"done", "deferred", "failed"} :
        tail' = Next1([Worked(tail, r) EXCEPT !.led = tail.led \cup {[seq |-> c.seq, outcome |-> r]}],
                      "seedWork", "seedFlush")
  BY DEF SeedWorked
<1> DEFINE e == [seq |-> c.seq, outcome |-> r]
           L == tail.led \cup {e}
           w == Worked(tail, r)
           t == [w EXCEPT !.led = L]
           q == Tail(tail.todo)
           s == IF r = "done" THEN Append(tail.staged, c) ELSE tail.staged
<1>4. c \in Change /\ q \in Seq(Change) /\ Within(q, tail.after, tail.pos)
  BY <1>1, TailTypes, Shifted
<1>5. L \in SUBSET Leds
  <2>1. c.seq \in Seqs /\ r \in Outcomes
    <3> HIDE DEF c
    <3> QED  BY <1>4, ChangeTypes DEF Outcomes
  <2>2. tail.led \in SUBSET Leds  BY <1>1, TailTypes
  <2> QED  BY <2>1, <2>2 DEF Leds
<1>6. e.seq = c.seq /\ e.outcome = r  OBVIOUS
<1>7. /\ w \in Tails /\ w.todo = q /\ w.staged = s /\ w.win = tail.win /\ w.pos = tail.pos
      /\ w.after = tail.after /\ w.h0 = tail.h0 /\ w.cur = tail.cur
  BY <1>1, WorkedIs
<1>8. tail' = Next1(t, "seedWork", "seedFlush")  BY <1>3
<1>9. L = tail.led \cup {e}  OBVIOUS
<1>10. s = tail.staged \/ s = Append(tail.staged, c)  OBVIOUS
<1>11. r = "done" => s = Append(tail.staged, c)  OBVIOUS
<1> HIDE DEF e, L, w
<1>12. t \in Tails /\ t.led = L /\ t.todo = q /\ t.staged = s /\ t.win = tail.win /\ t.pos = tail.pos
       /\ t.after = tail.after /\ t.h0 = tail.h0
  <2> HIDE DEF q, s
  <2> QED  BY <1>5, <1>7 DEF Tails, Leds
<1> HIDE DEF t
<1>13. tail' \in Tails /\ Same(t, tail') /\ tail'.pc \in {"seedWork", "seedFlush"}
       /\ (tail'.pc = "seedWork" => t.todo # <<>>)
       /\ (tail'.pc = "seedFlush" => Bounded(tail') \/ t.todo = <<>>)
  BY <1>8, <1>12, SeedNext
<1>14. \A f \in tail'.led :
         f \in tail.led \/ (/\ f.seq = c.seq /\ f.outcome # "skip"
                            /\ f.outcome = "done" => tail'.staged = Append(tail.staged, c))
  BY <1>6, <1>9, <1>11, <1>12, <1>13 DEF Same
<1>15. /\ tail'.todo = Tail(tail.todo) /\ tail'.win = tail.win
       /\ \/ tail'.staged = tail.staged
          \/ tail'.staged = Append(tail.staged, c) /\ c.match
  BY <1>1, <1>10, <1>12, <1>13 DEF Same
<1>16. TailReads'
  BY <1>1, <1>2, <1>14, <1>15, Popped DEF durable
<1> HIDE DEF q, s
<1>17. TailShape'
  BY <1>1, <1>2, <1>4, <1>12, <1>13 DEF TailShape, Resting, Seeds, SeedPages, Feeds, Batches, Same, durable
<1> QED  BY <1>16, <1>17 DEF TailInv

(* One change of the batch (attach).                                       *)
LEMMA WorkChangeStep ==
  ASSUME Inv, WorkChange
  PROVE  TailInv'
<1> DEFINE c == Head(tail.todo)
           q == Tail(tail.todo)
           p == c.seq
<1>1. /\ tail.pc = "work" /\ tail \in Tails /\ tail.todo # <<>> /\ tail.win = <<>> /\ tail.led = {}
      /\ row # None /\ row <= tail.cur /\ tail.cur <= headSeq /\ row <= tail.pos /\ tail.pos <= tail.cur
      /\ Within(tail.todo, row, tail.cur) /\ TailReads /\ Corpus
  BY DEF WorkChange, At, Inv, TailShape, Feeds, Batches
<1>2. UNCHANGED <<doc, log, row, seedRow>> /\ headSeq' = headSeq  BY DEF WorkChange, durable, headSeq
<1>h. tail.cur <= headSeq' /\ \A lo, hi : Within(<<>>, lo, hi)  BY <1>1, <1>2 DEF Within
<1>3. CASE ~c.match /\ tail' = Next1([tail EXCEPT !.todo = q, !.pos = p], "work", "flush")
  <2> DEFINE t == [tail EXCEPT !.todo = q, !.pos = p]
  <2>1. c \in Change /\ q \in Seq(Change) /\ Within(q, row, tail.cur) /\ row < p /\ p <= tail.cur
    BY <1>1, TailTypes, Shifted
  <2>2. p \in 0..MaxSeq /\ row \in Nat
    <3> HIDE DEF c
    <3>1. p \in Seqs  BY <2>1, ChangeTypes
    <3>2. row \in 0..MaxSeq  BY <1>1 DEF Inv, Marks
    <3> QED  BY <3>1, <3>2, BoundsAssumption DEF Seqs
  <2>3. tail' = Next1(t, "work", "flush")  BY <1>3
  <2>4. t \in Tails /\ t.todo = q /\ t.staged = tail.staged /\ t.win = tail.win /\ t.led = tail.led
        /\ t.pos = p /\ t.cur = tail.cur
    <3> HIDE DEF q, p
    <3> QED  BY <1>1, <2>1, <2>2 DEF Tails
  <2> HIDE DEF t
  <2>5. tail' \in Tails /\ Same(t, tail') /\ tail'.pc \in {"work", "flush"}
        /\ (tail'.pc = "work" => t.todo # <<>>)
        /\ (tail'.pc = "flush" => Bounded(tail') \/ t.todo = <<>>)
    BY <2>3, <2>4, FeedNext
  <2>6. TailReads'
    BY <1>1, <1>2, <2>4, <2>5, Popped DEF Same, durable
  <2> HIDE DEF q, p
  <2>7. row <= p  BY <2>1, <2>2
  <2>8. TailShape'
    BY <1>1, <1>2, <1>h, <2>1, <2>7, <2>4, <2>5 DEF TailShape, Resting, Seeds, SeedPages, Feeds, Batches, Same, durable
  <2> QED  BY <2>6, <2>8 DEF TailInv
<1>4. CASE c.match /\ tail' = [tail EXCEPT !.pc = "busy"]
  <2>1. tail' \in Tails /\ Same(tail, tail') /\ tail'.pc = "busy"  BY <1>1, <1>4 DEF Tails, Same
  <2>2. TailShape'
    BY <1>1, <1>2, <1>h, <1>4, <2>1 DEF TailShape, Resting, Seeds, SeedPages, Feeds, Batches, Same, durable
  <2>3. TailReads'  BY <1>1, <1>2, <2>1 DEF TailReads, Same, durable
  <2> QED  BY <2>2, <2>3 DEF TailInv
<1> QED  BY <1>3, <1>4 DEF WorkChange, Goto

(* The worker has answered for a change: staged, deferred, failed or tried *)
(* again.                                                                  *)
LEMMA ChangeWorkedStep ==
  ASSUME Inv, ChangeWorked
  PROVE  TailInv'
<1> DEFINE c == Head(tail.todo)
           q == Tail(tail.todo)
           p == c.seq
<1>1. /\ tail.pc = "busy" /\ tail \in Tails /\ tail.todo # <<>> /\ tail.win = <<>> /\ tail.led = {}
      /\ row # None /\ row <= tail.cur /\ tail.cur <= headSeq /\ c.match
      /\ Within(tail.todo, row, tail.cur) /\ TailReads /\ Corpus
  BY DEF ChangeWorked, At, Inv, TailShape, Feeds, Batches
<1>2. UNCHANGED <<doc, log, row, seedRow>> /\ headSeq' = headSeq  BY DEF ChangeWorked, headSeq
<1>h. tail.cur <= headSeq' /\ \A lo, hi : Within(<<>>, lo, hi)  BY <1>1, <1>2 DEF Within
<1>3. PICK r \in {"done", "deferred", "failed"} :
        Served(Next1([Worked(tail, r) EXCEPT !.pos = p], "work", "flush"))
  BY DEF ChangeWorked
<1> DEFINE w == Worked(tail, r)
           t == [w EXCEPT !.pos = p]
           s == IF r = "done" THEN Append(tail.staged, c) ELSE tail.staged
<1>4. CASE Caught  BY <1>1, <1>4, Catches
<1>5. CASE tail' = Next1(t, "work", "flush")
  <2>1. c \in Change /\ q \in Seq(Change) /\ Within(q, row, tail.cur) /\ row < p /\ p <= tail.cur
    BY <1>1, TailTypes, Shifted
  <2>2. p \in 0..MaxSeq /\ row \in Nat
    <3> HIDE DEF c
    <3>1. p \in Seqs  BY <2>1, ChangeTypes
    <3>2. row \in 0..MaxSeq  BY <1>1 DEF Inv, Marks
    <3> QED  BY <3>1, <3>2, BoundsAssumption DEF Seqs
  <2>3. /\ w \in Tails /\ w.todo = q /\ w.staged = s /\ w.win = tail.win /\ w.led = tail.led
        /\ w.cur = tail.cur
    BY <1>1, WorkedIs
  <2>4. s = tail.staged \/ s = Append(tail.staged, c)  OBVIOUS
  <2>5. tail' = Next1(t, "work", "flush")  BY <1>5
  <2> HIDE DEF w, p
  <2>6. t \in Tails /\ t.led = {} /\ t.todo = q /\ t.staged = s /\ t.win = tail.win
        /\ t.pos = p /\ t.cur = tail.cur
    <3> HIDE DEF q, s
    <3> QED  BY <1>1, <2>2, <2>3 DEF Tails
  <2> HIDE DEF t
  <2>7. tail' \in Tails /\ Same(t, tail') /\ tail'.pc \in {"work", "flush"}
        /\ (tail'.pc = "work" => t.todo # <<>>)
        /\ (tail'.pc = "flush" => Bounded(tail') \/ t.todo = <<>>)
    BY <2>5, <2>6, FeedNext
  <2>8. /\ tail'.todo = Tail(tail.todo) /\ tail'.win = tail.win /\ tail'.led = {}
        /\ \/ tail'.staged = tail.staged
           \/ tail'.staged = Append(tail.staged, c) /\ c.match
    BY <1>1, <2>4, <2>6, <2>7 DEF Same
  <2>9. TailReads'
    BY <1>1, <1>2, <2>8, Popped
  <2> HIDE DEF q, s
  <2>10. row <= p  BY <2>1, <2>2
  <2>11. TailShape'
    BY <1>1, <1>2, <1>h, <2>1, <2>6, <2>7, <2>10 DEF TailShape, Resting, Seeds, SeedPages, Feeds, Batches, Same
  <2> QED  BY <2>9, <2>11 DEF TailInv
<1> QED  BY <1>3, <1>4, <1>5 DEF Served

(* A window of the log is read (feed).                                     *)
LEMMA FeedRowsStep ==
  ASSUME Inv, FeedRows
  PROVE  TailInv'
<1>1. /\ tail.pc = "feedRows" /\ tail \in Tails /\ Clean(tail) /\ row # None /\ row <= tail.cur
      /\ tail.cur <= headSeq /\ tail.led = {} /\ Corpus
  BY DEF FeedRows, At, Inv, TailShape, Feeds
<1>2. UNCHANGED durable /\ headSeq' = headSeq  BY DEF FeedRows, durable, headSeq
<1>3. row \in Nat /\ tail.cur \in Nat /\ headSeq \in Nat /\ headSeq <= MaxSeq
  <2>1. row \in 0..MaxSeq  BY <1>1 DEF Inv, Marks
  <2> QED  BY <1>1, <2>1, HeadNat, TailTypes DEF Corpus, CorpusTypes
<1>4. CASE tail' = [tail EXCEPT !.pc = "feedEmpty"]
  <2>1. tail' \in Tails /\ Same(tail, tail') /\ tail'.pc = "feedEmpty"  BY <1>1, <1>4 DEF Tails, Same
  <2>2. Clean(tail')  BY <1>1, <2>1 DEF Clean, Same
  <2>3. TailShape'
    BY <1>1, <1>2, <2>1, <2>2 DEF TailShape, Resting, Seeds, SeedPages, Feeds, Batches, Same, Clean, Within, durable
  <2>4. TailReads'  BY <2>2 DEF TailReads, Clean, AllTell, AllMatch, RefsTell
  <2> QED  BY <2>3, <2>4 DEF TailInv
<1>5. CASE /\ Window # <<>>
           /\ tail' = [tail EXCEPT !.pc = "feedDocs", !.woke = FALSE, !.cur = Last(Window),
                         !.win = [i \in DOMAIN Window |-> [seq |-> Window[i], ref |-> log[Window[i]]]]]
  <2> DEFINE w == Window
             l == Last(Window)
             v == [i \in DOMAIN w |-> [seq |-> w[i], ref |-> log[w[i]]]]
  <2>1. /\ w \in Seq(1..headSeq) /\ w # <<>> /\ l \in 1..headSeq /\ tail.cur < l
        /\ \A i \in 1..Len(w) : log[w[i]] # Gone /\ tail.cur < w[i] /\ w[i] <= l
    BY <1>1, <1>5, WindowRead
  <2>2. tail' = [tail EXCEPT !.pc = "feedDocs", !.woke = FALSE, !.cur = l, !.win = v]  BY <1>5
  <2> HIDE DEF w, l
  <2>3. DOMAIN w = 1..Len(w) /\ Len(w) \in Nat /\ \A i \in 1..Len(w) : w[i] \in 1..headSeq
    <3> DEFINE H == 1..headSeq
    <3>1. w \in Seq(H)  BY <2>1
    <3> HIDE DEF H
    <3>2. DOMAIN w = 1..Len(w) /\ Len(w) \in Nat /\ \A i \in 1..Len(w) : w[i] \in H  BY <3>1
    <3> QED  BY <3>2 DEF H
  <2>4. ASSUME NEW i \in 1..Len(w)
        PROVE  /\ v[i] \in Refs /\ v[i].seq = w[i] /\ v[i].ref = log[w[i]]
    <3>1. w[i] \in Seqs /\ w[i] \in 1..headSeq  BY <1>3, <2>3, BoundsAssumption DEF Seqs
    <3>2. log[w[i]] \in Docs \cup {Noise}
      <4> DEFINE T == Docs \cup {Noise, Gone}
      <4>1. log \in Seq(T)  BY <1>1 DEF Corpus, CorpusTypes
      <4> HIDE DEF T
      <4>2. log[w[i]] \in T  BY <3>1, <4>1 DEF headSeq
      <4> QED  BY <2>1, <4>2 DEF T
    <3>3. v[i] = [seq |-> w[i], ref |-> log[w[i]]]  BY <2>3
    <3> QED  BY <3>1, <3>2, <3>3 DEF Refs
  <2>5. v \in Seq(Refs) /\ Len(v) = Len(w)
    <3>1. v \in [1..Len(w) -> Refs]  BY <2>3, <2>4
    <3> QED  BY <2>3, <3>1
  <2>6. \A i \in 1..Len(v) : v[i].seq = w[i] /\ v[i].ref = log[w[i]]  BY <2>4, <2>5
  <2> HIDE DEF v
  <2>7. v # <<>>  BY <2>1, <2>3, <2>5
  <2>8. Within(v, row, l)
    <3> SUFFICES ASSUME NEW i \in 1..Len(w) PROVE row < w[i] /\ w[i] <= l
      BY <2>5, <2>6 DEF Within
    <3>1. w[i] \in Nat /\ tail.cur < w[i] /\ w[i] <= l  BY <2>1, <2>3
    <3> QED  BY <1>1, <1>3, <3>1
  <2>9. RefsTell(v, doc, headSeq)
    <3> SUFFICES ASSUME NEW i \in 1..Len(w), NEW d \in Docs, Carries(d, w[i], doc)
                 PROVE  log[w[i]] = d
      BY <1>3, <2>3, <2>5, <2>6 DEF RefsTell
    <3> QED  BY <1>1, <2>1 DEF Corpus, Carries
  <2>10. l \in 0..MaxSeq /\ l <= headSeq /\ row <= l
    <3>1. l \in Nat  BY <1>3, <2>1
    <3> QED  BY <1>1, <1>3, <2>1, <3>1, BoundsAssumption
  <2>11. tail' \in Tails  BY <1>1, <2>2, <2>5, <2>10 DEF Tails, Refs
  <2>12. /\ tail'.pc = "feedDocs" /\ tail'.cur = l /\ tail'.win = v /\ tail'.todo = <<>>
         /\ tail'.staged = <<>> /\ tail'.led = {}
    BY <1>1, <2>2 DEF Tails, Clean
  <2>13. TailShape'
    BY <1>1, <1>2, <2>7, <2>8, <2>10, <2>11, <2>12
       DEF TailShape, Resting, Seeds, SeedPages, Feeds, Batches, Within, durable
  <2>14. TailReads'
    BY <1>2, <2>9, <2>12 DEF TailReads, AllTell, AllMatch, durable
  <2> QED  BY <2>13, <2>14 DEF TailInv
<1> QED  BY <1>4, <1>5 DEF FeedRows

(* The first row of the window is taken (feed's loop over the rows).       *)
LEMMA ShiftedRefs ==
  ASSUME NEW w \in Seq(Refs), w # <<>>
  PROVE  /\ Head(w) \in Refs /\ Tail(w) \in Seq(Refs)
         /\ \A s : In(w, s) <=> In(Tail(w), s) \/ Head(w).seq = s
         /\ \A docs, head : RefsTell(w, docs, head) =>
              /\ RefsTell(Tail(w), docs, head) /\ Head(w).seq <= head
              /\ \A d \in Docs : Carries(d, Head(w).seq, docs) => Head(w).ref = d
         /\ \A lo, hi : Within(w, lo, hi) =>
              Within(Tail(w), lo, hi) /\ lo < Head(w).seq /\ Head(w).seq <= hi
<1> HIDE DEF Refs
<1>1. Head(w) = w[1] /\ 1 \in 1..Len(w) /\ w[1] \in Refs /\ Tail(w) \in Seq(Refs)  OBVIOUS
<1>2. \A i \in 1..Len(Tail(w)) : Tail(w)[i] = w[i + 1] /\ i + 1 \in 1..Len(w)  OBVIOUS
<1>3. \A i \in 1..Len(w) : i = 1 \/ (i - 1 \in 1..Len(Tail(w)) /\ Tail(w)[i - 1] = w[i])  OBVIOUS
<1>4. ASSUME NEW s PROVE In(w, s) <=> In(Tail(w), s) \/ Head(w).seq = s
  <2>1. ASSUME In(w, s) PROVE In(Tail(w), s) \/ Head(w).seq = s  BY <1>1, <1>3, <2>1 DEF In
  <2>2. ASSUME In(Tail(w), s) PROVE In(w, s)  BY <1>2, <2>2 DEF In
  <2>3. ASSUME Head(w).seq = s PROVE In(w, s)  BY <1>1, <2>3 DEF In
  <2> QED  BY <2>1, <2>2, <2>3
<1>5. \A docs, head : RefsTell(w, docs, head) =>
        /\ RefsTell(Tail(w), docs, head) /\ Head(w).seq <= head
        /\ \A d \in Docs : Carries(d, Head(w).seq, docs) => Head(w).ref = d
  BY <1>1, <1>2 DEF RefsTell
<1>6. \A lo, hi : Within(w, lo, hi) =>
        Within(Tail(w), lo, hi) /\ lo < Head(w).seq /\ Head(w).seq <= hi
  BY <1>1, <1>2 DEF Within
<1> QED  BY <1>1, <1>4, <1>5, <1>6

(* A row is fed as the document that carries its number, or as what no     *)
(* worker matches; or it has been overtaken and is not fed.                *)
LEMMA RowRead ==
  ASSUME Corpus, NEW r \in Refs, r.seq <= headSeq,
         \A d \in Docs : Carries(d, r.seq, doc) => r.ref = d
  PROVE  \/ Materialized(r) = <<>> /\ \A d \in Docs : ~Carries(d, r.seq, doc)
         \/ \E c \in Change : Materialized(r) = <<c>> /\ c.seq = r.seq /\ Tells(c, doc, headSeq)
<1>1. r.seq \in Seqs /\ r.ref \in Docs \cup {Noise}  BY DEF Refs
<1>2. CASE r.ref = Noise
  <2> DEFINE s == r.seq
             c == NoiseChange(s)
  <2>1. /\ c.seq = s /\ c.doc = Noise /\ c.src = 0 /\ ~c.match /\ c \in Change
    BY <1>1, BoundsAssumption DEF NoiseChange, Change
  <2>2. \A d \in Docs : ~Carries(d, s, doc)  BY <1>2, Names
  <2>3. Materialized(r) = <<c>>  BY <1>2 DEF Materialized
  <2> HIDE DEF c
  <2>4. Tells(c, doc, headSeq)  BY <2>1, <2>2 DEF Tells
  <2> QED  BY <2>1, <2>3, <2>4
<1>3. CASE r.ref # Noise /\ doc[r.ref].st # "none" /\ doc[r.ref].seq = r.seq
  <2> DEFINE d == r.ref
             c == DocChange(doc[d].seq, d)
  <2>1. d \in Docs /\ doc[d].st # "none" /\ doc[d].seq = r.seq  BY <1>1, <1>3
  <2>2. Materialized(r) = <<c>>  BY <1>3 DEF Materialized
  <2> HIDE DEF d
  <2>3. c \in Change /\ Tells(c, doc, headSeq) /\ c.seq = doc[d].seq  BY <2>1, DocRead
  <2> QED  BY <2>1, <2>2, <2>3
<1>4. CASE r.ref # Noise /\ ~(doc[r.ref].st # "none" /\ doc[r.ref].seq = r.seq)
  <2>1. Materialized(r) = <<>>  BY <1>4 DEF Materialized
  <2>2. \A d \in Docs : ~Carries(d, r.seq, doc)  BY <1>4 DEF Carries
  <2> QED  BY <2>1, <2>2
<1> QED  BY <1>2, <1>3, <1>4

(* What the read of that row's document adds to the changes to work on.    *)
LEMMA FeedDocsIs ==
  ASSUME Inv, FeedDocs
  PROVE  LET r == Head(tail.win)
             todo == tail.todo \o Materialized(r) IN
         /\ todo \in Seq(Change) /\ AllTell(todo, doc, headSeq) /\ Within(todo, row, tail.cur)
         /\ \A s : In(tail.todo, s) => In(todo, s)
         /\ \A d \in Docs : Carries(d, r.seq, doc) => In(todo, r.seq)
<1> DEFINE r == Head(tail.win)
           q == tail.todo
           todo == q \o Materialized(r)
<1>1. /\ tail.win \in Seq(Refs) /\ tail.win # <<>> /\ q \in Seq(Change) /\ Corpus
      /\ Within(tail.win, row, tail.cur) /\ Within(q, row, tail.cur)
      /\ RefsTell(tail.win, doc, headSeq) /\ AllTell(q, doc, headSeq)
  BY TailTypes DEF FeedDocs, At, Inv, TailShape, TailReads, Feeds
<1>2. /\ r \in Refs /\ r.seq <= headSeq /\ row < r.seq /\ r.seq <= tail.cur
      /\ \A d \in Docs : Carries(d, r.seq, doc) => r.ref = d
  BY <1>1, ShiftedRefs
<1> HIDE DEF r, q
<1>3. CASE Materialized(r) = <<>> /\ \A d \in Docs : ~Carries(d, r.seq, doc)
  <2>1. todo = q  BY <1>1, <1>3
  <2> HIDE DEF todo
  <2>2. /\ todo \in Seq(Change) /\ AllTell(todo, doc, headSeq) /\ Within(todo, row, tail.cur)
        /\ \A s : In(q, s) => In(todo, s)
        /\ \A d \in Docs : Carries(d, r.seq, doc) => In(todo, r.seq)
    BY <1>1, <1>3, <2>1
  <2> QED  BY <2>2 DEF todo, q, r
<1>4. CASE \E c \in Change : Materialized(r) = <<c>> /\ c.seq = r.seq /\ Tells(c, doc, headSeq)
  <2>1. PICK c \in Change : Materialized(r) = <<c>> /\ c.seq = r.seq /\ Tells(c, doc, headSeq)
    BY <1>4
  <2>2. todo = Append(q, c)
    <3>1. q \o <<c>> = Append(q, c)  BY <1>1
    <3> QED  BY <2>1, <3>1
  <2> HIDE DEF todo
  <2>3. /\ todo \in Seq(Change) /\ AllTell(todo, doc, headSeq) /\ Within(todo, row, tail.cur)
        /\ \A s : In(q, s) => In(todo, s)
        /\ In(todo, r.seq)
    BY <1>1, <1>2, <2>1, <2>2, Pushed
  <2> QED  BY <2>3 DEF todo, q, r
<1> QED  BY <1>1, <1>2, <1>3, <1>4, RowRead

(* The document of the first row of a window is read (materialize).        *)
LEMMA FeedDocsStep ==
  ASSUME Inv, FeedDocs
  PROVE  TailInv'
<1> DEFINE todo == tail.todo \o Materialized(Head(tail.win))
           win == Tail(tail.win)
           p == IF win = <<>> /\ todo # <<>> THEN row ELSE tail.pos
           pc == CASE win # <<>> -> "feedDocs" [] win = <<>> /\ todo # <<>> -> "work"
                   [] OTHER -> "feedRows"
<1>1. /\ tail.pc = "feedDocs" /\ tail \in Tails /\ tail.win # <<>> /\ tail.staged = <<>>
      /\ tail.led = {} /\ row # None /\ row <= tail.cur /\ tail.cur <= headSeq
      /\ Within(tail.win, row, tail.cur) /\ RefsTell(tail.win, doc, headSeq) /\ Corpus
  BY DEF FeedDocs, At, Inv, TailShape, TailReads, Feeds
<1>2. UNCHANGED <<doc, log, row, seedRow>> /\ headSeq' = headSeq  BY DEF FeedDocs, durable, headSeq
<1>3. todo \in Seq(Change) /\ AllTell(todo, doc, headSeq) /\ Within(todo, row, tail.cur)
  BY FeedDocsIs
<1>4. win \in Seq(Refs) /\ RefsTell(win, doc, headSeq) /\ Within(win, row, tail.cur)
  BY <1>1, TailTypes, ShiftedRefs
<1>5. tail' = [tail EXCEPT !.win = win, !.todo = todo, !.pos = p, !.pc = pc]
  BY DEF FeedDocs
<1>h. tail.cur <= headSeq' /\ \A lo, hi : Within(<<>>, lo, hi)  BY <1>1, <1>2 DEF Within
<1>6. row \in 0..MaxSeq  BY <1>1 DEF Inv, Marks
<1> HIDE DEF win, todo
<1>7. /\ p \in 0..MaxSeq
      /\ \/ pc = "feedDocs" /\ win # <<>>
         \/ pc = "work" /\ win = <<>> /\ todo # <<>> /\ p = row
         \/ pc = "feedRows" /\ win = <<>> /\ todo = <<>>
  BY <1>1, <1>6, TailTypes
<1> HIDE DEF p, pc
<1>8. tail' \in Tails  BY <1>1, <1>3, <1>4, <1>5, <1>7 DEF Tails, Refs
<1>9. /\ tail'.win = win /\ tail'.todo = todo /\ tail'.pos = p /\ tail'.pc = pc
      /\ tail'.cur = tail.cur /\ tail'.staged = <<>> /\ tail'.led = {}
  BY <1>1, <1>5 DEF Tails
<1>10. row <= row  BY <1>6, BoundsAssumption
<1>11. TailShape'
  <2>1. CASE pc = "feedDocs" /\ win # <<>>
    BY <1>1, <1>2, <1>3, <1>4, <1>h, <1>8, <1>9, <2>1
       DEF TailShape, Resting, Seeds, SeedPages, Feeds, Batches
  <2>2. CASE pc = "work" /\ win = <<>> /\ todo # <<>> /\ p = row
    BY <1>1, <1>2, <1>3, <1>4, <1>h, <1>8, <1>9, <1>10, <2>2
       DEF TailShape, Resting, Seeds, SeedPages, Feeds, Batches
  <2>3. CASE pc = "feedRows" /\ win = <<>> /\ todo = <<>>
    BY <1>1, <1>2, <1>3, <1>4, <1>h, <1>8, <1>9, <2>3
       DEF TailShape, Resting, Seeds, SeedPages, Feeds, Batches, Clean
  <2> QED  BY <1>7, <2>1, <2>2, <2>3
<1>12. TailReads'
  BY <1>2, <1>3, <1>4, <1>9 DEF TailReads, AllMatch, AllTell
<1> QED  BY <1>11, <1>12 DEF TailInv

(* The staged outputs are flushed (staged = []).                           *)
LEMMA Unstaged ==
  ASSUME NEW t \in Tails
  PROVE  /\ LET u == [t EXCEPT !.staged = <<>>] IN
            /\ u \in Tails /\ u.staged = <<>> /\ u.led = t.led /\ u.todo = t.todo /\ u.win = t.win
            /\ u.cur = t.cur /\ u.pos = t.pos /\ u.after = t.after /\ u.h0 = t.h0
         /\ LET u == [t EXCEPT !.staged = <<>>, !.led = {}] IN
            /\ u \in Tails /\ u.staged = <<>> /\ u.led = {} /\ u.todo = t.todo /\ u.win = t.win
            /\ u.cur = t.cur /\ u.pos = t.pos /\ u.after = t.after /\ u.h0 = t.h0
<1>1. [t EXCEPT !.staged = <<>>] \in Tails /\ [t EXCEPT !.staged = <<>>, !.led = {}] \in Tails
  <2> DEFINE e == <<>>
             n == {}
             L == SUBSET [seq : Seqs, outcome : Outcomes]
  <2>1. e \in Seq(Change) /\ n \in L  OBVIOUS
  <2> HIDE DEF e, n
  <2>2. [t EXCEPT !.staged = e] \in Tails  BY <2>1 DEF Tails
  <2>3. [t EXCEPT !.staged = e, !.led = n] \in Tails  BY <2>1 DEF Tails
  <2> QED  BY <2>2, <2>3 DEF e, n
<1>2. LET u == [t EXCEPT !.staged = <<>>] IN
      /\ u.staged = <<>> /\ u.led = t.led /\ u.todo = t.todo /\ u.win = t.win
      /\ u.cur = t.cur /\ u.pos = t.pos /\ u.after = t.after /\ u.h0 = t.h0
  BY DEF Tails
<1>3. LET u == [t EXCEPT !.staged = <<>>, !.led = {}] IN
      /\ u.staged = <<>> /\ u.led = {} /\ u.todo = t.todo /\ u.win = t.win
      /\ u.cur = t.cur /\ u.pos = t.pos /\ u.after = t.after /\ u.h0 = t.h0
  BY DEF Tails
<1> QED  BY <1>1, <1>2, <1>3

(* A seed begins: both rows are written at once (beginSeed).               *)
LEMMA SeedBeginStep ==
  ASSUME Inv, SeedBegin
  PROVE  TailInv'
<1>1. tail.pc = "seedBegin" /\ tail \in Tails /\ Clean(tail) /\ row' = tail.h0 /\ seedRow' = 0
  BY DEF SeedBegin, At, Inv, TailShape, Resting
<1>2. CASE Caught  BY <1>1, <1>2, Catches
<1>3. CASE tail' = [tail EXCEPT !.pc = "seedPage", !.after = 0]
  <2>1. /\ tail' \in Tails /\ tail'.pc = "seedPage" /\ tail'.after = 0 /\ tail'.h0 = tail.h0
        /\ Clean(tail') /\ tail'.win = <<>>
    <3>1. 0 \in 0..MaxSeq  BY BoundsAssumption
    <3>2. tail' \in Tails  BY <1>1, <1>3, <3>1 DEF Tails
    <3>3. /\ tail'.pc = "seedPage" /\ tail'.after = 0 /\ tail'.h0 = tail.h0 /\ tail'.win = tail.win
          /\ tail'.todo = tail.todo /\ tail'.staged = tail.staged /\ tail'.led = tail.led
      BY <1>1, <1>3 DEF Tails
    <3> QED  BY <1>1, <3>2, <3>3 DEF Clean
  <2>2. tail'.h0 # None  BY <2>1, TailTypes, Names
  <2>3. TailShape'
    BY <1>1, <2>1, <2>2 DEF TailShape, Resting, Seeds, SeedPages, Feeds, Batches
  <2>4. TailReads'  BY <2>1 DEF TailReads, Clean, AllTell, AllMatch, RefsTell
  <2> QED  BY <2>3, <2>4 DEF TailInv
<1> QED  BY <1>2, <1>3 DEF SeedBegin, Served

(* A seed ends, and the feed starts at the head it was begun at.           *)
LEMMA SeedEndStep ==
  ASSUME Inv, SeedEnd
  PROVE  TailInv'
<1>1. /\ tail.pc = "seedEnd" /\ tail \in Tails /\ Clean(tail) /\ row # None
      /\ UNCHANGED <<row, log>>
  BY DEF SeedEnd, At, Inv, TailShape, Seeds
<1>2. CASE Caught  BY <1>1, <1>2, Catches
<1>3. CASE tail' = [tail EXCEPT !.pc = "feedRows", !.cur = row, !.after = 0, !.h0 = 0]
  <2>1. row \in 0..MaxSeq /\ row <= headSeq  BY <1>1 DEF Inv, Marks
  <2>2. /\ tail' \in Tails /\ tail'.pc = "feedRows" /\ tail'.cur = row
        /\ Clean(tail')
    <3>1. 0 \in 0..MaxSeq  BY BoundsAssumption
    <3>2. tail' \in Tails  BY <1>1, <1>3, <2>1, <3>1 DEF Tails
    <3>3. /\ tail'.pc = "feedRows" /\ tail'.cur = row /\ tail'.win = tail.win
          /\ tail'.todo = tail.todo /\ tail'.staged = tail.staged /\ tail'.led = tail.led
      BY <1>1, <1>3 DEF Tails
    <3> QED  BY <1>1, <3>2, <3>3 DEF Clean
  <2>3. row' <= tail'.cur /\ tail'.cur <= headSeq'
    <3>1. row' = row /\ headSeq' = headSeq /\ row <= row  BY <1>1, <2>1, BoundsAssumption DEF headSeq
    <3> QED  BY <2>1, <2>2, <3>1
  <2>4. TailShape'
    BY <1>1, <2>2, <2>3 DEF TailShape, Resting, Seeds, SeedPages, Feeds, Batches, Clean, Within
  <2>5. TailReads'  BY <2>2 DEF TailReads, Clean, AllTell, AllMatch, RefsTell
  <2> QED  BY <2>4, <2>5 DEF TailInv
<1> QED  BY <1>2, <1>3 DEF SeedEnd, Served

(* Outputs of the page are flushed; the last flush carries the seed cursor *)
(* (flush in seedConsumer).                                                *)
LEMMA SeedCommitStep ==
  ASSUME Inv, SeedCommit
  PROVE  TailInv'
<1>1. /\ tail.pc = "seedCommit" /\ tail \in Tails /\ Corpus /\ row # None /\ row = tail.h0
      /\ seedRow = tail.after /\ tail.win = <<>> /\ tail.pos <= tail.h0
      /\ Within(tail.todo, tail.after, tail.pos) /\ row' = row
  BY DEF SeedCommit, At, Inv, TailShape, Seeds, SeedPages
<1>2. Grows /\ Renumbers /\ headSeq' \in Nat
  <2>1. tail.staged \in Seq(Change) /\ AllMatch(tail.staged) /\ AllTell(tail.staged, doc, headSeq)
    BY <1>1, TailTypes DEF Inv, TailReads
  <2>2. Grows  BY <1>1, <2>1, Written DEF SeedCommit
  <2>3. Renumbers  BY <1>1, <2>2, GrowsRenumbers
  <2>4. headSeq' \in Nat  BY <2>2 DEF Grows, headSeq
  <2> QED  BY <2>2, <2>3, <2>4
<1>3. seedRow # None  BY <1>1, TailTypes, Names
<1>4. AllTell(tail.todo, doc', headSeq')
  BY <1>1, <1>2, TailTypes, AllTellOn DEF Inv, TailReads
<1>5. CASE Caught  BY <1>1, <1>5, Catches
<1>f. Bounded(tail) \/ tail.todo = <<>>  BY DEF SeedCommit, At, Inv, TailShape
<1>6. CASE /\ ~Bounded(tail)
           /\ tail' = [[tail EXCEPT !.staged = <<>>, !.led = {}] EXCEPT !.pc = "seedPage", !.after = tail.pos, !.pos = 0]
  <2>1. seedRow' = tail.pos  BY <1>3, <1>6 DEF SeedCommit
  <2>2. /\ tail' \in Tails /\ tail'.pc = "seedPage" /\ tail'.after = tail.pos /\ tail'.h0 = tail.h0
        /\ tail'.win = <<>> /\ Clean(tail')
    <3> DEFINE t == [tail EXCEPT !.staged = <<>>, !.led = {}]
    <3>1. /\ t \in Tails /\ t.staged = <<>> /\ t.led = {} /\ t.todo = tail.todo /\ t.win = tail.win
          /\ t.h0 = tail.h0
      BY <1>1, Unstaged
    <3>2. 0 \in 0..MaxSeq /\ tail.pos \in 0..MaxSeq  BY <1>1, TailTypes, BoundsAssumption
    <3>3. tail' = [t EXCEPT !.pc = "seedPage", !.after = tail.pos, !.pos = 0]  BY <1>6
    <3> HIDE DEF t
    <3>4. tail' \in Tails  BY <3>1, <3>2, <3>3 DEF Tails
    <3>5. /\ tail'.pc = "seedPage" /\ tail'.after = tail.pos /\ tail'.h0 = t.h0 /\ tail'.win = t.win
          /\ tail'.todo = t.todo /\ tail'.staged = t.staged /\ tail'.led = t.led
      BY <3>1, <3>3 DEF Tails
    <3> QED  BY <1>1, <1>f, <1>6, <3>1, <3>4, <3>5 DEF Clean
  <2>3. TailShape'
    BY <1>1, <2>1, <2>2 DEF TailShape, Resting, Seeds, SeedPages, Feeds, Batches
  <2>4. TailReads'  BY <2>2 DEF TailReads, Clean, AllTell, AllMatch, RefsTell
  <2> QED  BY <2>3, <2>4 DEF TailInv
<1>7. CASE /\ Bounded(tail)
           /\ tail' = Next1([tail EXCEPT !.staged = <<>>, !.led = {}], "seedWork", "seedFlush")
  <2>1. seedRow' = seedRow  BY <1>7 DEF SeedCommit
  <2>2. /\ tail' \in Tails /\ tail'.after = tail.after /\ tail'.h0 = tail.h0
        /\ tail'.win = <<>> /\ tail'.todo = tail.todo /\ tail'.staged = <<>> /\ tail'.led = {}
        /\ tail'.pos = tail.pos
        /\ \/ tail'.pc = "seedWork" /\ tail.todo # <<>>
           \/ tail'.pc = "seedFlush" /\ tail.todo = <<>>
    <3> DEFINE t == [tail EXCEPT !.staged = <<>>, !.led = {}]
    <3>1. /\ t \in Tails /\ t.staged = <<>> /\ t.led = {} /\ t.todo = tail.todo /\ t.win = tail.win
          /\ t.h0 = tail.h0 /\ t.after = tail.after /\ t.pos = tail.pos
      BY <1>1, Unstaged
    <3>2. tail' = Next1(t, "seedWork", "seedFlush")  BY <1>7
    <3> HIDE DEF t
    <3>3. /\ tail' \in Tails /\ Same(t, tail') /\ tail'.pc \in {"seedWork", "seedFlush"}
          /\ tail'.pc = "seedWork" => t.todo # <<>>
          /\ tail'.pc = "seedFlush" => t.todo = <<>>
      BY <3>1, <3>2, NextOfNone
    <3> QED  BY <1>1, <3>1, <3>3 DEF Same
  <2>3. TailShape'
    BY <1>1, <1>7, <2>1, <2>2 DEF TailShape, Resting, Seeds, SeedPages, Feeds, Batches
  <2>4. TailReads'  BY <1>1, <1>4, <2>2 DEF TailReads, AllTell, AllMatch, RefsTell
  <2> QED  BY <2>3, <2>4 DEF TailInv
<1> QED  BY <1>5, <1>6, <1>7 DEF SeedCommit, Served

(* Outputs of the batch are flushed; only the last flush moves the cursor  *)
(* (commit in attach).                                                     *)
LEMMA CommitStep ==
  ASSUME Inv, Commit
  PROVE  TailInv' /\ row' \in 0..MaxSeq /\ row' <= headSeq /\ row <= row'
<1>1. /\ tail.pc = "commit" /\ tail \in Tails /\ Corpus /\ row # None /\ row <= tail.cur
      /\ tail.win = <<>> /\ row < tail.pos /\ row <= tail.pos /\ tail.pos <= tail.cur
      /\ tail.cur <= headSeq /\ tail.led = {}
      /\ Within(tail.todo, row, tail.cur) /\ seedRow' = seedRow
  BY DEF Commit, At, Inv, TailShape, Feeds, Batches
<1>2. Grows /\ Renumbers /\ headSeq' \in Nat /\ headSeq \in Nat
  <2>1. tail.staged \in Seq(Change) /\ AllMatch(tail.staged) /\ AllTell(tail.staged, doc, headSeq)
    BY <1>1, TailTypes DEF Inv, TailReads
  <2>2. Grows  BY <1>1, <2>1, Written DEF Commit
  <2>3. Renumbers  BY <1>1, <2>2, GrowsRenumbers
  <2>4. headSeq' \in Nat  BY <2>2 DEF Grows, headSeq
  <2> QED  BY <1>1, <2>2, <2>3, <2>4, HeadNat
<1>3. row \in 0..MaxSeq /\ tail.pos \in 0..MaxSeq /\ tail.cur \in Nat /\ MaxSeq \in Nat
  BY <1>1, TailTypes, BoundsAssumption DEF Inv, Marks
<1>4. AllTell(tail.todo, doc', headSeq')
  BY <1>1, <1>2, TailTypes, AllTellOn DEF Inv, TailReads
<1>5. tail.cur <= headSeq'
  <2>1. headSeq <= headSeq'  BY <1>2 DEF Renumbers
  <2> QED  BY <1>1, <1>2, <1>3, <2>1
<1>6. row' \in 0..MaxSeq /\ row' <= headSeq /\ row <= row'
  <2>1. CASE ~Bounded(tail)
    <3>1. row' = tail.pos  BY <2>1 DEF Commit
    <3> QED  BY <1>1, <1>2, <1>3, <3>1
  <2>2. CASE Bounded(tail)
    <3>1. row' = row  BY <2>2 DEF Commit
    <3> QED  BY <1>1, <1>2, <1>3, <3>1
  <2> QED  BY <2>1, <2>2
<1>7. CASE Caught  BY <1>1, <1>6, <1>7, Catches
<1>f. Bounded(tail) \/ tail.todo = <<>>  BY DEF Commit, At, Inv, TailShape
<1>8. CASE /\ ~Bounded(tail)
           /\ tail' = [[tail EXCEPT !.staged = <<>>] EXCEPT !.pc = "feedRows", !.pos = 0, !.retries = 0]
  <2>1. row' = tail.pos /\ row' # None
    <3>1. row' = tail.pos  BY <1>8 DEF Commit
    <3> QED  BY <1>3, <3>1, Names
  <2>2. /\ tail' \in Tails /\ tail'.pc = "feedRows" /\ tail'.cur = tail.cur /\ tail'.led = {}
        /\ tail'.win = <<>> /\ tail'.todo = <<>> /\ Clean(tail')
    <3> DEFINE t == [tail EXCEPT !.staged = <<>>]
    <3>1. /\ t \in Tails /\ t.staged = <<>> /\ t.led = tail.led /\ t.todo = tail.todo /\ t.win = tail.win
          /\ t.cur = tail.cur
      BY <1>1, Unstaged
    <3>2. 0 \in 0..MaxSeq /\ 0 \in 0..MaxRetries  BY BoundsAssumption
    <3>3. tail' = [t EXCEPT !.pc = "feedRows", !.pos = 0, !.retries = 0]  BY <1>8
    <3> HIDE DEF t
    <3>4. tail' \in Tails  BY <3>1, <3>2, <3>3 DEF Tails
    <3>5. /\ tail'.pc = "feedRows" /\ tail'.cur = t.cur /\ tail'.win = t.win
          /\ tail'.todo = t.todo /\ tail'.staged = t.staged /\ tail'.led = t.led
      BY <3>1, <3>3 DEF Tails
    <3> QED  BY <1>1, <1>f, <1>8, <3>1, <3>4, <3>5 DEF Clean
  <2>3. TailShape'
    BY <1>1, <1>5, <2>1, <2>2 DEF TailShape, Resting, Seeds, SeedPages, Feeds, Batches, Within
  <2>4. TailReads'  BY <2>2 DEF TailReads, Clean, AllTell, AllMatch, RefsTell
  <2> QED  BY <1>6, <2>3, <2>4 DEF TailInv
<1>9. CASE Bounded(tail) /\ tail' = Next1([tail EXCEPT !.staged = <<>>], "work", "flush")
  <2>1. row' = row  BY <1>9 DEF Commit
  <2>2. /\ tail' \in Tails /\ tail'.cur = tail.cur /\ tail'.led = {}
        /\ tail'.win = <<>> /\ tail'.todo = tail.todo /\ tail'.staged = <<>> /\ tail'.pos = tail.pos
        /\ \/ tail'.pc = "work" /\ tail.todo # <<>>
           \/ tail'.pc = "flush" /\ tail.todo = <<>>
    <3> DEFINE t == [tail EXCEPT !.staged = <<>>]
    <3>1. /\ t \in Tails /\ t.staged = <<>> /\ t.led = tail.led /\ t.todo = tail.todo /\ t.win = tail.win
          /\ t.cur = tail.cur /\ t.pos = tail.pos
      BY <1>1, Unstaged
    <3>2. tail' = Next1(t, "work", "flush")  BY <1>9
    <3> HIDE DEF t
    <3>3. /\ tail' \in Tails /\ Same(t, tail') /\ tail'.pc \in {"work", "flush"}
          /\ tail'.pc = "work" => t.todo # <<>>
          /\ tail'.pc = "flush" => t.todo = <<>>
      BY <3>1, <3>2, NextOfNone
    <3> QED  BY <1>1, <3>1, <3>3 DEF Same
  <2>3. \A lo, hi : Within(<<>>, lo, hi)  BY DEF Within
  <2>4. TailShape'
    BY <1>1, <1>5, <1>9, <2>1, <2>2, <2>3 DEF TailShape, Resting, Seeds, SeedPages, Feeds, Batches
  <2>5. TailReads'  BY <1>1, <1>4, <2>2 DEF TailReads, AllTell, AllMatch, RefsTell
  <2> QED  BY <1>6, <2>4, <2>5 DEF TailInv
<1> QED  BY <1>7, <1>8, <1>9 DEF Commit, Served

(* The loop ends, waits, fails or is started (the catch of attach, stop,   *)
(* attachBundledWorkers).                                                  *)
LEMMA LoopMoves ==
  ASSUME Inv, TailAborts \/ TailCallFails \/ TailReadOnly \/ Attach \/ Crash
  PROVE  TailInv'
<1>0. tail \in Tails  BY DEF Inv, TailShape
<1>1. CASE TailAborts  BY <1>1, Settles DEF TailAborts, Settle
<1>2. CASE TailCallFails  BY <1>0, <1>2, Catches DEF TailCallFails
<1>3. CASE TailReadOnly
  <2>1. CASE tail' = TailOff  BY <2>1, Settles
  <2>3. CASE tail' = [TailOff EXCEPT !.pc = "dead"]
    <3>1. tail' \in Tails  BY <2>3, OffTypes DEF Tails
    <3>2. tail'.pc = "dead" /\ Clean(tail')  BY <2>3 DEF TailOff, Clean
    <3> QED  BY <3>1, <3>2, Rests
  <2> QED  BY <1>3, <2>1, <2>3 DEF TailReadOnly, Settle
<1>4. CASE Attach
  <2>1. tail' = [TailOff EXCEPT !.pc = "seedCheck"]  BY <1>4 DEF Attach
  <2>2. tail' \in Tails  BY <2>1, OffTypes DEF Tails
  <2>3. tail'.pc = "seedCheck" /\ Clean(tail')  BY <2>1 DEF TailOff, Clean
  <2> QED  BY <2>2, <2>3, Rests
<1>5. CASE Crash  BY <1>5, Settles DEF Crash
<1> QED  BY <1>1, <1>2, <1>3, <1>4, <1>5

-----------------------------------------------------------------------------
(* The other steps leave the loop's record alone.                          *)

(* A commit of another actor at most wakes the loop (emitCommit).          *)
LEMMA TailGrows ==
  ASSUME Inv, Renumbers, headSeq' \in Nat, tail' \in {tail, Woken(tail)},
         UNCHANGED <<row, seedRow>>
  PROVE  TailInv'
<1>1. /\ TailShape'
      /\ tail'.todo = tail.todo /\ tail'.win = tail.win /\ tail'.staged = tail.staged
      /\ tail'.led = tail.led
  BY ShapeOn DEF Inv, Renumbers
<1>2. TailReads'  BY <1>1, ReadsOn DEF Inv, TailShape
<1> QED  BY <1>1, <1>2 DEF TailInv

(* A step that leaves documents and log alone leaves the corpus and its    *)
(* head.                                                                   *)
LEMMA SameCorpus ==
  ASSUME Inv, UNCHANGED <<doc, log>>
  PROVE  Corpus' /\ Grows /\ Renumbers /\ headSeq' = headSeq /\ headSeq' \in Nat
<1>1. Corpus /\ Grows /\ headSeq' = headSeq  BY StillGrows DEF Inv, headSeq
<1> QED  BY <1>1, CorpusGrows, GrowsRenumbers, HeadNat

(* The sources write (upsertDocument, archiveByRef, purgeArchived, an      *)
(* account change).                                                        *)
LEMMA SourcesGrow ==
  ASSUME Inv, \/ \E d \in Docs : Upsert(d) \/ Archive(d) \/ Purge(d)
              \/ AccountChange
  PROVE  Grows
<1> DEFINE T == Docs \cup {Noise, Gone}
           h == headSeq
<1>1. h \in Nat /\ h + 1 <= MaxSeq /\ log \in Seq(T) /\ doc \in [Docs -> Document] /\ h = Len(log)
  <2>1. Room  BY DEF Upsert, Archive, Purge, AccountChange
  <2>2. h \in Nat /\ h < MaxEnv  BY <2>1, HeadNat DEF Room, Inv
  <2>3. MaxEnv \in 0..MaxSeq /\ MaxSeq \in Nat  BY BoundsAssumption
  <2> HIDE DEF h
  <2>4. h + 1 <= MaxSeq  BY <2>2, <2>3
  <2> QED  BY <2>2, <2>4 DEF Inv, Corpus, CorpusTypes, h, headSeq
<1>2. ASSUME NEW r \in Docs \cup {Noise}, Append1(r)
      PROVE  /\ log' \in Seq(T) /\ headSeq' = h + 1 /\ log'[h + 1] = r
             /\ \A s \in 1..h : log'[s] = log[s]
  <2>1. log' = Append(log, r) /\ r \in T  BY <1>2 DEF Append1
  <2> HIDE DEF T, h
  <2>2. log' \in Seq(T) /\ Len(log') = h + 1 /\ log'[h + 1] = r
        /\ \A s \in 1..h : log'[s] = log[s]
    BY <1>1, <2>1
  <2> QED  BY <2>2 DEF headSeq
<1>3. ASSUME NEW r \in Docs \cup {Noise}, Append1(r), doc' \in [Docs -> Document],
             \A d \in Docs : \/ doc'[d] = doc[d]
                             \/ doc'[d].st = "none"
                             \/ d = r /\ doc'[d].seq = h + 1 /\ doc'[d].src # 0
      PROVE  Grows
  <2> DEFINE g == headSeq'
  <2>1. /\ log' \in Seq(T) /\ g = h + 1 /\ log'[h + 1] = r /\ \A s \in 1..h : log'[s] = log[s]
    BY <1>2, <1>3
  <2>2. \A s \in (h + 1)..g : s = h + 1
    <3> HIDE DEF g, h
    <3> QED  BY <1>1, <2>1
  <2>3. h <= g /\ g <= MaxSeq /\ h + 1 \in (h + 1)..g
    <3> HIDE DEF g, h
    <3> QED  BY <1>1, <2>1
  <2> HIDE DEF g
  <2>4. \A s \in (h + 1)..g : log'[s] # Gone  BY <2>1, <2>2, Names
  <2>5. \A d \in Docs : \/ doc'[d] = doc[d]
                        \/ doc'[d].st = "none"
                        \/ /\ doc'[d].seq \in (h + 1)..g /\ log'[doc'[d].seq] = d
                           /\ doc'[d].src # 0
    BY <1>3, <2>1, <2>3
  <2> QED  BY <1>3, <2>1, <2>3, <2>4, <2>5 DEF Grows, g
<1>4. h + 1 \in 0..MaxSeq /\ h + 1 # 0 /\ 0 \in 0..MaxSeq
  <2> HIDE DEF h
  <2> QED  BY <1>1, BoundsAssumption
<1>5. ASSUME NEW d \in Docs, Upsert(d) PROVE Grows
  <2> DEFINE n == h + 1
             x == [seq |-> n, src |-> n, out |-> 0, st |-> "live"]
  <2>1. Append1(d) /\ doc' = [doc EXCEPT ![d] = x]  BY <1>5 DEF Upsert
  <2> HIDE DEF h, n
  <2>2. n \in 0..MaxSeq /\ 0 \in 0..MaxSeq /\ n # 0  BY <1>4 DEF n
  <2>3. x \in Document /\ x.seq = n /\ x.src # 0  BY <2>2 DEF Document
  <2> HIDE DEF x
  <2>4. doc' \in [Docs -> Document] /\ doc'[d] = x /\ \A e \in Docs : e # d => doc'[e] = doc[e]
    BY <1>1, <2>1, <2>3
  <2> QED  BY <1>3, <2>1, <2>3, <2>4 DEF n
<1>6. ASSUME NEW d \in Docs, Archive(d) PROVE Grows
  <2> DEFINE n == h + 1
             x == [doc[d] EXCEPT !.st = "archived", !.seq = n]
  <2>1. Append1(d) /\ doc[d].st = "live"  BY <1>6 DEF Archive
  <2>2. doc' = [doc EXCEPT ![d] = x]
    <3>1. doc' = [doc EXCEPT ![d].st = "archived", ![d].seq = n]  BY <1>6 DEF Archive
    <3> HIDE DEF n
    <3>2. [doc EXCEPT ![d].st = "archived", ![d].seq = n] = [doc EXCEPT ![d] = x]  BY <1>1
    <3> QED  BY <3>1, <3>2
  <2> HIDE DEF h, n
  <2>3. n \in 0..MaxSeq  BY <1>4 DEF n
  <2>4. doc[d] \in Document /\ doc[d].src # 0  BY <1>1, <2>1 DEF Inv, Corpus
  <2>5. x \in Document /\ x.seq = n /\ x.src = doc[d].src  BY <2>3, <2>4 DEF Document
  <2> HIDE DEF x
  <2>6. doc' \in [Docs -> Document] /\ doc'[d] = x /\ \A e \in Docs : e # d => doc'[e] = doc[e]
    BY <1>1, <2>2, <2>5
  <2> QED  BY <1>3, <2>1, <2>4, <2>5, <2>6 DEF n
<1>7. ASSUME NEW d \in Docs, Purge(d) PROVE Grows
  <2> DEFINE x == [seq |-> 0, src |-> 0, out |-> 0, st |-> "none"]
  <2>1. Append1(Noise) /\ doc' = [doc EXCEPT ![d] = x]  BY <1>7 DEF Purge
  <2>2. x \in Document /\ x.st = "none"  BY <1>4 DEF Document
  <2> HIDE DEF x
  <2>3. doc' \in [Docs -> Document] /\ doc'[d] = x /\ \A e \in Docs : e # d => doc'[e] = doc[e]
    BY <1>1, <2>1, <2>2
  <2> QED  BY <1>3, <2>1, <2>2, <2>3
<1>8. CASE AccountChange
  <2>1. Append1(Noise) /\ doc' = doc  BY <1>8 DEF AccountChange
  <2> QED  BY <1>1, <1>3, <2>1
<1> QED  BY <1>5, <1>6, <1>7, <1>8

(* The rows that hold numbers, in the steps that move them.                *)
LEMMA MarksMove ==
  ASSUME Corpus, Marks, Grows, UNCHANGED <<cutoff, floor>>,
         \/ row' = row
         \/ row' = None
         \/ row' \in 0..MaxSeq /\ row' <= headSeq,
         seedRow' \in 0..MaxSeq \cup {None},
         ledger' \in [Seqs -> Outcomes \cup {None}],
         \A s \in Seqs : ledger'[s] # None => ledger[s] # None \/ s <= headSeq
  PROVE  Marks'
<1>1. headSeq \in Nat /\ headSeq' \in Nat /\ headSeq <= headSeq' /\ MaxSeq \in Nat
  BY BoundsAssumption DEF headSeq, Corpus, CorpusTypes, Grows
<1>2. \A s \in 1..headSeq' : log'[s] = Gone => s < floor
  <2> SUFFICES ASSUME NEW s \in 1..headSeq', log'[s] = Gone PROVE s < floor  OBVIOUS
  <2>1. s \notin (headSeq + 1)..headSeq'  BY DEF Grows
  <2>2. s \in 1..headSeq  BY <1>1, <2>1
  <2> QED  BY <2>2 DEF Grows, Marks
<1>3. row' \in 0..MaxSeq \cup {None} /\ (row' # None => row' <= headSeq')
  <2>1. row' \in 0..MaxSeq \cup {None} /\ (row' # None => row' <= headSeq)
    BY DEF Marks
  <2>2. row' # None => row' \in Nat  BY <1>1, <2>1
  <2> QED  BY <1>1, <2>1, <2>2
<1>4. \A s \in Seqs : ledger'[s] # None => s <= headSeq'
  <2>1. \A s \in Seqs : ledger'[s] # None => s <= headSeq /\ s \in Nat  BY <1>1 DEF Marks, Seqs
  <2> QED  BY <1>1, <2>1
<1>5. cutoff <= headSeq' + 1 /\ floor <= headSeq'
  <2> DEFINE h == headSeq
             g == headSeq'
  <2>1. h \in Nat /\ g \in Nat /\ h <= g /\ cutoff \in Nat /\ floor \in Nat
        /\ cutoff <= h + 1 /\ floor <= h
    BY <1>1 DEF Marks
  <2> HIDE DEF h, g
  <2>2. cutoff <= g + 1 /\ floor <= g  BY <2>1
  <2> QED  BY <2>2 DEF g
<1> QED  BY <1>2, <1>3, <1>4, <1>5 DEF Marks

(* A prune stays behind a head and a floor that only go up.                *)
LEMMA PrunedOn ==
  ASSUME Corpus, Marks, Pruned, UNCHANGED floor, prune' \in {prune, PruneIdle},
         headSeq' \in Nat, headSeq <= headSeq'
  PROVE  Pruned'
<1>1. PruneIdle \in Prunes /\ PruneIdle.pc = "idle"  BY BoundsAssumption DEF PruneIdle, Prunes
<1>2. CASE prune' = PruneIdle  BY <1>1, <1>2 DEF Pruned
<1>3. CASE prune' = prune
  <2>1. prune.limit \in Nat /\ headSeq \in Nat  BY HeadNat, BoundsAssumption DEF Pruned, Prunes
  <2>2. prune.limit <= headSeq => prune.limit <= headSeq'  BY <2>1
  <2> QED  BY <1>3, <2>2 DEF Pruned
<1> QED  BY <1>2, <1>3

(* Ledger outcomes are written (the ledger part of a commit).              *)
LEMMA LedgerTypes ==
  ASSUME Marks, NEW es \in SUBSET Leds, \A e \in es : e.seq <= headSeq, ledger' = LedgerWith(es)
  PROVE  /\ ledger' \in [Seqs -> Outcomes \cup {None}]
         /\ \A s \in Seqs : /\ ledger'[s] # None => ledger[s] # None \/ s <= headSeq
                            /\ \/ ledger'[s] = ledger[s] /\ \A e \in es : e.seq # s
                               \/ \E e \in es : e.seq = s /\ ledger'[s] = e.outcome
<1>1. ASSUME NEW s \in Seqs
      PROVE  \/ LedgerWith(es)[s] = ledger[s] /\ \A e \in es : e.seq # s
             \/ \E e \in es : e.seq = s /\ LedgerWith(es)[s] = e.outcome /\ e.outcome \in Outcomes
  <2>1. CASE \E e \in es : e.seq = s
    <3> DEFINE x == CHOOSE e \in es : e.seq = s
    <3>1. x \in es /\ x.seq = s  BY <2>1
    <3>2. LedgerWith(es)[s] = x.outcome  BY <2>1 DEF LedgerWith
    <3> HIDE DEF x
    <3>3. x.outcome \in Outcomes  BY <3>1 DEF Leds
    <3> QED  BY <3>1, <3>2, <3>3
  <2>2. CASE ~ \E e \in es : e.seq = s
    BY <2>2 DEF LedgerWith
  <2> QED  BY <2>1, <2>2
<1>2. ledger \in [Seqs -> Outcomes \cup {None}]  BY DEF Marks
<1>3. DOMAIN LedgerWith(es) = Seqs /\ LedgerWith(es) = [s \in Seqs |-> LedgerWith(es)[s]]
  BY DEF LedgerWith
<1>4. \A s \in Seqs : LedgerWith(es)[s] \in Outcomes \cup {None}  BY <1>1, <1>2
<1>5. LedgerWith(es) \in [Seqs -> Outcomes \cup {None}]  BY <1>3, <1>4
<1>6. \A s \in Seqs : LedgerWith(es)[s] # None => ledger[s] # None \/ s <= headSeq  BY <1>1
<1> QED  BY <1>1, <1>5, <1>6

-----------------------------------------------------------------------------
(* The re-drive (rerunDeferred).                                           *)

(* The fields of a re-drive have their types.                              *)
LEMMA RedriveTypes ==
  ASSUME NEW r \in Redrives
  PROVE  /\ r.after \in 0..MaxSeq /\ r.page \in Seq(Seqs) /\ r.todo \in Seq(Change)
         /\ r.staged \in Seq(Change) /\ r.led \in SUBSET Leds
BY DEF Redrives, Leds

(* A re-drive that is idle is a re-drive.                                  *)
LEMMA IdleTypes == RedriveIdle \in Redrives
<1> DEFINE L == SUBSET [seq : Seqs, outcome : Outcomes]
           N == 0..MaxSeq
           S == Seq(Seqs)
           C == Seq(Change)
           P == {"idle", "list", "resolve", "work", "flush", "record"}
<1>1. <<>> \in S /\ <<>> \in C /\ {} \in L /\ 0 \in N /\ "idle" \in P  BY BoundsAssumption
<1>2. Redrives = [pc : P, after : N, page : S, todo : C, staged : C, led : L]  BY DEF Redrives
<1> HIDE DEF L, N, S, C, P
<1> QED  BY <1>1, <1>2 DEF RedriveIdle

(* A run that has not read anything: at its start, its end, or a new page. *)
LEMMA RedriveRests ==
  ASSUME redrive' \in Redrives, redrive'.todo = <<>>, redrive'.staged = <<>>, redrive'.page = <<>>,
         redrive'.led = {}, redrive'.pc # "work"
  PROVE  RedriveOK'
BY DEF RedriveOK, AllTell, AllMatch

(* A re-drive that has ended holds nothing.                                *)
LEMMA RedriveEnded == ASSUME redrive' = RedriveIdle PROVE RedriveOK'
<1>1. /\ redrive' \in Redrives /\ redrive'.todo = <<>> /\ redrive'.staged = <<>>
      /\ redrive'.page = <<>> /\ redrive'.led = {} /\ redrive'.pc = "idle"
  BY IdleTypes DEF RedriveIdle
<1> QED  BY <1>1, RedriveRests

(* One that starts holds nothing yet.                                      *)
LEMMA RedriveStarts == ASSUME RedriveStart PROVE RedriveOK'
<1>1. redrive' = [RedriveIdle EXCEPT !.pc = "list"]  BY DEF RedriveStart
<1>2. redrive' \in Redrives  BY <1>1, IdleTypes DEF Redrives
<1>3. /\ redrive'.todo = <<>> /\ redrive'.staged = <<>> /\ redrive'.page = <<>> /\ redrive'.led = {}
      /\ redrive'.pc = "list"
  BY <1>1 DEF RedriveIdle
<1> QED  BY <1>2, <1>3, RedriveRests

(* The next change, or a flush (rerunDeferred's inner loop).               *)
LEMMA RedriveNext ==
  ASSUME NEW r \in Redrives
  PROVE  LET u == RNext(r) IN
         /\ u \in Redrives /\ u.pc \in {"work", "flush"} /\ (u.pc = "work" => r.todo # <<>>)
         /\ u.todo = r.todo /\ u.staged = r.staged /\ u.led = r.led /\ u.page = r.page
<1> DEFINE p == IF Len(r.staged) >= FlushAt \/ r.todo = <<>> THEN "flush" ELSE "work"
<1>1. p \in {"work", "flush"} /\ (p = "work" => r.todo # <<>>)  OBVIOUS
<1>2. RNext(r) = [r EXCEPT !.pc = p]  BY DEF RNext, Bounded
<1> HIDE DEF p
<1>3. LET u == [r EXCEPT !.pc = p] IN
      /\ u \in Redrives /\ u.pc = p /\ u.todo = r.todo /\ u.staged = r.staged /\ u.led = r.led
      /\ u.page = r.page
  BY <1>1 DEF Redrives
<1> QED  BY <1>1, <1>2, <1>3

(* A page of the ledger is read (ledgerDeferred).                          *)
LEMMA RedriveLists ==
  ASSUME Inv, RedriveList
  PROVE  RedriveOK'
<1> DEFINE due == {s \in Seqs : s > redrive.after /\ ledger[s] = "deferred"}
           page == FirstOf(due, RedrivePage)
           l == Last(page)
<1>1. /\ redrive.pc = "list" /\ redrive \in Redrives /\ redrive.todo = <<>> /\ redrive.staged = <<>>
      /\ redrive.led = {}
  BY DEF RedriveList, RAt, Inv, RedriveOK
<1>2. headSeq' = headSeq /\ headSeq \in Nat  BY HeadNat DEF RedriveList, durable, headSeq, Inv
<1>3. CASE due = {}
  <2>1. redrive' = RedriveIdle  BY <1>3 DEF RedriveList, EndRedrive
  <2> QED  BY <2>1, RedriveEnded
<1>4. CASE due # {}
  <2>1. redrive' = [redrive EXCEPT !.pc = "resolve", !.page = page, !.after = l]
    BY <1>4 DEF RedriveList
  <2>2. \A s \in due : s \in Seqs /\ s <= headSeq
    <3>1. \A s \in due : s \in Seqs /\ ledger[s] # None  BY Names DEF Outcomes
    <3> QED  BY <3>1 DEF Inv, Marks
  <2> HIDE DEF due
  <2>3. due \in SUBSET Nat /\ IsFiniteSet(due) /\ due \in SUBSET Seqs
    <3>1. due \in SUBSET Seqs  BY <2>2
    <3>2. IsFiniteSet(Seqs)  BY BoundsAssumption, FS_Interval DEF Seqs
    <3>3. IsFiniteSet(due)  BY <3>1, <3>2, FS_Subset
    <3> QED  BY <3>1, <3>3, BoundsAssumption DEF Seqs
  <2>4. page \in Seq(due) /\ l \in due
    BY <1>4, <2>3, Paged, BoundsAssumption
  <2> HIDE DEF page, l
  <2>5. page \in Seq(Seqs) /\ \A i \in 1..Len(page) : page[i] \in due
    <3>1. \A i \in 1..Len(page) : page[i] \in due  BY <2>4
    <3> HIDE DEF Seqs
    <3>2. Len(page) \in Nat /\ page \in [1..Len(page) -> due]  BY <2>4
    <3>3. page \in [1..Len(page) -> Seqs]  BY <2>3, <3>2
    <3> QED  BY <3>1, <3>2, <3>3
  <2>6. l \in 0..MaxSeq  BY <2>3, <2>4, BoundsAssumption DEF Seqs
  <2>7. redrive' \in Redrives  BY <1>1, <2>1, <2>5, <2>6 DEF Redrives
  <2>8. /\ redrive'.todo = <<>> /\ redrive'.staged = <<>> /\ redrive'.page = page
        /\ redrive'.led = {} /\ redrive'.pc = "resolve"
    BY <1>1, <2>1 DEF Redrives
  <2>9. \A i \in 1..Len(page) : page[i] <= headSeq'  BY <1>2, <2>2, <2>5
  <2> QED  BY <2>7, <2>8, <2>9 DEF RedriveOK, AllTell, AllMatch
<1> QED  BY <1>3, <1>4

(* The numbers of the page are resolved to the documents that carry them   *)
(* (changesAt).                                                            *)
LEMMA RedriveResolves ==
  ASSUME Inv, RedriveResolve
  PROVE  RedriveOK'
<1> DEFINE R == Range(redrive.page)
           S == {s \in R : CarriedBy(s) # {}}
           live == InOrder(S)
           of(s) == CHOOSE d \in CarriedBy(s) : TRUE
           q == [i \in DOMAIN live |-> DocChange(live[i], of(live[i]))]
           L == {Skip(s) : s \in {t \in R : CarriedBy(t) = {}}}
           n == Len(live)
<1>1. /\ redrive.pc = "resolve" /\ redrive \in Redrives /\ redrive.todo = <<>> /\ redrive.staged = <<>>
      /\ redrive.page \in Seq(Seqs) /\ Corpus
      /\ \A i \in 1..Len(redrive.page) : redrive.page[i] <= headSeq
  BY RedriveTypes DEF RedriveResolve, RAt, Inv, RedriveOK
<1>2. UNCHANGED <<doc, log>> /\ headSeq' = headSeq  BY DEF RedriveResolve, durable, headSeq
<1>3. \A s \in R : s \in Seqs /\ s <= headSeq
  <2>1. \A i \in 1..Len(redrive.page) : redrive.page[i] \in Seqs  BY <1>1
  <2>2. \A s \in R : \E i \in 1..Len(redrive.page) : s = redrive.page[i]
    BY <1>1 DEF Range
  <2> QED  BY <1>1, <2>1, <2>2
<1>4. redrive' = RNext([redrive EXCEPT !.page = <<>>, !.todo = q, !.led = L])
  BY DEF RedriveResolve
<1> HIDE DEF R
<1>5. S \in SUBSET Nat /\ IsFiniteSet(S)
  <2>1. S \in SUBSET Seqs  BY <1>3
  <2> HIDE DEF S
  <2>2. IsFiniteSet(Seqs)  BY BoundsAssumption, FS_Interval DEF Seqs
  <2>3. S \in SUBSET Nat  BY <2>1, BoundsAssumption DEF Seqs
  <2> QED  BY <2>1, <2>2, <2>3, FS_Subset
<1>6. \A s \in S : of(s) \in Docs /\ doc[of(s)].st # "none" /\ doc[of(s)].seq = s
  BY DEF CarriedBy
<1> HIDE DEF S, of
<1>7. live \in Seq(S)  BY <1>5, Ordered
<1> HIDE DEF live
<1>8. n \in Nat /\ DOMAIN live = 1..n /\ \A i \in 1..n : live[i] \in S  BY <1>7
<1>9. ASSUME NEW i \in 1..n PROVE q[i] \in Change /\ Tells(q[i], doc, headSeq)
  <2> DEFINE d == of(live[i])
  <2>1. q[i] = DocChange(live[i], d)  BY <1>8
  <2>2. d \in Docs /\ doc[d].st # "none" /\ doc[d].seq = live[i]  BY <1>6, <1>8
  <2> HIDE DEF d
  <2>3. DocChange(doc[d].seq, d) \in Change /\ Tells(DocChange(doc[d].seq, d), doc, headSeq)
    BY <1>1, <2>2, DocRead
  <2> QED  BY <2>1, <2>2, <2>3
<1>10. q \in Seq(Change) /\ Len(q) = n
  <2>1. q \in [1..n -> Change]  BY <1>8, <1>9
  <2> HIDE DEF n
  <2> QED  BY <1>8, <2>1
<1>11. AllTell(q, doc, headSeq)  BY <1>9, <1>10 DEF AllTell
<1>12. L \in SUBSET Leds
       /\ \A e \in L : e.seq <= headSeq /\ \A d \in Docs : ~Carries(d, e.seq, doc)
  <2> SUFFICES ASSUME NEW s \in R, CarriedBy(s) = {}
               PROVE  /\ Skip(s) \in Leds /\ Skip(s).seq <= headSeq
                      /\ \A d \in Docs : ~Carries(d, Skip(s).seq, doc)
    BY Zenon
  <2>1. Skip(s).seq = s /\ Skip(s).outcome = "skip"  BY DEF Skip
  <2>2. s \in Seqs /\ s <= headSeq  BY <1>3
  <2>3. Skip(s) \in Leds  BY <2>2 DEF Skip, Leds, Outcomes
  <2>4. \A d \in Docs : ~Carries(d, s, doc)
    <3> SUFFICES ASSUME NEW d \in Docs, Carries(d, s, doc) PROVE FALSE  OBVIOUS
    <3>1. d \in CarriedBy(s)  BY DEF Carries, CarriedBy
    <3> QED  BY <3>1
  <2> QED  BY <2>1, <2>2, <2>3, <2>4
<1> HIDE DEF q, L
<1> DEFINE t == [redrive EXCEPT !.page = <<>>, !.todo = q, !.led = L]
<1>13. t \in Redrives /\ t.page = <<>> /\ t.todo = q /\ t.led = L /\ t.staged = <<>>
  <2> DEFINE e == <<>>
  <2>1. e \in Seq(Seqs)  OBVIOUS
  <2>2. t = [redrive EXCEPT !.page = e, !.todo = q, !.led = L]  OBVIOUS
  <2> HIDE DEF e, t
  <2>3. t \in Redrives  BY <1>1, <1>10, <1>12, <2>1, <2>2 DEF Redrives, Leds
  <2>4. t.page = e /\ t.todo = q /\ t.led = L /\ t.staged = redrive.staged
    BY <1>1, <2>2 DEF Redrives
  <2> QED  BY <1>1, <2>3, <2>4 DEF e
<1>14. redrive' = RNext(t)  BY <1>4
<1> HIDE DEF t
<1>15. /\ redrive' \in Redrives /\ redrive'.pc \in {"work", "flush"}
       /\ (redrive'.pc = "work" => t.todo # <<>>)
       /\ redrive'.todo = q /\ redrive'.staged = <<>> /\ redrive'.led = L /\ redrive'.page = <<>>
  BY <1>13, <1>14, RedriveNext
<1> QED  BY <1>2, <1>11, <1>12, <1>13, <1>15 DEF RedriveOK, AllTell, AllMatch

(* A change of the page is worked; its outcome is only kept in the run.    *)
LEMMA RedriveWorks ==
  ASSUME Inv, RedriveWork
  PROVE  RedriveOK'
<1> DEFINE c == Head(redrive.todo)
           q == Tail(redrive.todo)
           z == redrive.staged
           v == Append(z, c)
<1>1. /\ redrive.pc = "work" /\ redrive \in Redrives /\ redrive.todo # <<>> /\ redrive.todo \in Seq(Change)
      /\ z \in Seq(Change) /\ redrive.led \in SUBSET Leds /\ redrive.page \in Seq(Seqs)
      /\ AllTell(redrive.todo, doc, headSeq) /\ AllTell(z, doc, headSeq) /\ AllMatch(z)
      /\ \A i \in 1..Len(redrive.page) : redrive.page[i] <= headSeq
      /\ \A f \in redrive.led :
           /\ f.seq <= headSeq
           /\ f.outcome \in {"done", "skip"} =>
                \A d \in Docs : Carries(d, f.seq, doc) /\ Matches(doc[d]) => In(z, f.seq)
  BY RedriveTypes DEF RedriveWork, RAt, Inv, RedriveOK
<1>2. UNCHANGED <<doc, log>> /\ headSeq' = headSeq  BY DEF RedriveWork, durable, headSeq
<1>3. c \in Change /\ Tells(c, doc, headSeq) /\ q \in Seq(Change) /\ AllTell(q, doc, headSeq)
  BY <1>1, Shifted
<1>4. PICK r \in {"done", "deferred", "failed", "skip"} :
        /\ r = "skip" <=> ~c.match
        /\ redrive' = RNext([redrive EXCEPT !.todo = q,
                               !.staged = IF r = "done" THEN v ELSE z,
                               !.led = redrive.led \cup {[seq |-> c.seq, outcome |-> r]}])
  <2>1. CASE /\ ~c.match
             /\ redrive' = RNext([redrive EXCEPT !.todo = q, !.led = redrive.led \cup {Skip(c.seq)}])
    <3> DEFINE L == redrive.led \cup {[seq |-> c.seq, outcome |-> "skip"]}
    <3>1. redrive' = RNext([redrive EXCEPT !.todo = q, !.led = L])  BY <2>1 DEF Skip
    <3> HIDE DEF L, q
    <3>2. [redrive EXCEPT !.todo = q, !.led = L] = [redrive EXCEPT !.todo = q, !.staged = redrive.staged, !.led = L]
      BY <1>1 DEF Redrives
    <3>3. redrive' = RNext([redrive EXCEPT !.todo = q, !.staged = redrive.staged, !.led = L])
      BY <3>1, <3>2
    <3> QED  BY <2>1, <3>3 DEF L, q
  <2>2. CASE c.match /\ \E x \in {"done", "deferred", "failed"} :
               redrive' = RNext([Worked(redrive, x) EXCEPT !.led =
                            redrive.led \cup {[seq |-> c.seq, outcome |-> x]}])
    <3>1. PICK x \in {"done", "deferred", "failed"} :
               redrive' = RNext([Worked(redrive, x) EXCEPT !.led =
                            redrive.led \cup {[seq |-> c.seq, outcome |-> x]}])
      BY <2>2
    <3>2. x # "skip"  OBVIOUS
    <3> QED  BY <2>2, <3>1, <3>2 DEF Worked
  <2> QED  BY <2>1, <2>2 DEF RedriveWork
<1> DEFINE e == [seq |-> c.seq, outcome |-> r]
           L == redrive.led \cup {e}
           s == IF r = "done" THEN v ELSE z
           t == [redrive EXCEPT !.todo = q, !.staged = s, !.led = L]
<1>5. e \in Leds /\ e.seq = c.seq /\ e.outcome = r
  <2>1. c.seq \in Seqs
    <3> HIDE DEF c
    <3> QED  BY <1>3, ChangeTypes
  <2> QED  BY <2>1 DEF Leds, Outcomes
<1>6. redrive' = RNext(t)  BY <1>4
<1> HIDE DEF c, e
<1>7. /\ v \in Seq(Change) /\ (\A x : In(v, x) <=> In(z, x) \/ c.seq = x)
      /\ AllTell(v, doc, headSeq) /\ (c.match => AllMatch(v))
  BY <1>1, <1>3, Pushed
<1> HIDE DEF v
<1>8. /\ s \in Seq(Change) /\ AllTell(s, doc, headSeq) /\ AllMatch(s)
      /\ \A x : In(z, x) => In(s, x)
      /\ r = "done" => In(s, c.seq)
  <2>1. CASE r = "done"
    <3>1. c.match /\ s = v  BY <1>4, <2>1 DEF c
    <3> QED  BY <1>7, <3>1
  <2>2. CASE r # "done"  BY <1>1, <2>2
  <2> QED  BY <2>1, <2>2
<1>9. L \in SUBSET Leds  BY <1>1, <1>5
<1>10. \A f \in L : f \in redrive.led \/ f = e  OBVIOUS
<1> HIDE DEF s, L
<1>11. t \in Redrives /\ t.todo = q /\ t.staged = s /\ t.led = L /\ t.page = redrive.page
  <2> HIDE DEF q
  <2> QED  BY <1>1, <1>3, <1>8, <1>9 DEF Redrives, Leds
<1> HIDE DEF t, q
<1>12. /\ redrive' \in Redrives /\ redrive'.pc \in {"work", "flush"}
       /\ (redrive'.pc = "work" => t.todo # <<>>)
       /\ redrive'.todo = q /\ redrive'.staged = s /\ redrive'.led = L /\ redrive'.page = redrive.page
  BY <1>6, <1>11, RedriveNext
<1>13. ASSUME NEW f \in L
       PROVE  /\ f.seq <= headSeq
              /\ f.outcome \in {"done", "skip"} =>
                   \A d \in Docs : Carries(d, f.seq, doc) /\ Matches(doc[d]) => In(s, f.seq)
  <2>1. CASE f \in redrive.led
    <3>1. /\ f.seq <= headSeq
          /\ f.outcome \in {"done", "skip"} =>
               \A d \in Docs : Carries(d, f.seq, doc) /\ Matches(doc[d]) => In(z, f.seq)
      BY <1>1, <2>1
    <3>2. \A x : In(z, x) => In(s, x)  BY <1>8
    <3> HIDE DEF z
    <3> QED  BY <3>1, <3>2
  <2>2. CASE f = e
    <3>1. f.seq = c.seq /\ f.outcome = r /\ c.seq <= headSeq  BY <1>3, <1>5, <2>2 DEF Tells
    <3>2. r = "skip" => \A d \in Docs : ~(Carries(d, c.seq, doc) /\ Matches(doc[d]))
      BY <1>3, <1>4 DEF Tells, c
    <3> QED  BY <1>8, <3>1, <3>2
  <2> QED  BY <1>10, <2>1, <2>2
<1> QED  BY <1>1, <1>2, <1>3, <1>8, <1>11, <1>12, <1>13 DEF RedriveOK

(* Outputs of the re-drive are written, and whoever waited under one of    *)
(* their numbers has its output now.                                       *)
LEMMA RedriveFlushes ==
  ASSUME Inv, RedriveFlush
  PROVE  Grows /\ RedriveOK'
<1> DEFINE z == redrive.staged
<1>1. /\ redrive.pc = "flush" /\ redrive \in Redrives /\ redrive.todo \in Seq(Change)
      /\ z \in Seq(Change) /\ redrive.led \in SUBSET Leds /\ redrive.page \in Seq(Seqs)
      /\ AllTell(redrive.todo, doc, headSeq) /\ AllTell(z, doc, headSeq) /\ AllMatch(z)
      /\ \A i \in 1..Len(redrive.page) : redrive.page[i] <= headSeq
      /\ \A f \in redrive.led :
           /\ f.seq <= headSeq
           /\ f.outcome \in {"done", "skip"} =>
                \A d \in Docs : Carries(d, f.seq, doc) /\ Matches(doc[d]) => In(z, f.seq)
      /\ Corpus
  BY RedriveTypes DEF RedriveFlush, RAt, Inv, RedriveOK
<1>2. /\ Grows
      /\ \A d \in Docs : Matches(doc'[d]) =>
           doc'[d] = doc[d] /\ \A i \in 1..Len(z) : z[i].doc # d
  BY <1>1, Written DEF RedriveFlush
<1>3. Renumbers /\ headSeq' \in Nat /\ headSeq \in Nat /\ headSeq <= headSeq'
  <2>1. Renumbers  BY <1>1, <1>2, GrowsRenumbers
  <2>2. headSeq' \in Nat  BY <1>2 DEF Grows, headSeq
  <2> QED  BY <1>1, <2>1, <2>2, HeadNat DEF Renumbers
<1>4. AllTell(redrive.todo, doc', headSeq')  BY <1>1, <1>3, AllTellOn
<1>5. \A i \in 1..Len(redrive.page) : redrive.page[i] <= headSeq'
  <2> SUFFICES ASSUME NEW i \in 1..Len(redrive.page) PROVE redrive.page[i] <= headSeq'  OBVIOUS
  <2>1. redrive.page[i] \in Seqs /\ redrive.page[i] <= headSeq  BY <1>1
  <2>2. redrive.page[i] \in Nat  BY <2>1, BoundsAssumption DEF Seqs
  <2> QED  BY <1>3, <2>1, <2>2
<1>6. ASSUME NEW f \in redrive.led
      PROVE  /\ f.seq <= headSeq'
             /\ f.outcome \in {"done", "skip"} =>
                  \A d \in Docs : ~(Carries(d, f.seq, doc') /\ Matches(doc'[d]))
  <2>1. f.seq \in Nat /\ f.seq <= headSeq  BY <1>1, BoundsAssumption DEF Leds, Seqs
  <2>2. ASSUME f.outcome \in {"done", "skip"}, NEW d \in Docs, Carries(d, f.seq, doc'), Matches(doc'[d])
        PROVE  FALSE
    <3>1. doc'[d] = doc[d] /\ \A i \in 1..Len(z) : z[i].doc # d  BY <1>2, <2>2
    <3>2. Carries(d, f.seq, doc) /\ Matches(doc[d])  BY <2>2, <3>1 DEF Carries
    <3>3. In(z, f.seq)  BY <1>1, <2>2, <3>2
    <3>4. PICK i \in 1..Len(z) : z[i].seq = f.seq  BY <3>3 DEF In
    <3>5. z[i].doc = d  BY <1>1, <3>2, <3>4 DEF AllTell, Tells
    <3> QED  BY <3>1, <3>5
  <2>3. f.seq <= headSeq'  BY <1>3, <2>1
  <2> QED  BY <2>2, <2>3
<1>7. CASE redrive' = RedriveIdle  BY <1>2, <1>7, RedriveEnded
<1>8. CASE redrive' = [redrive EXCEPT !.staged = <<>>, !.pc = IF redrive.todo = <<>> THEN "record" ELSE "work"]
  <2> DEFINE p == IF redrive.todo = <<>> THEN "record" ELSE "work"
             e == <<>>
  <2>1. redrive' = [redrive EXCEPT !.staged = e, !.pc = p]  BY <1>8
  <2>2. e \in Seq(Change) /\ p \in {"record", "work"} /\ (p = "work" => redrive.todo # <<>>)
        /\ (p = "record" => redrive.todo = <<>>)  OBVIOUS
  <2> HIDE DEF p, e
  <2>3. redrive' \in Redrives  BY <1>1, <2>1, <2>2 DEF Redrives
  <2>4. /\ redrive'.todo = redrive.todo /\ redrive'.staged = e /\ redrive'.led = redrive.led
        /\ redrive'.page = redrive.page /\ redrive'.pc = p
    BY <1>1, <2>1 DEF Redrives
  <2>5. e = <<>>  BY DEF e
  <2>6. RedriveOK'
    BY <1>4, <1>5, <1>6, <2>2, <2>3, <2>4, <2>5 DEF RedriveOK, AllTell, AllMatch
  <2> QED  BY <1>2, <2>6
<1> QED  BY <1>7, <1>8 DEF RedriveFlush, RServed, EndRedrive

(* The page's outcomes are recorded (the statement after the flush).       *)
LEMMA RedriveRecords ==
  ASSUME Inv, RedriveRecord
  PROVE  RedriveOK'
<1>1. /\ redrive.pc = "record" /\ redrive \in Redrives /\ redrive.todo = <<>> /\ redrive.staged = <<>>
      /\ redrive.page \in Seq(Seqs)
      /\ \A i \in 1..Len(redrive.page) : redrive.page[i] <= headSeq
  BY RedriveTypes DEF RedriveRecord, RAt, Inv, RedriveOK
<1>2. headSeq' = headSeq  BY DEF RedriveRecord, headSeq
<1>3. CASE redrive' = RedriveIdle  BY <1>3, RedriveEnded
<1>4. CASE redrive' = [redrive EXCEPT !.led = {}, !.pc = "list"]
  <2> DEFINE L == SUBSET [seq : Seqs, outcome : Outcomes]
             n == {}
  <2>1. n \in L /\ redrive' = [redrive EXCEPT !.led = n, !.pc = "list"]  BY <1>4
  <2> HIDE DEF n
  <2>2. redrive' \in Redrives  BY <1>1, <2>1 DEF Redrives
  <2>3. /\ redrive'.todo = <<>> /\ redrive'.staged = <<>> /\ redrive'.led = n
        /\ redrive'.page = redrive.page /\ redrive'.pc = "list"
    BY <1>1, <2>1 DEF Redrives
  <2>4. n = {}  BY DEF n
  <2> QED  BY <1>1, <1>2, <2>2, <2>3, <2>4 DEF RedriveOK, AllTell, AllMatch
<1> QED  BY <1>3, <1>4 DEF RedriveRecord, RServed, EndRedrive

(* A step of another party leaves what a re-drive holds true.              *)
LEMMA RedriveStays ==
  ASSUME Inv, UNCHANGED <<doc, redrive>>, headSeq' = headSeq
  PROVE  RedriveOK'
<1>1. headSeq \in Nat  BY HeadNat DEF Inv
<1>2. headSeq' \in Nat /\ headSeq <= headSeq'  BY <1>1
<1>3. Renumbers  BY <1>2 DEF Renumbers
<1> QED  BY <1>2, <1>3, RedriveOn DEF Inv

(* A step of another party leaves where the loop is and what it has read.  *)
LEMMA TailStays ==
  ASSUME Inv, UNCHANGED <<doc, tail, row, seedRow>>, headSeq' = headSeq
  PROVE  TailInv'
<1>1. headSeq \in Nat  BY HeadNat DEF Inv
<1>2. headSeq' \in Nat /\ headSeq <= headSeq'  BY <1>1
<1>3. Renumbers  BY <1>2 DEF Renumbers
<1> QED  BY <1>2, <1>3, TailGrows

-----------------------------------------------------------------------------
(* Every step keeps what is known.                                         *)

(* A step that attaches nobody and ends the loop or not keeps who is       *)
(* attached.                                                               *)
LEMMA FlagsOn ==
  ASSUME Flags, \/ Settle
                \/ KeepRun /\ (tail'.pc = "off" \/ tail.pc # "off"),
         faults' = faults \/ (faults < MaxFaults /\ faults' = faults + 1)
  PROVE  Flags'
<1>1. faults' \in 0..MaxFaults  BY BoundsAssumption DEF Flags
<1>2. CASE Settle
  <2>1. tail'.pc = "off"  BY <1>2 DEF Settle, TailOff
  <2> QED  BY <1>1, <1>2, <2>1 DEF Flags, Settle
<1>3. CASE KeepRun /\ (tail'.pc = "off" \/ tail.pc # "off")
  BY <1>1, <1>3 DEF Flags, KeepRun
<1> QED  BY <1>2, <1>3

(* So does a store call of the loop, served or failed.                     *)
LEMMA FlagsServed ==
  ASSUME Flags, tail \in Tails, tail.pc # "off", NEW t, Served(t)
  PROVE  Flags'
<1>1. CASE tail' = t /\ KeepRun /\ UNCHANGED faults  BY <1>1, FlagsOn
<1>2. CASE faults < MaxFaults /\ faults' = faults + 1 /\ Caught
  BY <1>2, FlagsOn, Catches
<1> QED  BY <1>1, <1>2 DEF Served

(* A step that writes no row keeps the rows and the prune.                 *)
LEMMA DurableStays ==
  ASSUME Inv, UNCHANGED <<durable, prune, redrive>>
  PROVE  Corpus' /\ Marks' /\ Pruned' /\ RedriveOK'
<1>1. UNCHANGED <<doc, log, cutoff, row, seedRow, floor, ledger>>  BY DEF durable
<1>2. Corpus' /\ Grows /\ headSeq' = headSeq /\ headSeq' \in Nat  BY <1>1, SameCorpus
<1>3. Marks'  BY <1>1, <1>2, MarksGrow DEF Inv
<1>4. headSeq <= headSeq'  BY <1>2
<1>5. Pruned'  BY <1>1, <1>2, <1>4, PrunedOn DEF Inv
<1>6. RedriveOK'  BY <1>1, <1>2, RedriveStays
<1> QED  BY <1>2, <1>3, <1>5, <1>6

(* The loop's reads, its work and its failures: nothing is written.        *)
LEMMA QuietSteps ==
  ASSUME Inv, \/ TailAborts \/ Backoff \/ SeedCheck \/ SeedHead \/ ReadSeedPage \/ SeedWork
              \/ SeedWorked \/ FeedRows \/ FeedDocs \/ FeedEmpty \/ FeedWake \/ WorkChange
             \/ Admit
              \/ TailCallFails \/ TailReadOnly \/ Attach
  PROVE  Inv'
<1>1. UNCHANGED <<durable, prune, redrive>>
  BY DEF TailAborts, Backoff, SeedCheck, SeedHead, ReadSeedPage, SeedWork, SeedWorked, FeedRows,
         FeedDocs, FeedEmpty, FeedWake, WorkChange, Admit, TailCallFails, TailReadOnly, Attach
<1>2. Corpus' /\ Marks' /\ Pruned' /\ RedriveOK'  BY <1>1, DurableStays
<1>3. TailInv'
  BY GoesOn, SeedPageStep, SeedWorkStep, SeedWorkedStep, FeedRowsStep, FeedDocsStep,
     WorkChangeStep, LoopMoves
<1>4. Flags'
  <2>1. CASE \/ Backoff \/ SeedCheck \/ SeedHead \/ ReadSeedPage \/ SeedWork
             \/ SeedWorked \/ FeedRows \/ FeedDocs \/ FeedEmpty \/ FeedWake \/ WorkChange
             \/ Admit
    <3>1. tail.pc # "off" /\ KeepRun /\ UNCHANGED faults
      BY <2>1 DEF Backoff, SeedCheck, SeedHead, ReadSeedPage, SeedWork, SeedWorked, FeedRows,
                  FeedDocs, FeedEmpty, FeedWake, WorkChange, Admit, At
    <3> QED  BY <3>1, FlagsOn DEF Inv
  <2>2. CASE TailAborts
    <3>1. Settle /\ UNCHANGED faults  BY <2>2 DEF TailAborts
    <3> QED  BY <3>1, FlagsOn DEF Inv
  <2>3. CASE TailCallFails
    <3>1. tail.pc # "off" /\ faults < MaxFaults /\ faults' = faults + 1 /\ Caught /\ tail \in Tails
      BY <2>3 DEF TailCallFails, Inv, TailShape
    <3>2. Settle \/ KeepRun  BY <3>1, Catches
    <3> QED  BY <3>1, <3>2, FlagsOn DEF Inv
  <2>4. CASE TailReadOnly
    <3>1. tail.pc # "off" /\ faults < MaxFaults /\ faults' = faults + 1 /\ (Settle \/ KeepRun)
      BY <2>4 DEF TailReadOnly
    <3> QED  BY <3>1, FlagsOn DEF Inv
  <2>5. CASE Attach  BY <2>5 DEF Attach, Inv, Flags
  <2> QED  BY <2>1, <2>2, <2>3, <2>4, <2>5
<1> QED  BY <1>2, <1>3, <1>4 DEF Inv, TailInv

(* A seed begins or ends.                                                  *)
LEMMA SeedRowSteps ==
  ASSUME Inv, SeedBegin \/ SeedEnd
  PROVE  Inv' /\ (row # None /\ row' # None => row <= row')
<1>0. /\ UNCHANGED <<doc, log, cutoff, floor, ledger, prune, redrive>> /\ tail \in Tails
      /\ tail.pc \in {"seedBegin", "seedEnd"}
  BY DEF SeedBegin, SeedEnd, At, Inv, TailShape
<1>1. Corpus' /\ Grows /\ headSeq' = headSeq /\ headSeq' \in Nat /\ headSeq <= headSeq'
  BY <1>0, SameCorpus
<1>2. /\ row' = row \/ (row' \in 0..MaxSeq /\ row' <= headSeq)
      /\ seedRow' \in 0..MaxSeq \cup {None}
      /\ row # None /\ row' # None => row <= row'
  <2>1. CASE SeedBegin
    <3>1. row' = tail.h0 /\ seedRow' = 0 /\ tail.h0 <= headSeq /\ (row # None => row <= tail.h0)
      BY <2>1 DEF SeedBegin, At, Inv, TailShape
    <3> QED  BY <1>0, <3>1, TailTypes, BoundsAssumption
  <2>2. CASE SeedEnd
    <3>1. row' = row /\ seedRow' = None  BY <2>2 DEF SeedEnd
    <3>2. row # None => row <= row  BY BoundsAssumption DEF Inv, Marks
    <3> QED  BY <3>1, <3>2
  <2> QED  BY <2>1, <2>2
<1>3. Marks'
  <2>1. ledger' \in [Seqs -> Outcomes \cup {None}] /\ \A s \in Seqs : ledger'[s] # None => ledger[s] # None
    BY <1>0 DEF Inv, Marks
  <2>2. UNCHANGED <<cutoff, floor>>  BY <1>0
  <2> QED  BY <1>1, <1>2, <2>1, <2>2, MarksMove DEF Inv
<1>4. Pruned'  BY <1>0, <1>1, PrunedOn DEF Inv
<1>5. RedriveOK'  BY <1>0, <1>1, RedriveStays
<1>6. TailInv'  BY SeedBeginStep, SeedEndStep
<1>7. Flags'  BY <1>0, FlagsServed DEF SeedBegin, SeedEnd, Inv
<1> QED  BY <1>1, <1>2, <1>3, <1>4, <1>5, <1>6, <1>7 DEF Inv, TailInv

(* A change of the batch was worked: its outcome is recorded at once.      *)
LEMMA ChangeWorkedInv ==
  ASSUME Inv, ChangeWorked
  PROVE  Inv'
<1> DEFINE c == Head(tail.todo)
<1>0. /\ UNCHANGED <<doc, log, cutoff, row, seedRow, floor, prune, redrive>> /\ tail \in Tails
      /\ tail.pc = "busy" /\ tail.todo # <<>>
  BY DEF ChangeWorked, At, Inv, TailShape
<1>1. Corpus' /\ Grows /\ headSeq' = headSeq /\ headSeq' \in Nat /\ headSeq <= headSeq'
  BY <1>0, SameCorpus
<1>2. c.seq \in Seqs /\ c.seq <= headSeq
  <2>1. c \in Change /\ Tells(c, doc, headSeq)
    BY <1>0, TailTypes, Shifted DEF Inv, TailReads
  <2> HIDE DEF c
  <2> QED  BY <2>1, ChangeTypes DEF Tells
<1>3. PICK r \in {"done", "deferred", "failed"} : ledger' = [ledger EXCEPT ![c.seq] = r]
  BY DEF ChangeWorked
<1>4. Marks'
  <2> HIDE DEF c
  <2>1. ledger \in [Seqs -> Outcomes \cup {None}]  BY DEF Inv, Marks
  <2>2. /\ ledger' \in [Seqs -> Outcomes \cup {None}]
        /\ \A s \in Seqs : ledger'[s] # None => ledger[s] # None \/ s <= headSeq
    BY <1>2, <1>3, <2>1 DEF Outcomes
  <2>3. UNCHANGED <<cutoff, floor, row>> /\ seedRow' \in 0..MaxSeq \cup {None}  BY <1>0 DEF Inv, Marks
  <2> QED  BY <1>1, <2>2, <2>3, MarksMove DEF Inv
<1>5. Pruned'  BY <1>0, <1>1, PrunedOn DEF Inv
<1>6. RedriveOK'  BY <1>0, <1>1, RedriveStays
<1>7. TailInv'  BY ChangeWorkedStep
<1>8. Flags'  BY <1>0, FlagsServed DEF ChangeWorked, Inv
<1> QED  BY <1>1, <1>4, <1>5, <1>6, <1>7, <1>8 DEF Inv, TailInv

(* A commit of the loop: outputs, and the cursor or the ledger with them.  *)
LEMMA CommitInv ==
  ASSUME Inv, Commit
  PROVE  Inv' /\ (row # None /\ row' # None => row <= row')
<1>0. /\ UNCHANGED <<cutoff, seedRow, floor, ledger, prune, redrive>> /\ tail \in Tails
      /\ tail.pc = "commit" /\ Corpus
  BY DEF Commit, At, Inv, TailShape
<1>1. Grows
  <2>1. tail.staged \in Seq(Change) /\ AllMatch(tail.staged) /\ AllTell(tail.staged, doc, headSeq)
    BY <1>0, TailTypes DEF Inv, TailReads
  <2> QED  BY <1>0, <2>1, Written DEF Commit
<1>2. Renumbers /\ headSeq' \in Nat /\ headSeq <= headSeq' /\ Corpus'
  BY <1>0, <1>1, GrowsRenumbers, CorpusGrows DEF Grows, headSeq
<1>3. TailInv' /\ row' \in 0..MaxSeq /\ row' <= headSeq /\ row <= row'  BY CommitStep
<1>4. Marks'
  <2>1. seedRow' \in 0..MaxSeq \cup {None} /\ ledger' \in [Seqs -> Outcomes \cup {None}]
        /\ \A s \in Seqs : ledger'[s] # None => ledger[s] # None \/ s <= headSeq
    BY <1>0 DEF Inv, Marks
  <2>2. UNCHANGED <<cutoff, floor>>  BY <1>0
  <2> QED  BY <1>1, <1>3, <2>1, <2>2, MarksMove DEF Inv
<1>5. Pruned'  BY <1>0, <1>2, PrunedOn DEF Inv
<1>6. RedriveOK'  BY <1>0, <1>2, RedriveOn DEF Inv
<1>7. Flags'  BY <1>0, FlagsServed DEF Commit, Inv
<1> QED  BY <1>2, <1>3, <1>4, <1>5, <1>6, <1>7 DEF Inv, TailInv

(* The flush of a seed's page keeps the invariant.                         *)
LEMMA SeedCommitInv ==
  ASSUME Inv, SeedCommit
  PROVE  Inv'
<1>0. /\ UNCHANGED <<cutoff, row, floor, prune, redrive>> /\ tail \in Tails
      /\ tail.pc = "seedCommit" /\ Corpus /\ ledger' = LedgerWith(tail.led)
  BY DEF SeedCommit, At, Inv, TailShape
<1>1. Grows
  <2>1. tail.staged \in Seq(Change) /\ AllMatch(tail.staged) /\ AllTell(tail.staged, doc, headSeq)
    BY <1>0, TailTypes DEF Inv, TailReads
  <2> QED  BY <1>0, <2>1, Written DEF SeedCommit
<1>2. Renumbers /\ headSeq' \in Nat /\ headSeq <= headSeq' /\ Corpus'
  BY <1>0, <1>1, GrowsRenumbers, CorpusGrows DEF Grows, headSeq
<1>3. TailInv'  BY SeedCommitStep
<1>4. Marks'
  <2>1. /\ ledger' \in [Seqs -> Outcomes \cup {None}]
        /\ \A s \in Seqs : ledger'[s] # None => ledger[s] # None \/ s <= headSeq
    BY <1>0, TailTypes, LedgerTypes DEF Inv, TailReads
  <2>2. seedRow' \in 0..MaxSeq \cup {None}
    BY <1>0, TailTypes DEF SeedCommit, Inv, Marks
  <2>3. UNCHANGED <<cutoff, floor, row>>  BY <1>0
  <2> QED  BY <1>1, <2>1, <2>2, <2>3, MarksMove DEF Inv
<1>5. Pruned'  BY <1>0, <1>2, PrunedOn DEF Inv
<1>6. RedriveOK'  BY <1>0, <1>2, RedriveOn DEF Inv
<1>7. Flags'  BY <1>0, FlagsServed DEF SeedCommit, Inv
<1> QED  BY <1>2, <1>3, <1>4, <1>5, <1>6, <1>7 DEF Inv, TailInv

(* The re-drive's steps.                                                   *)
LEMMA RedriveSteps ==
  ASSUME Inv, RedriveStep \/ RedriveStart \/ RedriveEnds
  PROVE  Inv'
<1>0. Corpus /\ Flags  BY DEF Inv
<1>1. CASE RedriveFlush
  <2>1. Grows /\ RedriveOK'  BY <1>1, RedriveFlushes
  <2>2. Renumbers /\ headSeq' \in Nat /\ headSeq <= headSeq' /\ Corpus'
    BY <1>0, <2>1, GrowsRenumbers, CorpusGrows DEF Grows, headSeq
  <2>3. UNCHANGED <<cutoff, row, seedRow, floor, ledger, prune>> /\ KeepRun
        /\ tail' \in {tail, Woken(tail)}
    BY <1>1 DEF RedriveFlush
  <2>4. Marks'  BY <2>1, <2>3, MarksGrow DEF Inv
  <2>5. Pruned'  BY <1>0, <2>2, <2>3, PrunedOn DEF Inv
  <2>6. TailInv'  BY <2>2, <2>3, TailGrows
  <2>7. tail'.pc = tail.pc  BY <2>3, WokenIs DEF Inv, TailShape
  <2>8. faults' = faults \/ (faults < MaxFaults /\ faults' = faults + 1)
    BY <1>1 DEF RedriveFlush, RServed
  <2>9. Flags'  BY <1>0, <2>3, <2>7, <2>8, FlagsOn
  <2> QED  BY <2>1, <2>2, <2>4, <2>5, <2>6, <2>9 DEF Inv, TailInv
<1>2. CASE RedriveRecord
  <2>1. UNCHANGED <<doc, log, cutoff, row, seedRow, floor, tail, prune>> /\ KeepRun
        /\ ledger' = LedgerWith(redrive.led)
    BY <1>2 DEF RedriveRecord
  <2>2. Corpus' /\ Grows /\ headSeq' = headSeq /\ headSeq' \in Nat /\ headSeq <= headSeq'
    BY <2>1, SameCorpus
  <2>3. /\ ledger' \in [Seqs -> Outcomes \cup {None}]
        /\ \A s \in Seqs : ledger'[s] # None => ledger[s] # None \/ s <= headSeq
    <3>1. redrive.led \in SUBSET Leds /\ \A e \in redrive.led : e.seq <= headSeq
      BY RedriveTypes DEF Inv, RedriveOK
    <3> QED  BY <2>1, <3>1, LedgerTypes DEF Inv
  <2>4. Marks'
    <3>1. UNCHANGED <<cutoff, floor, row>> /\ seedRow' \in 0..MaxSeq \cup {None}
      BY <2>1 DEF Inv, Marks
    <3> QED  BY <1>0, <2>2, <2>3, <3>1, MarksMove DEF Inv
  <2>5. Pruned'  BY <1>0, <2>1, <2>2, PrunedOn DEF Inv
  <2>6. TailInv'  BY <2>1, <2>2, TailStays
  <2>7. RedriveOK'  BY <1>2, RedriveRecords
  <2>8. faults' = faults \/ (faults < MaxFaults /\ faults' = faults + 1)
    BY <1>2 DEF RedriveRecord, RServed
  <2>9. Flags'  BY <1>0, <2>1, <2>8, FlagsOn
  <2> QED  BY <2>2, <2>4, <2>5, <2>6, <2>7, <2>9 DEF Inv, TailInv
<1>3. CASE RedriveList \/ RedriveResolve \/ RedriveWork \/ RedriveStart \/ RedriveEnds
  <2>1. UNCHANGED <<durable, tail, prune>> /\ KeepRun
        /\ (faults' = faults \/ (faults < MaxFaults /\ faults' = faults + 1))
    BY <1>3 DEF RedriveList, RedriveResolve, RedriveWork, RedriveStart, RedriveEnds
  <2>2. UNCHANGED <<doc, log, cutoff, row, seedRow, floor, ledger>>  BY <2>1 DEF durable
  <2>3. Corpus' /\ Grows /\ headSeq' = headSeq /\ headSeq' \in Nat /\ headSeq <= headSeq'
    BY <2>2, SameCorpus
  <2>4. Marks'  BY <1>0, <2>2, <2>3, MarksGrow DEF Inv
  <2>5. Pruned'  BY <1>0, <2>1, <2>2, <2>3, PrunedOn DEF Inv
  <2>6. TailInv'  BY <2>1, <2>2, <2>3, TailStays
  <2>7. RedriveOK'
    <3>1. CASE RedriveEnds
      <4>1. redrive' = RedriveIdle  BY <3>1 DEF RedriveEnds, EndRedrive
      <4> QED  BY <4>1, RedriveEnded
    <3> QED  BY <1>3, <3>1, RedriveLists, RedriveResolves, RedriveWorks, RedriveStarts
  <2>8. Flags'  BY <1>0, <2>1, FlagsOn
  <2> QED  BY <2>3, <2>4, <2>5, <2>6, <2>7, <2>8 DEF Inv, TailInv
<1> QED  BY <1>1, <1>2, <1>3 DEF RedriveStep

(* The least of a few numbers.                                             *)
LEMMA Min3 ==
  ASSUME NEW a \in Nat, NEW b \in Nat, NEW c \in Nat
  PROVE  Min({a, b, c}) \in Nat /\ Min({a, b, c}) <= a /\ Min({a, b, c}) <= b /\ Min({a, b, c}) <= c
<1>1. {a, b, c} \in SUBSET Nat /\ {a, b, c} # {}  OBVIOUS
<1>2. Min({a, b, c}) \in {a, b, c} /\ \A m \in {a, b, c} : Min({a, b, c}) <= m  BY <1>1, LeastOf
<1> QED  BY <1>2

(* The greater of two numbers: the floor never goes back (MAX in the       *)
(* upsert).                                                                *)
LEMMA Max2 ==
  ASSUME NEW n \in Nat, NEW a \in 0..n, NEW b \in 0..n
  PROVE  Max({a, b}) \in 0..n /\ a <= Max({a, b}) /\ b <= Max({a, b}) /\ Max({a, b}) \in {a, b}
<1>1. {a, b} \in SUBSET (0..n) /\ {a, b} # {}  OBVIOUS
<1>2. Max({a, b}) \in {a, b} /\ \A m \in {a, b} : m <= Max({a, b})  BY <1>1, GreatestOf
<1> QED  BY <1>2

(* The lowest cursor of the attached workers (consumerFloor).              *)
LEMMA FloorOf ==
  ASSUME Inv, NEW f \in ActiveFloors
  PROVE  f \in 0..MaxSeq /\ f <= headSeq /\ (attached /\ row # None => f <= row)
<1> DEFINE mine == IF attached /\ row # None THEN {row} ELSE {}
           O == {{x} : x \in IF others = "none" THEN {} ELSE 0..headSeq}
                  \cup (IF mine # {} THEN {{}} ELSE {})
<1>1. headSeq \in Nat /\ headSeq <= MaxSeq /\ MaxSeq \in Nat
  BY HeadNat, BoundsAssumption DEF Inv, Corpus, CorpusTypes
<1>2. mine \in SUBSET (0..headSeq) /\ (attached /\ row # None => row \in mine)
  <2>1. row # None => row \in 0..MaxSeq /\ row <= headSeq  BY DEF Inv, Marks
  <2> QED  BY <1>1, <2>1
<1>3. PICK o \in O : f = Min(mine \cup o)  BY DEF ActiveFloors
<1>4. o \in SUBSET (0..headSeq) /\ mine \cup o # {}  BY <1>3
<1> DEFINE T == mine \cup o
<1>5. T \in SUBSET Nat /\ T # {} /\ T \in SUBSET (0..headSeq) /\ f = Min(T) /\ mine \in SUBSET T
  <2> HIDE DEF mine, O
  <2> QED  BY <1>1, <1>2, <1>3, <1>4
<1> HIDE DEF T
<1>6. f \in T /\ \A m \in T : f <= m  BY <1>5, LeastOf
<1>7. f \in 0..headSeq  BY <1>5, <1>6
<1>8. attached /\ row # None => f <= row  BY <1>2, <1>5, <1>6
<1> QED  BY <1>1, <1>7, <1>8

(* The prune's steps: it publishes what it will delete below, and deletes  *)
(* change rows only (pruneChangesOnce).                                    *)
LEMMA PruneSteps ==
  ASSUME Inv, PruneStep
  PROVE  Inv'
<1>0. /\ Corpus /\ Flags /\ headSeq \in Nat /\ headSeq <= MaxSeq /\ MaxSeq \in Nat
      /\ prune \in Prunes /\ prune.limit \in Nat /\ floor \in Nat /\ floor <= headSeq /\ cutoff \in Nat
  BY HeadNat, BoundsAssumption DEF Inv, Corpus, CorpusTypes, Marks, Pruned, Prunes
<1>1. UNCHANGED <<doc, cutoff, row, seedRow, ledger, tail, redrive, faults>> /\ KeepRun
  BY DEF PruneStep, PruneFloor, PruneLimits, PrunePublish, PruneDelete, durable
<1>2. Flags'  BY <1>0, <1>1, FlagsOn
<1>3. CASE PruneFloor
  <2>1. UNCHANGED <<log, floor>>  BY <1>3 DEF PruneFloor, durable
  <2>2. Corpus' /\ Grows /\ headSeq' = headSeq /\ headSeq' \in Nat /\ headSeq <= headSeq'
    BY <1>0, <1>1, <2>1, SameCorpus
  <2>3. Marks'  BY <1>0, <1>1, <2>1, <2>2, MarksGrow DEF Inv
  <2>4. PICK f \in ActiveFloors : prune' = [pc |-> "limits", limit |-> f]  BY <1>3 DEF PruneFloor
  <2>5. f \in 0..MaxSeq  BY FloorOf
  <2>6. Pruned'  BY <2>4, <2>5 DEF Pruned, Prunes
  <2>7. TailInv' /\ RedriveOK'  BY <1>1, <2>2, TailStays, RedriveStays
  <2> QED  BY <1>2, <2>2, <2>3, <2>6, <2>7 DEF Inv, TailInv
<1>4. CASE PruneLimits
  <2>1. UNCHANGED <<log, floor>>  BY <1>4 DEF PruneLimits, durable
  <2>2. Corpus' /\ Grows /\ headSeq' = headSeq /\ headSeq' \in Nat /\ headSeq <= headSeq'
    BY <1>0, <1>1, <2>1, SameCorpus
  <2>3. Marks'  BY <1>0, <1>1, <2>1, <2>2, MarksGrow DEF Inv
  <2> DEFINE l == Min({prune.limit, cutoff, headSeq})
  <2>4. prune' = [pc |-> "publish", limit |-> l]  BY <1>4 DEF PruneLimits
  <2>5. l \in Nat /\ l <= headSeq  BY <1>0, Min3
  <2> HIDE DEF l
  <2>6. l \in 0..MaxSeq /\ l <= headSeq'  BY <1>0, <2>2, <2>5
  <2>7. Pruned'  BY <2>4, <2>6 DEF Pruned, Prunes
  <2>8. TailInv' /\ RedriveOK'  BY <1>1, <2>2, TailStays, RedriveStays
  <2> QED  BY <1>2, <2>2, <2>3, <2>7, <2>8 DEF Inv, TailInv
<1>5. CASE PrunePublish
  <2>1. UNCHANGED log /\ PAt("publish") /\ prune' = [prune EXCEPT !.pc = "delete"]
        /\ floor' = Max({floor, prune.limit})
    BY <1>5 DEF PrunePublish
  <2>2. Corpus' /\ Grows /\ headSeq' = headSeq /\ headSeq' \in Nat /\ headSeq <= headSeq'
    BY <1>0, <1>1, <2>1, SameCorpus
  <2>3. prune.limit <= headSeq  BY <2>1 DEF Inv, Pruned, PAt
  <2>4. floor' \in 0..headSeq /\ floor <= floor' /\ prune.limit <= floor'
    <3>1. floor \in 0..headSeq /\ prune.limit \in 0..headSeq  BY <1>0, <2>3
    <3> QED  BY <1>0, <2>1, <3>1, Max2
  <2>5. floor' \in 0..MaxSeq /\ floor' <= headSeq'  BY <1>0, <2>2, <2>4
  <2>6. Marks'
    <3>1. \A s \in 1..headSeq : log[s] = Gone => s < floor'
      <4> SUFFICES ASSUME NEW s \in 1..headSeq, log[s] = Gone PROVE s < floor'  OBVIOUS
      <4>1. s < floor /\ s \in Nat  BY <1>0 DEF Inv, Marks
      <4> QED  BY <1>0, <2>4, <4>1
    <3> QED  BY <1>1, <2>1, <2>2, <2>5, <3>1 DEF Inv, Marks
  <2>7. Pruned'
    <3>1. prune' \in Prunes /\ prune'.limit = prune.limit /\ prune'.pc = "delete"
      BY <1>0, <2>1 DEF Prunes
    <3> QED  BY <2>2, <2>3, <2>4, <3>1 DEF Pruned
  <2>8. TailInv' /\ RedriveOK'  BY <1>1, <2>2, TailStays, RedriveStays
  <2> QED  BY <1>2, <2>2, <2>6, <2>7, <2>8 DEF Inv, TailInv
<1>6. CASE PruneDelete
  <2> DEFINE below == {s \in DOMAIN log : s < prune.limit /\ log[s] # Gone}
             m == Min(below)
  <2>0. UNCHANGED floor /\ PAt("delete")  BY <1>6 DEF PruneDelete
  <2>1. CASE below = {} /\ prune' = PruneIdle /\ UNCHANGED log
    <3>1. Corpus' /\ Grows /\ headSeq' = headSeq /\ headSeq' \in Nat /\ headSeq <= headSeq'
      BY <1>0, <1>1, <2>1, SameCorpus
    <3>2. Marks'  BY <1>0, <1>1, <2>0, <2>1, <3>1, MarksGrow DEF Inv
    <3>3. Pruned'  BY <1>0, <2>0, <2>1, <3>1, PrunedOn DEF Inv
    <3>4. TailInv' /\ RedriveOK'  BY <1>1, <3>1, TailStays, RedriveStays
    <3> QED  BY <1>2, <3>1, <3>2, <3>3, <3>4 DEF Inv, TailInv
  <2>2. CASE below # {} /\ prune' = prune /\ log' = [log EXCEPT ![m] = Gone]
    <3> DEFINE T == Docs \cup {Noise, Gone}
    <3>1. DOMAIN log = 1..headSeq /\ log \in Seq(T)  BY <1>0 DEF Inv, Corpus, CorpusTypes, headSeq
    <3>2. below \in SUBSET Nat  BY <3>1
    <3>3. m \in below
      <4> HIDE DEF below
      <4> QED  BY <2>2, <3>2, LeastOf
    <3>4. m \in 1..headSeq /\ m < prune.limit /\ prune.limit <= floor
      BY <2>0, <3>1, <3>3 DEF Inv, Pruned, PAt
    <3> HIDE DEF m, below
    <3>5. log' \in Seq(T) /\ Len(log') = Len(log) /\ log'[m] = Gone
          /\ \A s \in 1..headSeq : s # m => log'[s] = log[s]
      <4>1. Gone \in T  OBVIOUS
      <4> HIDE DEF T
      <4> QED  BY <2>2, <3>1, <3>4, <4>1 DEF headSeq
    <3>6. headSeq' = headSeq  BY <3>5 DEF headSeq
    <3>7. Corpus'
      <4>1. CorpusTypes'  BY <1>0, <1>1, <3>5, <3>6 DEF Inv, Corpus, CorpusTypes
      <4>2. ASSUME NEW d \in Docs, doc[d].st # "none"
            PROVE  doc[d].seq \in 1..headSeq /\ doc[d].src # 0 /\ log'[doc[d].seq] \in {d, Gone}
        <5>1. doc[d].seq \in 1..headSeq /\ doc[d].src # 0 /\ log[doc[d].seq] \in {d, Gone}
          BY <4>2 DEF Inv, Corpus
        <5> QED  BY <3>5, <5>1
      <4>3. doc' = doc  BY <1>1
      <4> QED  BY <3>6, <4>1, <4>2, <4>3 DEF Inv, Corpus, Carries
    <3>8. Marks'
      <4>1. \A s \in 1..headSeq : log'[s] = Gone => s < floor
        <5> SUFFICES ASSUME NEW s \in 1..headSeq, log'[s] = Gone PROVE s < floor  OBVIOUS
        <5>1. CASE s = m  BY <1>0, <3>4, <5>1
        <5>2. CASE s # m  BY <3>5, <5>2 DEF Inv, Marks
        <5> QED  BY <5>1, <5>2
      <4> QED  BY <1>1, <2>0, <3>6, <4>1 DEF Inv, Marks
    <3>9. Pruned'  BY <2>0, <2>2, <3>6 DEF Inv, Pruned
    <3>10. TailInv' /\ RedriveOK'  BY <1>1, <3>6, TailStays, RedriveStays
    <3> QED  BY <1>2, <3>7, <3>8, <3>9, <3>10 DEF Inv, TailInv
  <2> QED  BY <1>6, <2>1, <2>2 DEF PruneDelete
<1> QED  BY <1>3, <1>4, <1>5, <1>6 DEF PruneStep

(* The world around the loop: the sources, the clock, launches and stops.  *)
LEMMA WorldSteps ==
  ASSUME Inv, World \/ Crash
  PROVE  Inv'
<1>0. /\ Corpus /\ Flags /\ headSeq \in Nat /\ headSeq <= MaxSeq /\ MaxSeq \in Nat
  BY HeadNat, BoundsAssumption DEF Inv, Corpus, CorpusTypes
<1>1. CASE \/ \E d \in Docs : Upsert(d) \/ Archive(d) \/ Purge(d)
           \/ AccountChange
  <2>1. Grows  BY <1>1, SourcesGrow
  <2>2. Renumbers /\ headSeq' \in Nat /\ headSeq <= headSeq' /\ Corpus'
    BY <1>0, <2>1, GrowsRenumbers, CorpusGrows DEF Grows, headSeq
  <2>3. Env  BY <1>1 DEF Upsert, Archive, Purge, AccountChange
  <2>4. UNCHANGED <<cutoff, row, seedRow, floor, ledger, aborted, attached, others, prune, redrive, faults>>
        /\ tail' = Woken(tail)
    BY <2>3 DEF Env
  <2>5. Marks'  BY <2>1, <2>4, MarksGrow DEF Inv
  <2>6. Pruned'  BY <1>0, <2>2, <2>4, PrunedOn DEF Inv
  <2>7. TailInv'  BY <2>2, <2>4, TailGrows
  <2>8. RedriveOK'  BY <1>0, <2>2, <2>4, RedriveOn DEF Inv
  <2>9. tail'.pc = tail.pc  BY <2>4, WokenIs DEF Inv, TailShape
  <2>10. Flags'  BY <1>0, <2>4, <2>9, FlagsOn DEF KeepRun
  <2> QED  BY <2>2, <2>5, <2>6, <2>7, <2>8, <2>10 DEF Inv, TailInv
<1>2. CASE Age
  <2>1. UNCHANGED <<doc, log, row, seedRow, floor, ledger, tail, prune, redrive, faults>> /\ KeepRun
    BY <1>2 DEF Age
  <2>2. Corpus' /\ Grows /\ headSeq' = headSeq /\ headSeq' \in Nat /\ headSeq <= headSeq'
    BY <2>1, SameCorpus
  <2>3. cutoff' \in 1..MaxSeq + 1 /\ cutoff' <= headSeq' + 1
    <3> DEFINE h == headSeq
    <3>1. PICK c \in cutoff + 1 .. h + 1 : cutoff' = c  BY <1>2 DEF Age
    <3>2. h \in Nat /\ h <= MaxSeq /\ cutoff \in 1..MaxSeq + 1 /\ MaxSeq \in Nat
      BY <1>0 DEF Inv, Marks
    <3> HIDE DEF h
    <3>3. c \in 1..MaxSeq + 1 /\ c <= h + 1  BY <3>1, <3>2
    <3> QED  BY <2>2, <3>1, <3>3 DEF h
  <2>4. Marks'  BY <2>1, <2>2, <2>3 DEF Inv, Marks
  <2>5. Pruned'  BY <1>0, <2>1, <2>2, PrunedOn DEF Inv
  <2>6. TailInv' /\ RedriveOK'  BY <2>1, <2>2, TailStays, RedriveStays
  <2>7. Flags'  BY <1>0, <2>1, FlagsOn
  <2> QED  BY <2>2, <2>4, <2>5, <2>6, <2>7 DEF Inv, TailInv
<1>3. CASE LaunchWithout \/ QuitWithout \/ Crash
  <2>1. UNCHANGED durable /\ prune' = PruneIdle
    BY <1>3 DEF LaunchWithout, QuitWithout, Crash
  <2>2. UNCHANGED <<doc, log, cutoff, row, seedRow, floor, ledger>>  BY <2>1 DEF durable
  <2>3. Corpus' /\ Grows /\ headSeq' = headSeq /\ headSeq' \in Nat /\ headSeq <= headSeq'
    BY <2>2, SameCorpus
  <2>4. Marks'  BY <1>0, <2>2, <2>3, MarksGrow DEF Inv
  <2>5. Pruned'  BY <1>0, <2>1, <2>2, <2>3, PrunedOn DEF Inv
  <2>6. CASE LaunchWithout
    <3>1. UNCHANGED <<tail, aborted, attached, faults>> /\ others' = "alone" /\ ~attached
          /\ redrive' = RedriveIdle
      BY <2>6 DEF LaunchWithout
    <3>2. TailInv'  BY <2>2, <2>3, <3>1, TailStays
    <3>3. Flags'  BY <1>0, <3>1 DEF Flags
    <3>4. RedriveOK'  BY <3>1, RedriveEnded
    <3> QED  BY <2>3, <2>4, <2>5, <3>2, <3>3, <3>4 DEF Inv, TailInv
  <2>7. CASE QuitWithout
    <3>1. UNCHANGED <<tail, aborted, attached, faults, redrive>> /\ others' = "none"
      BY <2>7 DEF QuitWithout
    <3>2. TailInv' /\ RedriveOK'  BY <2>2, <2>3, <3>1, TailStays, RedriveStays
    <3>3. Flags'  BY <1>0, <3>1 DEF Flags
    <3> QED  BY <2>3, <2>4, <2>5, <3>2, <3>3 DEF Inv, TailInv
  <2>8. CASE Crash
    <3>1. /\ faults < MaxFaults /\ faults' = faults + 1 /\ tail' = TailOff /\ aborted' = FALSE
          /\ attached' = FALSE /\ others' = "none" /\ redrive' = RedriveIdle
      BY <2>8 DEF Crash
    <3>2. TailInv' /\ tail'.pc = "off"  BY <3>1, Settles
    <3>5. faults' \in 0..MaxFaults  BY <1>0, <3>1, BoundsAssumption DEF Flags
    <3>3. Flags'  BY <3>1, <3>2, <3>5 DEF Flags
    <3>4. RedriveOK'  BY <3>1, RedriveEnded
    <3> QED  BY <2>3, <2>4, <2>5, <3>2, <3>3, <3>4 DEF Inv, TailInv
  <2> QED  BY <1>3, <2>6, <2>7, <2>8
<1>4. CASE SweepRetired
  <2>1. /\ UNCHANGED <<doc, log, cutoff, seedRow, floor, tail, prune, redrive, faults>> /\ KeepRun
        /\ row' = None /\ ledger' = [s \in Seqs |-> None] /\ others = "alone"
    BY <1>4 DEF SweepRetired
  <2>2. Corpus' /\ Grows /\ headSeq' = headSeq /\ headSeq' \in Nat /\ headSeq <= headSeq'
    BY <2>1, SameCorpus
  <2>3. Marks'
    <3>1. ledger' \in [Seqs -> Outcomes \cup {None}]
          /\ \A s \in Seqs : ledger'[s] # None => ledger[s] # None \/ s <= headSeq
      BY <2>1
    <3>2. UNCHANGED <<cutoff, floor>> /\ seedRow' \in 0..MaxSeq \cup {None}
      BY <2>1 DEF Inv, Marks
    <3> QED  BY <1>0, <2>1, <2>2, <3>1, <3>2, MarksMove DEF Inv
  <2>4. Pruned'  BY <1>0, <2>1, <2>2, PrunedOn DEF Inv
  <2>5. tail' \in Tails /\ tail'.pc = "off" /\ Clean(tail')
    BY <2>1 DEF Inv, Flags, TailShape, Resting
  <2>6. TailInv' /\ RedriveOK'  BY <2>1, <2>2, <2>5, Rests, RedriveStays
  <2>7. Flags'  BY <1>0, <2>1, FlagsOn
  <2> QED  BY <2>2, <2>3, <2>4, <2>6, <2>7 DEF Inv, TailInv
<1>5. CASE Attach  BY <1>5, QuietSteps
<1>6. CASE Stop \/ OthersSettle
  <2>1. UNCHANGED <<durable, prune, redrive>> /\ UNCHANGED faults
    BY <1>6 DEF Stop, OthersSettle
  <2>2. Corpus' /\ Marks' /\ Pruned' /\ RedriveOK'  BY <2>1, DurableStays
  <2>3. headSeq' = headSeq /\ UNCHANGED <<doc, row, seedRow>>  BY <2>1 DEF durable, headSeq
  <2>4. CASE Settle
    <3>1. TailInv'  BY <2>4, Settles DEF Settle
    <3>2. Flags'  BY <1>0, <2>1, <2>4, FlagsOn
    <3> QED  BY <2>2, <3>1, <3>2 DEF Inv, TailInv
  <2>5. CASE UNCHANGED <<tail, attached, others>> /\ aborted' = TRUE /\ attached
    <3>1. TailInv'  BY <2>3, <2>5, TailStays
    <3>2. Flags'  BY <1>0, <2>1, <2>5 DEF Flags
    <3> QED  BY <2>2, <3>1, <3>2 DEF Inv, TailInv
  <2>6. CASE UNCHANGED <<tail, aborted, attached>> /\ others' = "none"
    <3>1. TailInv'  BY <2>3, <2>6, TailStays
    <3>2. Flags'  BY <1>0, <2>1, <2>6 DEF Flags
    <3> QED  BY <2>2, <3>1, <3>2 DEF Inv, TailInv
  <2> QED  BY <1>6, <2>4, <2>5, <2>6 DEF Stop, OthersSettle
<1>7. CASE RedriveStart  BY <1>7, RedriveSteps
<1> QED  BY <1>1, <1>2, <1>3, <1>4, <1>5, <1>6, <1>7 DEF World

(* At first nothing is written, read or attached.                          *)
LEMMA InvInit == Init => Inv
<1> SUFFICES ASSUME Init PROVE Inv  OBVIOUS
<1> DEFINE x == [seq |-> 0, src |-> 0, out |-> 0, st |-> "none"]
           T == Docs \cup {Noise, Gone}
<1>1. /\ doc = [d \in Docs |-> x] /\ log = <<>> /\ cutoff = 1 /\ row = None /\ seedRow = None
      /\ floor = 0 /\ ledger = [s \in Seqs |-> None] /\ tail = TailOff /\ aborted = FALSE
      /\ attached = FALSE /\ others = "none" /\ prune = PruneIdle /\ redrive = RedriveIdle /\ faults = 0
  BY DEF Init
<1>2. headSeq = 0 /\ log \in Seq(T)  BY <1>1 DEF headSeq
<1>3. x \in Document /\ x.st = "none"  BY BoundsAssumption DEF Document
<1> HIDE DEF x
<1>4. Corpus
  <2>1. doc \in [Docs -> Document] /\ \A d \in Docs : doc[d].st = "none"  BY <1>1, <1>3
  <2> QED  BY <1>2, <2>1, BoundsAssumption DEF Corpus, CorpusTypes
<1>5. Marks  BY <1>1, <1>2, BoundsAssumption DEF Marks
<1>6. Pruned  BY <1>1, BoundsAssumption DEF Pruned, Prunes, PruneIdle
<1>7. tail \in Tails /\ tail.pc = "off" /\ Clean(tail)  BY <1>1, OffTypes DEF TailOff, Clean
<1>8. TailShape
  BY <1>7 DEF TailShape, Resting, Seeds, SeedPages, Feeds, Batches
<1>9. TailReads  BY <1>7 DEF TailReads, Clean, AllTell, AllMatch, RefsTell
<1>10. RedriveOK
  <2>1. /\ redrive \in Redrives /\ redrive.todo = <<>> /\ redrive.staged = <<>>
        /\ redrive.page = <<>> /\ redrive.led = {} /\ redrive.pc = "idle"
    BY <1>1, IdleTypes DEF RedriveIdle
  <2> QED  BY <2>1 DEF RedriveOK, AllTell, AllMatch
<1>11. Flags
  <2>1. faults \in 0..MaxFaults  BY <1>1, BoundsAssumption
  <2> QED  BY <1>1, <1>7, <2>1 DEF Flags
<1> QED  BY <1>4, <1>5, <1>6, <1>8, <1>9, <1>10, <1>11 DEF Inv

(* Every step keeps it; and a row that stays has not moved back.           *)
LEMMA InvStep ==
  ASSUME Inv, [Next]_vars
  PROVE  Inv' /\ (row # None /\ row' # None => row <= row')
<1>0. row # None => row <= row  BY BoundsAssumption DEF Inv, Marks
<1>1. CASE UNCHANGED vars
  <2>1. UNCHANGED <<durable, prune, redrive>> /\ UNCHANGED <<row, tail, aborted, attached, others, faults>>
    BY <1>1 DEF vars, durable
  <2>2. Corpus' /\ Marks' /\ Pruned' /\ RedriveOK'  BY <2>1, DurableStays
  <2>3. headSeq' = headSeq /\ UNCHANGED <<doc, row, seedRow, tail>>  BY <2>1 DEF durable, headSeq
  <2>4. TailInv'  BY <2>3, TailStays
  <2>5. Flags'  BY <2>1 DEF Inv, Flags
  <2> QED  BY <1>0, <2>1, <2>2, <2>4, <2>5 DEF Inv, TailInv
<1>2. CASE SeedBegin \/ SeedEnd  BY <1>2, SeedRowSteps
<1>3. CASE Commit  BY <1>3, CommitInv
<1>4. CASE SeedCommit
  <2>1. row' = row  BY <1>4 DEF SeedCommit
  <2> QED  BY <1>0, <1>4, <2>1, SeedCommitInv
<1>5. CASE ChangeWorked
  <2>1. row' = row  BY <1>5 DEF ChangeWorked
  <2> QED  BY <1>0, <1>5, <2>1, ChangeWorkedInv
<1>6. CASE \/ TailAborts \/ Backoff \/ SeedCheck \/ SeedHead \/ ReadSeedPage \/ SeedWork
           \/ SeedWorked \/ FeedRows \/ FeedDocs \/ FeedEmpty \/ FeedWake \/ WorkChange
             \/ Admit
           \/ TailCallFails \/ TailReadOnly
  <2>1. row' = row
    BY <1>6 DEF TailAborts, Backoff, SeedCheck, SeedHead, ReadSeedPage, SeedWork, SeedWorked, FeedRows,
                FeedDocs, FeedEmpty, FeedWake, WorkChange, Admit, TailCallFails, TailReadOnly, durable
  <2> QED  BY <1>0, <1>6, <2>1, QuietSteps
<1>7. CASE RedriveStep \/ RedriveEnds
  <2>1. row' = row
    BY <1>7 DEF RedriveStep, RedriveList, RedriveResolve, RedriveWork, RedriveFlush, RedriveRecord,
                RedriveEnds, durable
  <2> QED  BY <1>0, <1>7, <2>1, RedriveSteps
<1>8. CASE PruneStep
  <2>1. row' = row
    BY <1>8 DEF PruneStep, PruneFloor, PruneLimits, PrunePublish, PruneDelete, durable
  <2> QED  BY <1>0, <1>8, <2>1, PruneSteps
<1>9. CASE World \/ Crash
  <2>1. row' = row \/ row' = None
    BY <1>9 DEF World, Upsert, Archive, Purge, AccountChange, Env, Age, LaunchWithout, SweepRetired,
                QuitWithout, Attach, Stop, OthersSettle, RedriveStart, Crash, durable
  <2> QED  BY <1>0, <1>9, <2>1, WorldSteps
<1> QED
  BY <1>1, <1>2, <1>3, <1>4, <1>5, <1>6, <1>7, <1>8, <1>9 DEF Next, TailStep, Faults

(* What the rows, the loop, the re-drive and the prune hold agrees with    *)
(* the corpus, whatever the interleaving of writes, worker answers,        *)
(* crashes and prunes.                                                     *)
THEOREM Invariant == Spec => []Inv
<1>1. Inv /\ [Next]_vars => Inv'  BY InvStep
<1> QED  BY InvInit, <1>1, PTL DEF Spec

(* Every value the program keeps, in the rows and in the loop, stays in    *)
(* its type: no cursor runs past the numbers, and no retry past the limit. *)
THEOREM TypeCorrect == Spec => []TypeOK
<1>1. Inv => TypeOK
  BY DEF Inv, Corpus, CorpusTypes, Marks, Pruned, TailShape, RedriveOK, Flags, TypeOK
<1> QED  BY Invariant, <1>1, PTL

(* The consumer's cursor never moves back: a bounded flush or a re-drive   *)
(* writes none, and a new seed starts at the head (seedConsumer, commit).  *)
THEOREM NeverRewinds == Spec => CursorNeverRewinds
<1>1. Inv /\ [Next]_vars => [row # None /\ row' # None => row' >= row]_row
  <2> SUFFICES ASSUME Inv, [Next]_vars PROVE row # None /\ row' # None => row' >= row  OBVIOUS
  <2>1. row # None /\ row' # None => row <= row' /\ row \in Nat /\ row' \in Nat
    BY InvStep, BoundsAssumption DEF Inv, Marks
  <2> QED  BY <2>1
<1> QED  BY Invariant, <1>1, PTL DEF Spec, CursorNeverRewinds

-----------------------------------------------------------------------------
(* Where the stops of a hold settle together, or nothing is pruned: what   *)
(* the loop has not committed is still to be read, and a prune stays       *)
(* behind it.                                                              *)

\* The outcomes that leave a document to a re-drive.
Verdicts == {"deferred", "failed"}

(* A document that matches after a step did so before it, under the same   *)
(* number, or has a new one.                                               *)
LEMMA Fresh ==
  ASSUME Inv, Renumbers, doc' \in [Docs -> Document], NEW d \in Docs, Matches(doc'[d])
  PROVE  /\ doc'[d].seq \in Nat
         /\ doc'[d] = doc[d] \/ doc'[d].seq > headSeq
         /\ doc'[d] = doc[d] => Matches(doc[d]) /\ doc[d].seq \in 1..headSeq
                                /\ Carries(d, doc[d].seq, doc) /\ log[doc[d].seq] \in {d, Gone}
<1>1. doc'[d].st # "none"  BY DEF Matches
<1>2. doc'[d] = doc[d] \/ doc'[d].seq > headSeq  BY <1>1 DEF Renumbers
<1>3. doc'[d].seq \in Nat  BY BoundsAssumption DEF Document
<1>4. ASSUME doc'[d] = doc[d]
      PROVE  Matches(doc[d]) /\ doc[d].seq \in 1..headSeq
             /\ Carries(d, doc[d].seq, doc) /\ log[doc[d].seq] \in {d, Gone}
  BY <1>1, <1>4 DEF Inv, Corpus, Carries
<1> QED  BY <1>2, <1>3, <1>4

(* The ends of what the loop has read lie below the head.                  *)
LEMMA Ends ==
  ASSUME Inv
  PROVE  /\ headSeq \in Nat /\ headSeq <= MaxSeq
         /\ row # None => row \in Nat /\ row <= headSeq
         /\ tail \in Tails /\ tail.cur \in Nat /\ tail.pos \in Nat /\ tail.h0 \in Nat /\ tail.after \in Nat
         /\ tail.pc \in Seeds => row # None /\ row = tail.h0 /\ seedRow = tail.after /\ seedRow # None
         /\ tail.pc \in SeedPages => tail.pos <= tail.h0 /\ tail.pos <= headSeq
         /\ tail.pc \in Feeds => row # None /\ tail.cur <= headSeq /\ row <= tail.cur
         /\ floor \in Nat /\ cutoff \in Nat /\ prune.limit \in Nat
<1>1. headSeq \in Nat /\ headSeq <= MaxSeq /\ tail \in Tails
  BY HeadNat DEF Inv, Corpus, CorpusTypes, TailShape
<1>2. row # None => row \in Nat /\ row <= headSeq  BY BoundsAssumption DEF Inv, Marks
<1>3. tail.cur \in Nat /\ tail.pos \in Nat /\ tail.h0 \in Nat /\ tail.after \in Nat  BY <1>1, TailTypes
<1>4. tail.pc \in Seeds => row # None /\ row = tail.h0 /\ seedRow = tail.after /\ seedRow # None
  BY <1>3, Names DEF Inv, TailShape
<1>5. tail.pc \in SeedPages => tail.pos <= tail.h0 /\ tail.pos <= headSeq
  <2>1. tail.pc \in SeedPages => tail.pc \in Seeds  BY DEF SeedPages, Seeds
  <2>2. tail.pc \in SeedPages => tail.pos <= tail.h0  BY DEF Inv, TailShape
  <2> QED  BY <1>1, <1>2, <1>3, <1>4, <2>1, <2>2
<1>6. tail.pc \in Feeds => row # None /\ tail.cur <= headSeq /\ row <= tail.cur
  BY DEF Inv, TailShape
<1>7. floor \in Nat /\ cutoff \in Nat /\ prune.limit \in Nat
  BY BoundsAssumption DEF Inv, Marks, Pruned, Prunes
<1> QED  BY <1>1, <1>2, <1>3, <1>4, <1>5, <1>6, <1>7

(* Steps of others: the loop's record stays, and a verdict stands while    *)
(* its document waits.                                                     *)
LEMMA CoverOn ==
  ASSUME Inv, SeedCover, FeedCover, NothingLost, Renumbers, doc' \in [Docs -> Document],
         tail' \in {tail, Woken(tail)}, UNCHANGED <<row, seedRow>>,
         floor' \in Nat, floor <= floor',
         \A d \in Docs : Matches(doc'[d]) /\ doc'[d] = doc[d] /\ Settled(doc[d].seq) =>
                           ledger'[doc[d].seq] \in Verdicts
  PROVE  SeedCover' /\ FeedCover' /\ NothingLost'
<1>1. /\ tail'.todo = tail.todo /\ tail'.win = tail.win /\ tail'.staged = tail.staged
      /\ tail'.led = tail.led /\ tail'.pc = tail.pc /\ tail'.cur = tail.cur
      /\ tail'.pos = tail.pos /\ tail'.after = tail.after /\ tail'.h0 = tail.h0
  BY WokenIs DEF Inv, TailShape
<1>2. ASSUME NEW d \in Docs, Matches(doc'[d]), NEW n \in Nat, n <= headSeq, doc'[d].seq <= n
      PROVE  doc'[d] = doc[d] /\ Matches(doc[d])
             /\ (Settled(doc[d].seq) => ledger'[doc[d].seq] \in Verdicts)
  <2>1. ~(doc'[d].seq > headSeq)
    <3>1. doc'[d].seq \in Nat /\ headSeq \in Nat  BY <1>2, Fresh, Ends
    <3> QED  BY <1>2, <3>1
  <2>2. doc'[d] = doc[d] /\ Matches(doc[d])  BY <1>2, <2>1, Fresh
  <2> QED  BY <1>2, <2>2
<1>3. SeedCover'
  <2>1. ASSUME tail.pc \in SeedPages, NEW d \in Docs, Matches(doc'[d]),
               tail.after < doc'[d].seq, doc'[d].seq <= tail.pos
        PROVE  \/ In(tail.todo, doc'[d].seq) \/ In(tail.staged, doc'[d].seq)
               \/ ledger'[doc'[d].seq] \in Verdicts
               \/ \E e \in tail.led : e.seq = doc'[d].seq /\ e.outcome \in Verdicts
    <3>1. tail.pos \in Nat /\ tail.pos <= headSeq  BY <2>1, Ends
    <3>2. doc'[d] = doc[d] /\ Matches(doc[d])
          /\ (Settled(doc[d].seq) => ledger'[doc[d].seq] \in Verdicts)
      BY <1>2, <2>1, <3>1
    <3> QED  BY <2>1, <3>2 DEF SeedCover, Verdicts
  <2>2. ASSUME tail.pc = "seedEnd", NEW d \in Docs, Matches(doc'[d]),
               tail.after < doc'[d].seq, doc'[d].seq <= tail.h0
        PROVE  FALSE
    <3>1. tail.h0 \in Nat /\ tail.h0 <= headSeq  BY <2>2, Ends DEF Seeds
    <3>2. doc'[d] = doc[d] /\ Matches(doc[d])  BY <1>2, <2>2, <3>1
    <3> QED  BY <2>2, <3>2 DEF SeedCover
  <2> QED  BY <1>1, <2>1, <2>2 DEF SeedCover, Settled, Verdicts
<1>4. FeedCover'
  <2>1. ASSUME tail.pc \in Feeds, NEW d \in Docs, Matches(doc'[d]),
               row < doc'[d].seq, doc'[d].seq <= tail.cur
        PROVE  \/ In(tail.win, doc'[d].seq) \/ In(tail.todo, doc'[d].seq)
               \/ In(tail.staged, doc'[d].seq) \/ ledger'[doc'[d].seq] \in Verdicts
    <3>1. tail.cur \in Nat /\ tail.cur <= headSeq  BY <2>1, Ends
    <3>2. doc'[d] = doc[d] /\ Matches(doc[d])
          /\ (Settled(doc[d].seq) => ledger'[doc[d].seq] \in Verdicts)
      BY <1>2, <2>1, <3>1
    <3> QED  BY <2>1, <3>2 DEF FeedCover
  <2> QED  BY <1>1, <2>1 DEF FeedCover, Settled, Verdicts
<1>5. NothingLost'
  <2>1. ASSUME row # None, row >= floor' \/ tail.pc \in Seeds \cup Feeds,
               NEW d \in Docs, Matches(doc'[d]), doc'[d].seq <= row
        PROVE  (seedRow # None /\ doc'[d].seq > seedRow) \/ ledger'[doc'[d].seq] \in Verdicts
    <3>1. row \in Nat /\ row <= headSeq /\ floor \in Nat  BY <2>1, Ends
    <3>2. doc'[d] = doc[d] /\ Matches(doc[d])
          /\ (Settled(doc[d].seq) => ledger'[doc[d].seq] \in Verdicts)
      BY <1>2, <2>1, <3>1
    <3>3. row >= floor' => row >= floor  BY <3>1
    <3>4. Watched  BY <2>1, <3>3 DEF Watched
    <3> QED  BY <2>1, <3>2, <3>4 DEF NothingLost, Seeding
  <2> QED  BY <1>1, <2>1 DEF NothingLost, Watched, Seeding, Settled, Verdicts
<1> QED  BY <1>3, <1>4, <1>5

(* Steps of the loop that write nothing: what lies below the cursor stays  *)
(* as it is.                                                               *)
LEMMA LostOn ==
  ASSUME NothingLost, UNCHANGED durable, tail'.pc \in Seeds \cup Feeds => Watched
  PROVE  NothingLost'
<1>1. UNCHANGED <<doc, row, seedRow, floor, ledger>>  BY DEF durable
<1>2. Watched' => Watched  BY <1>1 DEF Watched
<1> QED  BY <1>1, <1>2 DEF NothingLost, Seeding, Settled

(* A loop that rests or begins a page has read nothing to account for.     *)
LEMMA CoverRests ==
  ASSUME tail'.pc \in Resting \cup {"seedPage"}
  PROVE  SeedCover' /\ FeedCover'
BY DEF SeedCover, FeedCover, Resting, SeedPages, Feeds

\* The loop's part of Cover.
Covers == SeedCover /\ FeedCover /\ NothingLost

(* The loop ends, waits to retry or starts over: it holds nothing.         *)
LEMMA CoversRest ==
  ASSUME NothingLost, UNCHANGED durable, tail'.pc \in Resting
  PROVE  Covers'
<1>1. tail'.pc \notin Seeds \cup Feeds  BY DEF Resting, Seeds, Feeds
<1> QED  BY <1>1, CoverRests, LostOn DEF Covers

(* The loop goes on with what it holds.                                    *)
LEMMA CoversSame ==
  ASSUME Inv, Covers, UNCHANGED durable, Same(tail, tail'),
         \/ tail.pc \in SeedPages /\ tail'.pc \in SeedPages
         \/ tail.pc \in Feeds /\ tail'.pc \in Feeds
  PROVE  Covers'
<1>1. UNCHANGED <<doc, row, ledger>>  BY DEF durable
<1>2. tail'.pc # "seedEnd" /\ (tail'.pc \in SeedPages => tail.pc \in SeedPages)
      /\ (tail'.pc \in Feeds => tail.pc \in Feeds) /\ tail.pc \in Seeds \cup Feeds
  BY DEF SeedPages, Feeds, Seeds
<1>3. SeedCover'  BY <1>1, <1>2 DEF Covers, SeedCover, Same, Settled
<1>4. FeedCover'  BY <1>1, <1>2 DEF Covers, FeedCover, Same, Settled
<1>5. Watched
  BY <1>2, Ends DEF Watched
<1> QED  BY <1>3, <1>4, <1>5, LostOn DEF Covers

(* An outcome is written above the cursor.                                 *)
LEMMA LostStays ==
  ASSUME Inv, NothingLost, UNCHANGED <<doc, row, seedRow, floor>>,
         tail'.pc \in Seeds \cup Feeds => Watched,
         \A d \in Docs : Matches(doc[d]) /\ doc[d].seq <= row /\ Settled(doc[d].seq) =>
                           ledger'[doc[d].seq] \in Verdicts
  PROVE  NothingLost'
<1>1. Watched' => Watched  BY DEF Watched
<1> QED  BY <1>1 DEF NothingLost, Seeding, Settled, Verdicts

(* One document of the page is passed over or worked.                      *)
LEMMA SeedPops ==
  ASSUME Inv, Covers, UNCHANGED durable, tail.pc \in {"seedWork", "seedBusy"}, tail'.pc \in SeedPages,
         tail'.todo = Tail(tail.todo), tail'.pos = tail.pos, tail'.after = tail.after,
         tail.led \subseteq tail'.led, \A s : In(tail.staged, s) => In(tail'.staged, s),
         LET c == Head(tail.todo) IN
           \/ ~c.match
           \/ In(tail'.staged, c.seq)
           \/ \E e \in tail'.led : e.seq = c.seq /\ e.outcome \in Verdicts
  PROVE  Covers'
<1> DEFINE c == Head(tail.todo)
<1>1. UNCHANGED <<doc, row, ledger>>  BY DEF durable
<1>2. /\ tail.pc \in SeedPages /\ tail.pc \in Seeds /\ tail'.pc # "seedEnd" /\ tail'.pc \notin Feeds
      /\ tail.todo # <<>> /\ tail.todo \in Seq(Change) /\ AllTell(tail.todo, doc, headSeq)
  BY Ends, TailTypes DEF SeedPages, Seeds, Feeds, Inv, TailShape, TailReads
<1>3. /\ \A s : In(tail.todo, s) => In(Tail(tail.todo), s) \/ c.seq = s
      /\ Tells(c, doc, headSeq)
  BY <1>2, Shifted
<1> HIDE DEF c
<1>4. ~c.match \/ In(tail'.staged, c.seq) \/ \E e \in tail'.led : e.seq = c.seq /\ e.outcome \in Verdicts
  BY DEF c
<1>5. ASSUME NEW d \in Docs, Matches(doc[d]), tail.after < doc[d].seq, doc[d].seq <= tail.pos
      PROVE  \/ In(tail'.todo, doc[d].seq) \/ In(tail'.staged, doc[d].seq)
             \/ Settled(doc[d].seq)
             \/ \E e \in tail'.led : e.seq = doc[d].seq /\ e.outcome \in Verdicts
  <2>1. \/ In(tail.todo, doc[d].seq) \/ In(tail.staged, doc[d].seq)
        \/ Settled(doc[d].seq)
        \/ \E e \in tail.led : e.seq = doc[d].seq /\ e.outcome \in Verdicts
    BY <1>2, <1>5 DEF Covers, SeedCover, Verdicts
  <2>2. CASE In(tail.todo, doc[d].seq) /\ c.seq = doc[d].seq
    <3>1. Carries(d, c.seq, doc)  BY <1>5, <2>2 DEF Carries, Matches
    <3>2. c.match  BY <1>3, <1>5, <3>1 DEF Tells
    <3> QED  BY <1>4, <2>2, <3>2
  <2>3. CASE In(tail.todo, doc[d].seq) /\ c.seq # doc[d].seq  BY <1>3, <2>3
  <2> QED  BY <2>1, <2>2, <2>3
<1>6. SeedCover'  BY <1>1, <1>2, <1>5 DEF SeedCover, Settled, Verdicts
<1>7. FeedCover'  BY <1>2 DEF FeedCover
<1>8. Watched  BY <1>2, Ends DEF Watched
<1> QED  BY <1>6, <1>7, <1>8, LostOn DEF Covers

(* One change of the batch is passed over or worked.                       *)
LEMMA FeedPops ==
  ASSUME Inv, Covers, UNCHANGED <<doc, row, seedRow, floor>>, tail.pc \in {"work", "busy"},
         \A s \in Seqs : s # Head(tail.todo).seq => ledger'[s] = ledger[s]
  PROVE  /\ tail'.pc \in Resting \cup Feeds => NothingLost'
         /\ /\ tail'.pc \in Feeds /\ tail'.todo = Tail(tail.todo) /\ tail'.cur = tail.cur
            /\ \A s : In(tail.staged, s) => In(tail'.staged, s)
            /\ LET c == Head(tail.todo) IN
                 ~c.match \/ In(tail'.staged, c.seq) \/ ledger'[c.seq] \in Verdicts
            => Covers'
<1> DEFINE c == Head(tail.todo)
<1>2. /\ tail.pc \in Feeds /\ tail.pc \notin Resting /\ row # None /\ row \in Nat /\ tail.win = <<>>
      /\ tail.todo # <<>> /\ tail.todo \in Seq(Change) /\ AllTell(tail.todo, doc, headSeq)
      /\ Within(tail.todo, row, tail.cur)
  BY Ends, TailTypes DEF Batches, Feeds, Resting, Inv, TailShape, TailReads
<1>3. /\ \A s : In(tail.todo, s) => In(Tail(tail.todo), s) \/ c.seq = s
      /\ Tells(c, doc, headSeq) /\ row < c.seq /\ c \in Change
  BY <1>2, Shifted
<1> HIDE DEF c
<1>4. c.seq \in Nat  BY <1>3, ChangeTypes
<1>5. Watched  BY <1>2, Ends DEF Watched
<1>6. ASSUME NEW d \in Docs, Matches(doc[d]) PROVE doc[d].seq \in Seqs /\ doc[d].seq \in Nat
  <2>1. doc[d].seq \in 1..headSeq /\ headSeq \in Nat /\ headSeq <= MaxSeq
    BY <1>6, Ends DEF Inv, Corpus, Matches
  <2> QED  BY <2>1, BoundsAssumption DEF Seqs
<1>7. NothingLost'
  <2>1. ASSUME NEW d \in Docs, Matches(doc[d]), doc[d].seq <= row, Settled(doc[d].seq)
        PROVE  ledger'[doc[d].seq] \in Verdicts
    <3>1. doc[d].seq \in Seqs /\ doc[d].seq # c.seq  BY <1>2, <1>3, <1>4, <1>6, <2>1
    <3>2. ledger'[doc[d].seq] = ledger[doc[d].seq]  BY <3>1 DEF c
    <3> QED  BY <2>1, <3>2 DEF Settled, Verdicts
  <2> QED  BY <1>5, <2>1, LostStays DEF Covers
<1>8. ASSUME tail'.pc \in Feeds, tail'.todo = Tail(tail.todo), tail'.cur = tail.cur,
             \A s : In(tail.staged, s) => In(tail'.staged, s),
             ~c.match \/ In(tail'.staged, c.seq) \/ ledger'[c.seq] \in Verdicts
      PROVE  Covers'
  <2>1. ASSUME NEW d \in Docs, Matches(doc[d]), row < doc[d].seq, doc[d].seq <= tail.cur
        PROVE  \/ In(tail'.todo, doc[d].seq) \/ In(tail'.staged, doc[d].seq)
               \/ ledger'[doc[d].seq] \in Verdicts
    <3>1. \/ In(tail.todo, doc[d].seq) \/ In(tail.staged, doc[d].seq) \/ Settled(doc[d].seq)
      BY <1>2, <2>1 DEF Covers, FeedCover, In
    <3>2. CASE c.seq = doc[d].seq
      <4>1. Carries(d, c.seq, doc)  BY <2>1, <3>2 DEF Carries, Matches
      <4>2. c.match  BY <1>3, <2>1, <4>1 DEF Tells
      <4> QED  BY <1>8, <3>2, <4>2
    <3>3. CASE c.seq # doc[d].seq
      <4>1. ledger'[doc[d].seq] = ledger[doc[d].seq]  BY <1>6, <2>1, <3>3 DEF c
      <4> QED  BY <1>3, <1>8, <3>1, <3>3, <4>1 DEF Settled, Verdicts
    <3> QED  BY <3>2, <3>3
  <2>2. FeedCover'  BY <1>8, <2>1 DEF FeedCover, Settled, Verdicts
  <2>3. tail'.pc \notin SeedPages /\ tail'.pc # "seedEnd"  BY <1>8 DEF Feeds, SeedPages
  <2>4. SeedCover'  BY <2>3 DEF SeedCover
  <2> QED  BY <1>7, <2>2, <2>4 DEF Covers
<1> QED  BY <1>7, <1>8 DEF c

(* Nothing was read yet, or nothing new: the covers of GoesOn.             *)
LEMMA GoesOnCovers ==
  ASSUME Inv, Covers, Backoff \/ SeedCheck \/ SeedHead \/ FeedEmpty \/ FeedWake \/ Admit
  PROVE  Covers'
<1>0. UNCHANGED durable /\ tail \in Tails /\ UNCHANGED <<doc, row, ledger>>
  BY Ends DEF Backoff, SeedCheck, SeedHead, FeedEmpty, FeedWake, Admit, durable
<1>1. CASE Backoff \/ SeedHead
  <2>1. tail'.pc \in Resting
    BY <1>0, <1>1 DEF Backoff, SeedHead, Goto, Tails, Resting
  <2> QED  BY <1>0, <2>1, CoversRest DEF Covers
<1>2. CASE FeedEmpty \/ FeedWake \/ Admit
  <2>1. /\ Same(tail, tail')
        /\ \/ tail.pc = "feedEmpty" /\ tail'.pc = "feedWait"
           \/ tail.pc = "feedWait" /\ tail'.pc = "feedRows"
           \/ tail.pc = "seedFlush" /\ tail'.pc = "seedCommit"
           \/ tail.pc = "flush" /\ tail'.pc = "commit"
    BY <1>0, <1>2 DEF FeedEmpty, FeedWake, Admit, At, Goto, Tails, Same
  <2> QED  BY <1>0, <2>1, CoversSame DEF SeedPages, Feeds
<1>3. CASE SeedCheck
  <2>1. \/ Feedable /\ tail' = [tail EXCEPT !.pc = "feedRows", !.cur = row]
        \/ Feedable /\ seedRow # None
           /\ tail' = [tail EXCEPT !.pc = "seedPage", !.after = seedRow, !.h0 = row]
        \/ tail' = [tail EXCEPT !.pc = "seedHead"]
    BY <1>3 DEF SeedCheck
  <2>2. CASE Feedable /\ tail' = [tail EXCEPT !.pc = "feedRows", !.cur = row]
    <3>1. tail'.pc = "feedRows" /\ tail'.cur = row  BY <1>0, <2>2 DEF Tails
    <3>2. Watched /\ row \in Nat  BY <2>2, Ends DEF Watched, Feedable
    <3>3. SeedCover'  BY <3>1 DEF SeedCover, SeedPages
    <3>4. \A d \in Docs : doc[d] \in Document  BY DEF Inv, Corpus, CorpusTypes
    <3>5. \A d \in Docs : ~(row < doc[d].seq /\ doc[d].seq <= row)
      <4>1. \A d \in Docs : doc[d].seq \in Nat  BY <3>4, BoundsAssumption DEF Document
      <4> QED  BY <3>2, <4>1
    <3>6. FeedCover'  BY <1>0, <3>1, <3>5 DEF FeedCover
    <3> QED  BY <1>0, <3>2, <3>3, <3>6, LostOn DEF Covers
  <2>3. CASE Feedable /\ tail' = [tail EXCEPT !.pc = "seedPage", !.after = seedRow, !.h0 = row]
    <3>1. tail'.pc = "seedPage"  BY <1>0, <2>3 DEF Tails
    <3>2. Watched  BY <2>3 DEF Watched, Feedable
    <3> QED  BY <1>0, <3>1, <3>2, CoverRests, LostOn DEF Covers
  <2>4. CASE tail' = [tail EXCEPT !.pc = "seedHead"]
    <3>1. tail'.pc \in Resting  BY <1>0, <2>4 DEF Tails, Resting
    <3> QED  BY <1>0, <3>1, CoversRest DEF Covers
  <2> QED  BY <2>1, <2>2, <2>3, <2>4
<1> QED  BY <1>1, <1>2, <1>3

(* The loop ends, waits, fails or is started.                              *)
LEMMA LoopMovesCovers ==
  ASSUME Inv, Covers, TailAborts \/ TailCallFails \/ TailReadOnly \/ Attach \/ Crash
  PROVE  Covers'
<1>1. UNCHANGED durable /\ tail \in Tails
  BY Ends DEF TailAborts, TailCallFails, TailReadOnly, Attach, Crash
<1>2. tail'.pc \in Resting
  <2>1. CASE TailCallFails  BY <1>1, <2>1, Catches DEF TailCallFails, Resting
  <2>2. CASE TailAborts \/ TailReadOnly \/ Attach \/ Crash
    BY <2>2 DEF TailAborts, TailReadOnly, Attach, Crash, Settle, TailOff, Resting
  <2> QED  BY <2>1, <2>2
<1> QED  BY <1>1, <1>2, CoversRest DEF Covers

(* A page of the seed is read: no document below its last is missing.      *)
LEMMA SeedPageCovers ==
  ASSUME Inv, Covers, ReadSeedPage
  PROVE  Covers'
<1>1. /\ tail.pc = "seedPage" /\ tail \in Tails /\ Corpus /\ tail.pc \in Seeds
  BY DEF ReadSeedPage, At, Inv, TailShape, Seeds
<1>2. UNCHANGED durable /\ UNCHANGED <<doc, row, ledger>>  BY DEF ReadSeedPage, durable
<1>3. Watched  BY <1>1, Ends DEF Watched
<1>4. CASE SeedDocs = {} /\ tail' = [tail EXCEPT !.pc = "seedEnd"]
  <2>1. tail'.pc = "seedEnd" /\ tail'.after = tail.after /\ tail'.h0 = tail.h0  BY <1>1, <1>4 DEF Tails
  <2>2. SeedCover'
    <3>1. \A d \in Docs : Matches(doc[d]) => ~(tail.after < doc[d].seq /\ doc[d].seq <= tail.h0)
      BY <1>4 DEF SeedDocs, Matches
    <3> QED  BY <1>2, <2>1, <3>1 DEF SeedCover, SeedPages
  <2>3. FeedCover'  BY <2>1 DEF FeedCover, Feeds
  <2> QED  BY <1>2, <1>3, <2>2, <2>3, LostOn DEF Covers
<1>5. CASE /\ SeedDocs # {}
           /\ tail' = [tail EXCEPT !.pc = "seedWork", !.todo = SeedPageOf, !.pos = Last(SeedPageOf).seq]
  <2> DEFINE q == SeedPageOf
             p == Last(SeedPageOf).seq
  <2>1. p \in Nat /\ p <= tail.h0 /\ \A d \in SeedDocs : doc[d].seq <= p => In(q, doc[d].seq)
    <3>1. p \in 0..MaxSeq /\ p <= tail.h0 /\ \A d \in SeedDocs : doc[d].seq <= p => In(q, doc[d].seq)
      BY <1>1, <1>5, PageRead
    <3> QED  BY <3>1, BoundsAssumption
  <2>2. tail' = [tail EXCEPT !.pc = "seedWork", !.todo = q, !.pos = p]  BY <1>5
  <2> HIDE DEF q, p
  <2>3. tail'.pc = "seedWork" /\ tail'.todo = q /\ tail'.pos = p /\ tail'.after = tail.after
    BY <1>1, <2>2 DEF Tails
  <2>4. ASSUME NEW d \in Docs, Matches(doc[d]), tail.after < doc[d].seq, doc[d].seq <= p
        PROVE  In(q, doc[d].seq)
    <3>1. doc[d].seq \in Nat /\ tail.h0 \in Nat
      BY <2>4, Ends, BoundsAssumption DEF Inv, Corpus, CorpusTypes, Document
    <3>2. doc[d].seq <= tail.h0  BY <2>1, <2>4, <3>1
    <3>3. d \in SeedDocs  BY <2>4, <3>2 DEF SeedDocs, Matches
    <3> QED  BY <2>1, <2>4, <3>3
  <2>5. SeedCover'  BY <1>2, <2>3, <2>4 DEF SeedCover
  <2>6. FeedCover'  BY <2>3 DEF FeedCover, Feeds
  <2> QED  BY <1>2, <1>3, <2>5, <2>6, LostOn DEF Covers
<1> QED  BY <1>4, <1>5 DEF ReadSeedPage

(* One document of the page (seedConsumer).                                *)
LEMMA SeedWorkCovers ==
  ASSUME Inv, Covers, SeedWork
  PROVE  Covers'
<1>1. tail.pc = "seedWork" /\ tail \in Tails /\ tail.todo # <<>>
  BY DEF SeedWork, At, Inv, TailShape
<1>2. UNCHANGED durable  BY DEF SeedWork
<1>3. CASE /\ ~Head(tail.todo).match
           /\ tail' = Next1([tail EXCEPT !.todo = Tail(tail.todo)], "seedWork", "seedFlush")
  <2> DEFINE q == Tail(tail.todo)
             t == [tail EXCEPT !.todo = q]
  <2>1. q \in Seq(Change)  BY <1>1, TailTypes, Shifted
  <2>2. tail' = Next1(t, "seedWork", "seedFlush")  BY <1>3
  <2>3. t \in Tails /\ t.todo = q /\ t.staged = tail.staged /\ t.led = tail.led
        /\ t.pos = tail.pos /\ t.after = tail.after
    <3> HIDE DEF q
    <3> QED  BY <1>1, <2>1 DEF Tails
  <2> HIDE DEF t
  <2>4. Same(t, tail') /\ tail'.pc \in {"seedWork", "seedFlush"}  BY <2>2, <2>3, SeedNext
  <2>5. /\ tail'.pc \in SeedPages /\ tail'.todo = q /\ tail'.staged = tail.staged
        /\ tail'.led = tail.led /\ tail'.pos = tail.pos /\ tail'.after = tail.after
    BY <2>3, <2>4 DEF Same, SeedPages
  <2> QED  BY <1>1, <1>2, <1>3, <2>5, SeedPops
<1>4. CASE Head(tail.todo).match /\ tail' = [tail EXCEPT !.pc = "seedBusy"]
  <2>1. Same(tail, tail') /\ tail'.pc = "seedBusy"  BY <1>1, <1>4 DEF Tails, Same
  <2> QED  BY <1>1, <1>2, <2>1, CoversSame DEF SeedPages
<1> QED  BY <1>3, <1>4 DEF SeedWork, Goto

(* Its outcome is kept for the flush (workOne in seedConsumer).            *)
LEMMA SeedWorkedCovers ==
  ASSUME Inv, Covers, SeedWorked
  PROVE  Covers'
<1>1. tail.pc = "seedBusy" /\ tail \in Tails /\ tail.todo # <<>> /\ tail.staged \in Seq(Change)
  BY TailTypes DEF SeedWorked, At, Inv, TailShape
<1>2. UNCHANGED durable  BY DEF SeedWorked
<1> DEFINE c == Head(tail.todo)
<1>3. PICK r \in {"done", "deferred", "failed"} :
        tail' = Next1([Worked(tail, r) EXCEPT !.led = tail.led \cup {[seq |-> c.seq, outcome |-> r]}],
                      "seedWork", "seedFlush")
  BY DEF SeedWorked
<1> DEFINE e == [seq |-> c.seq, outcome |-> r]
           L == tail.led \cup {e}
           w == Worked(tail, r)
           t == [w EXCEPT !.led = L]
<1>4. c \in Change  BY <1>1, TailTypes, Shifted
<1>5. L \in SUBSET Leds
  <2>1. c.seq \in Seqs /\ r \in Outcomes
    <3> HIDE DEF c
    <3> QED  BY <1>4, ChangeTypes DEF Outcomes
  <2>2. tail.led \in SUBSET Leds  BY <1>1, TailTypes
  <2> QED  BY <2>1, <2>2 DEF Leds
<1>6. e.seq = c.seq /\ e.outcome = r  OBVIOUS
<1>7. /\ w \in Tails /\ w.todo = Tail(tail.todo) /\ w.pos = tail.pos /\ w.after = tail.after
      /\ w.staged = IF r = "done" THEN Append(tail.staged, c) ELSE tail.staged
  BY <1>1, WorkedIs
<1>8. tail' = Next1(t, "seedWork", "seedFlush")  BY <1>3
<1>9. L = tail.led \cup {e}  OBVIOUS
<1> HIDE DEF e, L, w, c
<1>10. t \in Tails /\ t.led = L /\ t.todo = Tail(tail.todo) /\ t.staged = w.staged
       /\ t.pos = tail.pos /\ t.after = tail.after
  BY <1>5, <1>7 DEF Tails, Leds
<1> HIDE DEF t
<1>11. Same(t, tail') /\ tail'.pc \in SeedPages  BY <1>8, <1>10, SeedNext DEF SeedPages
<1>12. /\ tail'.todo = Tail(tail.todo) /\ tail'.led = L /\ tail'.pos = tail.pos
       /\ tail'.after = tail.after /\ tail'.staged = w.staged
  BY <1>10, <1>11 DEF Same
<1>13. \A s : In(Append(tail.staged, c), s) <=> In(tail.staged, s) \/ c.seq = s
  BY <1>1, <1>4, Pushed
<1>14. \A s : In(tail.staged, s) => In(tail'.staged, s)  BY <1>7, <1>12, <1>13
<1>15. In(tail'.staged, c.seq) \/ \E f \in tail'.led : f.seq = c.seq /\ f.outcome \in Verdicts
  <2>1. CASE r = "done"  BY <1>7, <1>12, <1>13, <2>1
  <2>2. CASE r # "done"
    <3>1. e \in tail'.led /\ r \in Verdicts  BY <1>9, <1>12, <2>2 DEF Verdicts
    <3> QED  BY <1>6, <3>1
  <2> QED  BY <2>1, <2>2
<1>16. tail.led \subseteq tail'.led  BY <1>9, <1>12
<1> QED  BY <1>1, <1>2, <1>11, <1>12, <1>14, <1>15, <1>16, SeedPops DEF c

(* A window of the log is read: what it leaves out is settled, or pruned   *)
(* below the cursor (feed).                                                *)
LEMMA FeedRowsCovers ==
  ASSUME Inv, Covers, Behind, FeedRows
  PROVE  Covers'
<1>1. /\ tail.pc = "feedRows" /\ tail \in Tails /\ Clean(tail) /\ tail.pc \in Feeds /\ Corpus
  BY DEF FeedRows, At, Inv, TailShape, Feeds
<1>2. UNCHANGED durable /\ UNCHANGED <<doc, row, ledger>>  BY DEF FeedRows, durable
<1>3. row # None /\ row \in Nat /\ tail.cur \in Nat /\ headSeq \in Nat /\ floor \in Nat /\ floor <= row + 1
  BY <1>1, Ends DEF Behind
<1>4. Watched  BY <1>1, Ends DEF Watched
<1>5. CASE tail' = [tail EXCEPT !.pc = "feedEmpty"]
  <2>1. Same(tail, tail') /\ tail'.pc = "feedEmpty"  BY <1>1, <1>5 DEF Tails, Same
  <2> QED  BY <1>1, <1>2, <2>1, CoversSame DEF Feeds
<1>6. CASE /\ Window # <<>>
           /\ tail' = [tail EXCEPT !.pc = "feedDocs", !.woke = FALSE, !.cur = Last(Window),
                         !.win = [i \in DOMAIN Window |-> [seq |-> Window[i], ref |-> log[Window[i]]]]]
  <2> DEFINE w == Window
             l == Last(Window)
             v == [i \in DOMAIN w |-> [seq |-> w[i], ref |-> log[w[i]]]]
  <2>1. /\ w \in Seq(1..headSeq) /\ l \in 1..headSeq
        /\ \A s \in 1..headSeq : s > tail.cur /\ log[s] # Gone =>
              (s <= l => \E i \in 1..Len(w) : w[i] = s)
    BY <1>1, <1>6, WindowRead
  <2>2. tail' = [tail EXCEPT !.pc = "feedDocs", !.woke = FALSE, !.cur = l, !.win = v]  BY <1>6
  <2> HIDE DEF w, l
  <2>3. DOMAIN w = 1..Len(w) /\ Len(w) \in Nat
    <3> DEFINE H == 1..headSeq
    <3>1. w \in Seq(H)  BY <2>1
    <3> HIDE DEF H
    <3> QED  BY <3>1
  <2>4. v = [i \in 1..Len(w) |-> [seq |-> w[i], ref |-> log[w[i]]]]  BY <2>3
  <2>5. Len(v) = Len(w) /\ \A i \in 1..Len(w) : v[i].seq = w[i]  BY <2>3, <2>4
  <2> HIDE DEF v
  <2>6. /\ tail'.pc = "feedDocs" /\ tail'.cur = l /\ tail'.win = v
    BY <1>1, <2>2 DEF Tails
  <2>7. ASSUME NEW d \in Docs, Matches(doc[d]), row < doc[d].seq, doc[d].seq <= l
        PROVE  In(v, doc[d].seq) \/ Settled(doc[d].seq)
    <3> DEFINE s == doc[d].seq
    <3>1. s \in 1..headSeq /\ s \in Nat  BY <1>3, <2>7 DEF Inv, Corpus, Matches
    <3>2. CASE s <= tail.cur
      <4>1. \A u : ~In(<<>>, u)  BY DEF In
      <4> QED  BY <1>1, <2>7, <3>2, <4>1 DEF Covers, FeedCover, Clean
    <3>3. CASE ~(s <= tail.cur)
      <4>1. s > tail.cur  BY <1>3, <3>1, <3>3
      <4>2. log[s] # Gone
        <5>1. log[s] = Gone => s < floor  BY <3>1 DEF Inv, Marks
        <5>2. row < s  BY <2>7
        <5> HIDE DEF s
        <5> QED  BY <1>3, <3>1, <5>1, <5>2
      <4>3. s <= l  BY <2>7
      <4> HIDE DEF s
      <4>4. PICK i \in 1..Len(w) : w[i] = s  BY <2>1, <3>1, <4>1, <4>2, <4>3
      <4>5. In(v, s)  BY <2>5, <4>4 DEF In
      <4> QED  BY <4>5 DEF s
    <3> QED  BY <3>2, <3>3
  <2>8. FeedCover'  BY <1>2, <2>6, <2>7 DEF FeedCover, Settled
  <2>9. SeedCover'  BY <2>6 DEF SeedCover, SeedPages
  <2> QED  BY <1>2, <1>4, <2>8, <2>9, LostOn DEF Covers
<1> QED  BY <1>5, <1>6 DEF FeedRows

(* One row is materialized.                                                *)
LEMMA FeedDocsCovers ==
  ASSUME Inv, Covers, FeedDocs
  PROVE  Covers'
<1> DEFINE r == Head(tail.win)
           todo == tail.todo \o Materialized(Head(tail.win))
           win == Tail(tail.win)
           p == IF win = <<>> /\ todo # <<>> THEN row ELSE tail.pos
           pc == CASE win # <<>> -> "feedDocs" [] win = <<>> /\ todo # <<>> -> "work"
                   [] OTHER -> "feedRows"
<1>1. tail.pc = "feedDocs" /\ tail.pc \in Feeds /\ tail \in Tails /\ tail.win # <<>>
  BY DEF FeedDocs, At, Inv, TailShape, Feeds
<1>2. UNCHANGED durable /\ UNCHANGED <<doc, row, ledger>>  BY DEF FeedDocs, durable
<1>3. /\ \A s : In(tail.todo, s) => In(todo, s)
      /\ \A d \in Docs : Carries(d, r.seq, doc) => In(todo, r.seq)
  BY FeedDocsIs
<1>4. \A s : In(tail.win, s) => In(win, s) \/ r.seq = s
  BY <1>1, TailTypes, ShiftedRefs
<1>5. tail' = [tail EXCEPT !.win = win, !.todo = todo, !.pos = p, !.pc = pc]
  BY DEF FeedDocs
<1>6. pc \in {"feedDocs", "work", "feedRows"}  OBVIOUS
<1> HIDE DEF r, todo, win, p, pc
<1>7. /\ tail'.win = win /\ tail'.todo = todo /\ tail'.pc = pc
      /\ tail'.cur = tail.cur /\ tail'.staged = tail.staged
  BY <1>1, <1>5 DEF Tails
<1>8. ASSUME NEW d \in Docs, Matches(doc[d]), row < doc[d].seq, doc[d].seq <= tail.cur
      PROVE  \/ In(win, doc[d].seq) \/ In(todo, doc[d].seq)
             \/ In(tail.staged, doc[d].seq) \/ Settled(doc[d].seq)
  <2>1. \/ In(tail.win, doc[d].seq) \/ In(tail.todo, doc[d].seq)
        \/ In(tail.staged, doc[d].seq) \/ Settled(doc[d].seq)
    BY <1>1, <1>8 DEF Covers, FeedCover
  <2>2. CASE r.seq = doc[d].seq
    <3>1. Carries(d, r.seq, doc)  BY <1>8, <2>2 DEF Carries, Matches
    <3> QED  BY <1>3, <2>2, <3>1
  <2> QED  BY <1>3, <1>4, <2>1, <2>2
<1>9. FeedCover'  BY <1>2, <1>7, <1>8 DEF FeedCover, Settled
<1>10. SeedCover'  BY <1>6, <1>7 DEF SeedCover, SeedPages
<1>11. Watched  BY <1>1, Ends DEF Watched
<1> QED  BY <1>2, <1>9, <1>10, <1>11, LostOn DEF Covers

(* One change of the batch (attach).                                       *)
LEMMA WorkChangeCovers ==
  ASSUME Inv, Covers, WorkChange
  PROVE  Covers'
<1> DEFINE c == Head(tail.todo)
           q == Tail(tail.todo)
           p == c.seq
<1>1. tail.pc = "work" /\ tail \in Tails /\ tail.todo # <<>>
  BY DEF WorkChange, At, Inv, TailShape
<1>2. UNCHANGED durable /\ UNCHANGED <<doc, row, seedRow, floor, ledger>>  BY DEF WorkChange, durable
<1>3. CASE ~c.match /\ tail' = Next1([tail EXCEPT !.todo = q, !.pos = p], "work", "flush")
  <2> DEFINE t == [tail EXCEPT !.todo = q, !.pos = p]
  <2>1. c \in Change /\ q \in Seq(Change)  BY <1>1, TailTypes, Shifted
  <2>2. p \in 0..MaxSeq
    <3> HIDE DEF c
    <3>1. p \in Seqs  BY <2>1, ChangeTypes
    <3> QED  BY <3>1, BoundsAssumption DEF Seqs
  <2>3. tail' = Next1(t, "work", "flush")  BY <1>3
  <2>4. t \in Tails /\ t.todo = q /\ t.staged = tail.staged /\ t.cur = tail.cur
    <3> HIDE DEF q, p
    <3> QED  BY <1>1, <2>1, <2>2 DEF Tails
  <2> HIDE DEF t
  <2>5. Same(t, tail') /\ tail'.pc \in {"work", "flush"}  BY <2>3, <2>4, FeedNext
  <2>6. tail'.pc \in Feeds /\ tail'.todo = q /\ tail'.staged = tail.staged /\ tail'.cur = tail.cur
    BY <2>4, <2>5 DEF Same, Feeds
  <2> QED  BY <1>1, <1>2, <1>3, <2>6, FeedPops
<1>4. CASE c.match /\ tail' = [tail EXCEPT !.pc = "busy"]
  <2>1. Same(tail, tail') /\ tail'.pc = "busy"  BY <1>1, <1>4 DEF Tails, Same
  <2> QED  BY <1>1, <1>2, <2>1, CoversSame DEF Feeds
<1> QED  BY <1>3, <1>4 DEF WorkChange, Goto

(* Its outcome is recorded at once, its output waits (attach).             *)
LEMMA ChangeWorkedCovers ==
  ASSUME Inv, Covers, ChangeWorked
  PROVE  Covers'
<1> DEFINE c == Head(tail.todo)
<1>1. /\ tail.pc = "busy" /\ tail \in Tails /\ tail.todo # <<>> /\ tail.staged \in Seq(Change)
      /\ tail.todo \in Seq(Change)
  BY TailTypes DEF ChangeWorked, At, Inv, TailShape
<1>2. UNCHANGED <<doc, row, seedRow, floor>>  BY DEF ChangeWorked
<1>3. PICK r \in {"done", "deferred", "failed"} :
        /\ ledger' = [ledger EXCEPT ![c.seq] = r]
        /\ Served(Next1([Worked(tail, r) EXCEPT !.pos = c.seq], "work", "flush"))
  BY DEF ChangeWorked
<1> DEFINE w == Worked(tail, r)
           p == c.seq
           t == [w EXCEPT !.pos = p]
<1>4. c \in Change  BY <1>1, Shifted
<1>5. c.seq \in Seqs /\ c.seq \in 0..MaxSeq
  <2> HIDE DEF c
  <2>1. c.seq \in Seqs  BY <1>4, ChangeTypes
  <2> QED  BY <2>1, BoundsAssumption DEF Seqs
<1>6. /\ \A s \in Seqs : s # c.seq => ledger'[s] = ledger[s]
      /\ ledger'[c.seq] = r
  <2>1. ledger \in [Seqs -> Outcomes \cup {None}]  BY DEF Inv, Marks
  <2> HIDE DEF c
  <2> QED  BY <1>3, <1>5, <2>1
<1>7. CASE Caught
  <2>1. tail'.pc \in Resting  BY <1>1, <1>7, Catches DEF Resting
  <2>2. NothingLost'  BY <1>1, <1>2, <1>6, <2>1, FeedPops
  <2> QED  BY <2>1, <2>2, CoverRests DEF Covers
<1>8. CASE tail' = Next1(t, "work", "flush")
  <2>1. /\ w \in Tails /\ w.todo = Tail(tail.todo) /\ w.cur = tail.cur
        /\ w.staged = IF r = "done" THEN Append(tail.staged, c) ELSE tail.staged
    BY <1>1, WorkedIs
  <2> HIDE DEF w, c
  <2>2. t \in Tails /\ t.todo = Tail(tail.todo) /\ t.cur = tail.cur /\ t.staged = w.staged
    BY <1>5, <2>1 DEF Tails
  <2> HIDE DEF t
  <2>3. Same(t, tail') /\ tail'.pc \in Feeds  BY <1>8, <2>2, FeedNext DEF Feeds
  <2>4. tail'.todo = Tail(tail.todo) /\ tail'.cur = tail.cur /\ tail'.staged = w.staged
    BY <2>2, <2>3 DEF Same
  <2>5. \A s : In(Append(tail.staged, c), s) <=> In(tail.staged, s) \/ c.seq = s
    BY <1>1, <1>4, Pushed
  <2>6. \A s : In(tail.staged, s) => In(tail'.staged, s)  BY <2>1, <2>4, <2>5
  <2>7. In(tail'.staged, c.seq) \/ ledger'[c.seq] \in Verdicts
    BY <1>6, <2>1, <2>4, <2>5 DEF Verdicts
  <2> QED  BY <1>1, <1>2, <1>6, <2>3, <2>4, <2>6, <2>7, FeedPops DEF c
<1> QED  BY <1>3, <1>7, <1>8 DEF Served

(* A seed begins at the head: all that matches is ahead of it.             *)
LEMMA SeedBeginCovers ==
  ASSUME Inv, SeedBegin
  PROVE  Covers'
<1>1. tail.pc = "seedBegin" /\ tail \in Tails /\ seedRow' = 0 /\ UNCHANGED <<doc, log>>
  BY Ends DEF SeedBegin, At
<1>2. tail'.pc \in Resting \cup {"seedPage"}
  <2>1. CASE Caught  BY <1>1, <2>1, Catches DEF Resting
  <2>2. CASE tail' = [tail EXCEPT !.pc = "seedPage", !.after = 0]
    BY <1>1, <2>2 DEF Tails
  <2> QED  BY <2>1, <2>2 DEF SeedBegin, Served
<1>3. \A d \in Docs : Matches(doc[d]) => doc[d].seq > 0
  <2>1. \A d \in Docs : Matches(doc[d]) => doc[d].seq \in 1..headSeq /\ headSeq \in Nat
    BY Ends DEF Inv, Corpus, Matches
  <2> QED  BY <2>1
<1>4. 0 # None  BY Names
<1>5. NothingLost'  BY <1>1, <1>3, <1>4 DEF NothingLost, Seeding
<1> QED  BY <1>2, <1>5, CoverRests DEF Covers

(* A seed ends: nothing is ahead of its cursor.                            *)
LEMMA SeedEndCovers ==
  ASSUME Inv, Covers, SeedEnd
  PROVE  Covers'
<1>1. /\ tail.pc = "seedEnd" /\ tail.pc \in Seeds /\ tail \in Tails /\ seedRow' = None
      /\ UNCHANGED <<doc, row, floor, ledger>>
  BY Ends DEF SeedEnd, At, Seeds
<1>2. row # None /\ row = tail.h0 /\ seedRow = tail.after /\ row \in Nat /\ tail.after \in Nat
  BY <1>1, Ends
<1>3. Watched  BY <1>1, <1>2 DEF Watched
<1>4. ASSUME NEW d \in Docs, Matches(doc[d]), doc[d].seq <= row
      PROVE  Settled(doc[d].seq)
  <2>1. ~(tail.after < doc[d].seq)  BY <1>1, <1>2, <1>4 DEF Covers, SeedCover
  <2>2. ~Seeding(doc[d].seq)  BY <1>2, <2>1 DEF Seeding
  <2> QED  BY <1>3, <1>4, <2>2 DEF Covers, NothingLost
<1>5. NothingLost'  BY <1>1, <1>4 DEF NothingLost, Settled
<1>6. CASE Caught
  <2>1. tail'.pc \in Resting  BY <1>1, <1>6, Catches DEF Resting
  <2> QED  BY <1>5, <2>1, CoverRests DEF Covers
<1>7. CASE tail' = [tail EXCEPT !.pc = "feedRows", !.cur = row, !.after = 0, !.h0 = 0]
  <2>1. tail'.pc = "feedRows" /\ tail'.cur = row  BY <1>1, <1>7 DEF Tails
  <2>2. \A d \in Docs : ~(row < doc[d].seq /\ doc[d].seq <= row)
    <3>1. \A d \in Docs : doc[d].seq \in Nat
      BY BoundsAssumption DEF Inv, Corpus, CorpusTypes, Document
    <3> QED  BY <1>2, <3>1
  <2>3. FeedCover'  BY <1>1, <2>1, <2>2 DEF FeedCover
  <2>4. SeedCover'  BY <2>1 DEF SeedCover, SeedPages
  <2> QED  BY <1>5, <2>3, <2>4 DEF Covers
<1> QED  BY <1>6, <1>7 DEF SeedEnd, Served

(* A document that still matches after a flush has no output in it.        *)
LEMMA Flushed ==
  ASSUME Inv, Enrich(tail.staged), NEW d \in Docs, Matches(doc'[d])
  PROVE  /\ doc'[d] = doc[d] /\ Matches(doc[d]) /\ doc[d].seq \in Nat /\ doc[d].seq \in Seqs
         /\ ~In(tail.staged, doc[d].seq)
<1> DEFINE q == tail.staged
<1>1. q \in Seq(Change) /\ AllMatch(q) /\ AllTell(q, doc, headSeq) /\ Corpus
  BY Ends, TailTypes DEF Inv, TailReads
<1>2. doc'[d] = doc[d] /\ \A i \in 1..Len(q) : q[i].doc # d
  BY <1>1, Written
<1>3. Matches(doc[d]) /\ doc[d].seq \in 1..headSeq /\ Carries(d, doc[d].seq, doc)
  BY <1>1, <1>2 DEF Corpus, Matches, Carries
<1>4. doc[d].seq \in Nat /\ doc[d].seq \in Seqs  BY <1>3, Ends, BoundsAssumption DEF Seqs
<1>5. ~In(q, doc[d].seq)
  <2> SUFFICES ASSUME NEW i \in 1..Len(q), q[i].seq = doc[d].seq PROVE FALSE  BY DEF In
  <2>1. q[i].doc = d  BY <1>1, <1>3 DEF AllTell, Tells
  <2> QED  BY <1>2, <2>1
<1> QED  BY <1>2, <1>3, <1>4, <1>5

(* Outputs and outcomes of the page are flushed together; the seed cursor  *)
(* moves with the page's last flush (flush in seedConsumer).               *)
LEMMA SeedCommitCovers ==
  ASSUME Inv, Covers, SeedCommit
  PROVE  Covers'
<1>1. /\ tail.pc = "seedCommit" /\ tail.pc \in SeedPages /\ tail.pc \in Seeds /\ tail \in Tails
      /\ Enrich(tail.staged) /\ ledger' = LedgerWith(tail.led) /\ UNCHANGED <<row, floor>>
  BY Ends DEF SeedCommit, At, SeedPages, Seeds
<1>2. row # None /\ row \in Nat /\ seedRow # None /\ seedRow = tail.after /\ seedRow \in Nat /\ tail.pos \in Nat
  BY <1>1, Ends
<1>3. Watched  BY <1>1, <1>2 DEF Watched
<1>f. Bounded(tail) \/ tail.todo = <<>>  BY <1>1 DEF Inv, TailShape
<1>4. \A s \in Seqs : \/ ledger'[s] = ledger[s] /\ \A e \in tail.led : e.seq # s
                      \/ \E e \in tail.led : e.seq = s /\ ledger'[s] = e.outcome
  <2>1. tail.led \in SUBSET Leds /\ \A e \in tail.led : e.seq <= headSeq
    BY <1>1, TailTypes DEF Inv, TailReads
  <2> QED  BY <1>1, <2>1, LedgerTypes DEF Inv
<1>5. ASSUME NEW d \in Docs, Matches(doc'[d])
      PROVE  /\ doc'[d] = doc[d] /\ Matches(doc[d]) /\ doc[d].seq \in Nat
             /\ ~In(tail.staged, doc[d].seq)
             /\ Settled(doc[d].seq) \/ (\E e \in tail.led : e.seq = doc[d].seq) =>
                  ledger'[doc[d].seq] \in Verdicts
  <2>1. /\ doc'[d] = doc[d] /\ Matches(doc[d]) /\ doc[d].seq \in Nat /\ doc[d].seq \in Seqs
        /\ ~In(tail.staged, doc[d].seq)
    BY <1>1, <1>5, Flushed
  <2>2. ASSUME NEW e \in tail.led, e.seq = doc[d].seq PROVE e.outcome \in Verdicts
    <3>1. e.outcome \in Outcomes  BY <1>1, TailTypes DEF Leds
    <3>2. e.outcome \notin {"skip", "done"}  BY <2>1, <2>2 DEF Inv, TailReads
    <3> QED  BY <3>1, <3>2 DEF Outcomes, Verdicts
  <2>3. Settled(doc[d].seq) \/ (\E e \in tail.led : e.seq = doc[d].seq) =>
          ledger'[doc[d].seq] \in Verdicts
    BY <1>4, <2>1, <2>2 DEF Settled, Verdicts
  <2> QED  BY <2>1, <2>3
<1>6. ASSUME NEW d \in Docs, Matches(doc'[d]), tail.after < doc[d].seq, doc[d].seq <= tail.pos
      PROVE  In(tail.todo, doc[d].seq) \/ ledger'[doc[d].seq] \in Verdicts
  <2>1. Matches(doc[d])  BY <1>5, <1>6
  <2>2. \/ In(tail.todo, doc[d].seq) \/ In(tail.staged, doc[d].seq)
        \/ Settled(doc[d].seq) \/ \E e \in tail.led : e.seq = doc[d].seq
    BY <1>1, <1>6, <2>1 DEF Covers, SeedCover
  <2> QED  BY <1>5, <1>6, <2>2
<1>7. ASSUME NEW d \in Docs, Matches(doc'[d]), doc[d].seq <= row
      PROVE  doc[d].seq > seedRow \/ ledger'[doc[d].seq] \in Verdicts
  <2>1. Matches(doc[d])  BY <1>5, <1>7
  <2>2. Seeding(doc[d].seq) \/ Settled(doc[d].seq)  BY <1>3, <1>7, <2>1 DEF Covers, NothingLost
  <2> QED  BY <1>5, <1>7, <2>2 DEF Seeding
<1>8. NothingLost'
  <2> SUFFICES ASSUME NEW d \in Docs, Matches(doc'[d]), doc'[d].seq <= row
               PROVE  (seedRow' # None /\ doc'[d].seq > seedRow') \/ ledger'[doc'[d].seq] \in Verdicts
    BY <1>1 DEF NothingLost, Seeding, Settled, Verdicts
  <2>1. doc'[d] = doc[d] /\ doc[d].seq \in Nat  BY <1>5
  <2>2. doc[d].seq > seedRow \/ ledger'[doc[d].seq] \in Verdicts  BY <1>7, <2>1
  <2>3. CASE ~Bounded(tail)
    <3>1. seedRow' = tail.pos /\ seedRow' # None  BY <1>2, <2>3, Names DEF SeedCommit
    <3>2. ~In(tail.todo, doc[d].seq)  BY <1>f, <2>3 DEF In
    <3>3. tail.after < doc[d].seq /\ doc[d].seq <= tail.pos => ledger'[doc[d].seq] \in Verdicts
      BY <1>6, <3>2
    <3> QED  BY <1>2, <2>1, <2>2, <3>1, <3>3
  <2>4. CASE Bounded(tail)
    <3>1. seedRow' = seedRow  BY <2>4 DEF SeedCommit
    <3> QED  BY <1>2, <2>1, <2>2, <3>1
  <2> QED  BY <2>3, <2>4
<1>9. CASE tail'.pc \in Resting \cup {"seedPage"}
  BY <1>8, <1>9, CoverRests DEF Covers
<1>10. CASE Caught
  <2>1. tail'.pc \in Resting  BY <1>1, <1>10, Catches DEF Resting
  <2> QED  BY <1>9, <2>1
<1>11. CASE /\ ~Bounded(tail)
            /\ tail' = [[tail EXCEPT !.staged = <<>>, !.led = {}] EXCEPT !.pc = "seedPage", !.after = tail.pos, !.pos = 0]
  <2> DEFINE t == [tail EXCEPT !.staged = <<>>, !.led = {}]
  <2>1. t \in Tails  BY <1>1, Unstaged
  <2>2. tail' = [t EXCEPT !.pc = "seedPage", !.after = tail.pos, !.pos = 0]  BY <1>11
  <2> HIDE DEF t
  <2>3. tail'.pc = "seedPage"  BY <2>1, <2>2 DEF Tails
  <2> QED  BY <1>9, <2>3
<1>12. CASE /\ Bounded(tail)
            /\ tail' = Next1([tail EXCEPT !.staged = <<>>, !.led = {}], "seedWork", "seedFlush")
  <2> DEFINE t == [tail EXCEPT !.staged = <<>>, !.led = {}]
  <2>1. t \in Tails /\ t.todo = tail.todo /\ t.after = tail.after /\ t.pos = tail.pos
    BY <1>1, Unstaged
  <2>2. tail' = Next1(t, "seedWork", "seedFlush")  BY <1>12
  <2> HIDE DEF t
  <2>3. Same(t, tail') /\ tail'.pc \in {"seedWork", "seedFlush"}  BY <2>1, <2>2, SeedNext
  <2>4. tail'.todo = tail.todo /\ tail'.after = tail.after /\ tail'.pos = tail.pos
    BY <2>1, <2>3 DEF Same
  <2>5. \A d \in Docs : Matches(doc'[d]) => doc'[d] = doc[d]  BY <1>5
  <2>6. SeedCover'  BY <1>6, <2>3, <2>4, <2>5 DEF SeedCover, Settled, Verdicts
  <2>7. FeedCover'  BY <2>3 DEF FeedCover, Feeds
  <2> QED  BY <1>8, <2>6, <2>7 DEF Covers
<1> QED  BY <1>10, <1>11, <1>12 DEF SeedCommit, Served

(* Outputs of the batch are flushed; the cursor moves with the last flush, *)
(* past what is settled (commit in attach).                                *)
LEMMA CommitCovers ==
  ASSUME Inv, Covers, Commit
  PROVE  Covers'
<1>1. /\ tail.pc = "commit" /\ tail.pc \in Feeds /\ tail \in Tails /\ tail.win = <<>>
      /\ tail.pos <= tail.cur /\ row < tail.pos
      /\ Enrich(tail.staged) /\ UNCHANGED <<seedRow, floor, ledger>>
  BY Ends DEF Commit, At, Feeds, Batches, Inv, TailShape
<1>2. row # None /\ row \in Nat /\ tail.pos \in Nat /\ tail.cur \in Nat
  BY <1>1, Ends
<1>3. Watched  BY <1>1, <1>2 DEF Watched
<1>4. ASSUME NEW d \in Docs, Matches(doc'[d])
      PROVE  /\ doc'[d] = doc[d] /\ Matches(doc[d]) /\ doc[d].seq \in Nat
             /\ ~In(tail.staged, doc[d].seq)
  BY <1>1, <1>4, Flushed
<1>5. ASSUME NEW d \in Docs, Matches(doc'[d]), row < doc[d].seq, doc[d].seq <= tail.cur
      PROVE  In(tail.todo, doc[d].seq) \/ Settled(doc[d].seq)
  <2>1. Matches(doc[d])  BY <1>4, <1>5
  <2>2. \/ In(tail.win, doc[d].seq) \/ In(tail.todo, doc[d].seq) \/ In(tail.staged, doc[d].seq)
        \/ Settled(doc[d].seq)
    BY <1>1, <1>5, <2>1 DEF Covers, FeedCover
  <2>3. ~In(tail.win, doc[d].seq)  BY <1>1 DEF In
  <2> QED  BY <1>4, <1>5, <2>2, <2>3
<1>6. ASSUME NEW d \in Docs, Matches(doc'[d]), doc[d].seq <= row
      PROVE  Seeding(doc[d].seq) \/ Settled(doc[d].seq)
  <2>1. Matches(doc[d])  BY <1>4, <1>6
  <2> QED  BY <1>3, <1>6, <2>1 DEF Covers, NothingLost
<1>7. row' = (IF Bounded(tail) THEN row ELSE tail.pos) /\ (Bounded(tail) \/ tail.todo = <<>>)
  BY <1>1 DEF Commit, Inv, TailShape
<1>8. NothingLost'
  <2> SUFFICES ASSUME NEW d \in Docs, Matches(doc'[d]), doc'[d].seq <= row'
               PROVE  Seeding(doc'[d].seq) \/ Settled(doc'[d].seq)
    BY <1>1 DEF NothingLost, Seeding, Settled
  <2>1. doc'[d] = doc[d] /\ doc[d].seq \in Nat  BY <1>4
  <2>2. CASE doc[d].seq <= row  BY <1>6, <2>1, <2>2
  <2>3. CASE row < doc[d].seq
    <3>1. tail.todo = <<>> /\ row' = tail.pos  BY <1>2, <1>7, <2>1, <2>3
    <3>2. doc[d].seq <= tail.cur  BY <1>1, <1>2, <2>1, <3>1
    <3>3. ~In(tail.todo, doc[d].seq)  BY <3>1 DEF In
    <3> QED  BY <1>5, <2>1, <2>3, <3>2, <3>3
  <2> QED  BY <1>2, <2>1, <2>2, <2>3
<1>9. CASE Caught
  <2>1. tail'.pc \in Resting  BY <1>1, <1>9, Catches DEF Resting
  <2> QED  BY <1>8, <2>1, CoverRests DEF Covers
<1>10. ASSUME tail'.pc \in Feeds, tail'.cur = tail.cur, tail'.todo = tail.todo
       PROVE  Covers'
  <2>1. ASSUME NEW d \in Docs, Matches(doc'[d]), row' < doc'[d].seq, doc'[d].seq <= tail.cur
        PROVE  In(tail.todo, doc'[d].seq) \/ Settled(doc'[d].seq)
    <3>1. doc'[d] = doc[d] /\ doc[d].seq \in Nat  BY <1>4, <2>1
    <3>2. row < doc[d].seq  BY <1>1, <1>2, <1>7, <2>1, <3>1
    <3> QED  BY <1>5, <2>1, <3>1, <3>2
  <2>2. FeedCover'  BY <1>1, <1>10, <2>1 DEF FeedCover, Settled
  <2>3. SeedCover'
    <3>1. tail'.pc \notin SeedPages /\ tail'.pc # "seedEnd"  BY <1>10 DEF Feeds, SeedPages
    <3> QED  BY <3>1 DEF SeedCover
  <2> QED  BY <1>8, <2>2, <2>3 DEF Covers
<1> DEFINE t == [tail EXCEPT !.staged = <<>>]
<1>11. t \in Tails /\ t.todo = tail.todo /\ t.cur = tail.cur  BY <1>1, Unstaged
<1>12. CASE tail' = [t EXCEPT !.pc = "feedRows", !.pos = 0, !.retries = 0]
  <2> HIDE DEF t
  <2>1. tail'.pc = "feedRows" /\ tail'.cur = tail.cur /\ tail'.todo = tail.todo
    BY <1>11, <1>12 DEF Tails
  <2> QED  BY <1>10, <2>1 DEF Feeds
<1>13. CASE tail' = Next1(t, "work", "flush")
  <2> HIDE DEF t
  <2>1. tail'.pc \in {"work", "flush"} /\ tail'.cur = tail.cur /\ tail'.todo = tail.todo
    BY <1>11, <1>13, FeedNext DEF Same
  <2> QED  BY <1>10, <2>1 DEF Feeds
<1> QED  BY <1>9, <1>12, <1>13 DEF Commit, Served

(* The re-drive reads, flushes outputs, and records what it settled: no    *)
(* document that waits loses its verdict (rerunDeferred).                  *)
LEMMA RedriveCovers ==
  ASSUME Inv, Covers, RedriveStep \/ RedriveStart \/ RedriveEnds
  PROVE  Covers'
<1>0. Corpus /\ floor \in Nat /\ floor <= floor /\ doc \in [Docs -> Document]
  BY Ends DEF Inv, Corpus, CorpusTypes
<1>1. CASE RedriveFlush
  <2>1. Grows  BY <1>1, RedriveFlushes
  <2>2. Renumbers /\ doc' \in [Docs -> Document]  BY <1>0, <2>1, GrowsRenumbers DEF Grows
  <2>3. UNCHANGED <<row, seedRow, floor, ledger>> /\ tail' \in {tail, Woken(tail)}
    BY <1>1 DEF RedriveFlush
  <2> QED  BY <1>0, <2>2, <2>3, CoverOn DEF Covers, Settled, Verdicts
<1>2. CASE RedriveRecord
  <2>1. UNCHANGED <<doc, log, row, seedRow, floor, tail>> /\ ledger' = LedgerWith(redrive.led)
        /\ redrive.pc = "record"
    BY <1>2 DEF RedriveRecord, RAt
  <2>2. Renumbers  BY <2>1, SameCorpus
  <2>3. redrive.led \in SUBSET Leds /\ \A e \in redrive.led : e.seq <= headSeq
    BY RedriveTypes DEF Inv, RedriveOK
  <2>4. \A s \in Seqs : \/ ledger'[s] = ledger[s]
                        \/ \E e \in redrive.led : e.seq = s /\ ledger'[s] = e.outcome
    BY <2>1, <2>3, LedgerTypes DEF Inv
  <2>5. ASSUME NEW d \in Docs, Matches(doc[d]), Settled(doc[d].seq)
        PROVE  ledger'[doc[d].seq] \in Verdicts
    <3>1. doc[d].seq \in 1..headSeq /\ Carries(d, doc[d].seq, doc)
      BY <1>0, <2>5 DEF Corpus, Matches, Carries
    <3>2. doc[d].seq \in Seqs  BY <3>1, Ends, BoundsAssumption DEF Seqs
    <3>3. ASSUME NEW e \in redrive.led, e.seq = doc[d].seq PROVE e.outcome \in Verdicts
      <4>1. e.outcome \in Outcomes  BY <2>3 DEF Leds
      <4>2. redrive.staged = <<>>  BY <2>1 DEF Inv, RedriveOK
      <4>3. ~In(redrive.staged, e.seq)  BY <4>2 DEF In
      <4>4. e.outcome \notin {"done", "skip"}  BY <2>5, <3>1, <3>3, <4>3 DEF Inv, RedriveOK
      <4> QED  BY <4>1, <4>4 DEF Outcomes, Verdicts
    <3> QED  BY <2>4, <2>5, <3>2, <3>3 DEF Settled, Verdicts
  <2> QED  BY <1>0, <2>1, <2>2, <2>5, CoverOn DEF Covers
<1>3. CASE RedriveList \/ RedriveResolve \/ RedriveWork \/ RedriveStart \/ RedriveEnds
  <2>1. UNCHANGED <<durable, tail>>
    BY <1>3 DEF RedriveList, RedriveResolve, RedriveWork, RedriveStart, RedriveEnds
  <2>2. UNCHANGED <<doc, log, row, seedRow, floor, ledger, tail>>  BY <2>1 DEF durable
  <2>3. Renumbers  BY <2>2, SameCorpus
  <2> QED  BY <1>0, <2>2, <2>3, CoverOn DEF Covers, Settled, Verdicts
<1> QED  BY <1>1, <1>2, <1>3 DEF RedriveStep

(* A prune moves no document and raises the floor only.                    *)
LEMMA PruneCovers ==
  ASSUME Inv, Covers, PruneStep
  PROVE  Covers'
<1>0. floor \in Nat /\ doc \in [Docs -> Document] /\ headSeq \in Nat /\ headSeq <= MaxSeq
      /\ prune.limit \in Nat /\ MaxSeq \in Nat
  BY Ends, BoundsAssumption DEF Inv, Corpus, CorpusTypes
<1>1. UNCHANGED <<doc, row, seedRow, ledger, tail>>
  BY DEF PruneStep, PruneFloor, PruneLimits, PrunePublish, PruneDelete, durable
<1>2. headSeq' = headSeq
  <2>1. CASE PruneFloor \/ PruneLimits \/ PrunePublish
    BY <2>1 DEF PruneFloor, PruneLimits, PrunePublish, durable, headSeq
  <2>2. CASE PruneDelete
    <3> DEFINE m == Min({s \in DOMAIN log : s < prune.limit /\ log[s] # Gone})
    <3>1. log' = log \/ log' = [log EXCEPT ![m] = Gone]  BY <2>2 DEF PruneDelete
    <3> HIDE DEF m
    <3>2. log \in Seq(Docs \cup {Noise, Gone})  BY DEF Inv, Corpus, CorpusTypes
    <3>3. Len([log EXCEPT ![m] = Gone]) = Len(log)
      <4> DEFINE T == Docs \cup {Noise, Gone}
      <4>1. log \in Seq(T) /\ Gone \in T  BY <3>2
      <4> HIDE DEF T
      <4> QED  BY <4>1
    <3> QED  BY <3>1, <3>3 DEF headSeq
  <2> QED  BY <2>1, <2>2 DEF PruneStep
<1>3. Renumbers
  <2>1. headSeq <= headSeq'  BY <1>0, <1>2
  <2> QED  BY <1>1, <2>1 DEF Renumbers
<1>4. floor' \in Nat /\ floor <= floor'
  <2>1. CASE PrunePublish
    <3>1. floor' = Max({floor, prune.limit})  BY <2>1 DEF PrunePublish
    <3>2. floor \in 0..MaxSeq /\ prune.limit \in 0..MaxSeq
      BY DEF Inv, Marks, Pruned, Prunes
    <3>3. floor' \in 0..MaxSeq /\ floor <= floor'  BY <1>0, <3>1, <3>2, Max2
    <3> QED  BY <1>0, <3>3
  <2>2. CASE PruneFloor \/ PruneLimits \/ PruneDelete
    <3>1. floor' = floor  BY <2>2 DEF PruneFloor, PruneLimits, PruneDelete, durable
    <3> QED  BY <1>0, <3>1
  <2> QED  BY <2>1, <2>2 DEF PruneStep
<1> QED  BY <1>0, <1>1, <1>3, <1>4, CoverOn DEF Covers, Settled, Verdicts

(* The world around the loop.                                              *)
LEMMA WorldCovers ==
  ASSUME Inv, Covers, World
  PROVE  Covers'
<1>0. Corpus /\ floor \in Nat /\ floor <= floor /\ doc \in [Docs -> Document]
  BY Ends DEF Inv, Corpus, CorpusTypes
<1>1. CASE (\E d \in Docs : Upsert(d) \/ Archive(d) \/ Purge(d)) \/ AccountChange
  <2>1. Grows  BY <1>1, SourcesGrow
  <2>2. Renumbers /\ doc' \in [Docs -> Document]  BY <1>0, <2>1, GrowsRenumbers DEF Grows
  <2>3. UNCHANGED <<row, seedRow, floor, ledger>> /\ tail' \in {tail, Woken(tail)}
    BY <1>1 DEF Upsert, Archive, Purge, AccountChange, Env
  <2> QED  BY <1>0, <2>2, <2>3, CoverOn DEF Covers, Settled, Verdicts
<1>2. CASE Age \/ LaunchWithout \/ QuitWithout \/ OthersSettle
  <2>1. UNCHANGED <<doc, log, row, seedRow, floor, ledger, tail>>
    BY <1>2 DEF Age, LaunchWithout, QuitWithout, OthersSettle, durable
  <2>2. Renumbers  BY <2>1, SameCorpus
  <2> QED  BY <1>0, <2>1, <2>2, CoverOn DEF Covers, Settled, Verdicts
<1>3. CASE Stop
  <2>1. UNCHANGED durable /\ (tail' = tail \/ tail' = TailOff)  BY <1>3 DEF Stop, Settle
  <2>2. CASE tail' = tail
    <3>1. UNCHANGED <<doc, log, row, seedRow, floor, ledger, tail>>  BY <2>1, <2>2 DEF durable
    <3>2. Renumbers  BY <3>1, SameCorpus
    <3> QED  BY <1>0, <3>1, <3>2, CoverOn DEF Covers, Settled, Verdicts
  <2>3. CASE tail' = TailOff
    <3>1. tail'.pc \in Resting  BY <2>3 DEF TailOff, Resting
    <3> QED  BY <2>1, <3>1, CoversRest DEF Covers
  <2> QED  BY <2>1, <2>2, <2>3
<1>4. CASE SweepRetired
  <2>1. tail' = tail /\ row' = None /\ tail.pc = "off"
    BY <1>4 DEF SweepRetired, Inv, Flags
  <2>2. SeedCover' /\ FeedCover'  BY <2>1, CoverRests DEF Resting
  <2>3. NothingLost'  BY <2>1 DEF NothingLost, Watched
  <2> QED  BY <2>2, <2>3 DEF Covers
<1>5. CASE Attach  BY <1>5, LoopMovesCovers
<1>6. CASE RedriveStart  BY <1>6, RedriveCovers
<1> QED  BY <1>1, <1>2, <1>3, <1>4, <1>5, <1>6 DEF World

(* Every step.                                                             *)
LEMMA CoversStep ==
  ASSUME Inv, Covers, Behind, [Next]_vars
  PROVE  Covers'
<1>1. CASE TailStep
  BY <1>1, GoesOnCovers, LoopMovesCovers, SeedPageCovers, SeedWorkCovers, SeedWorkedCovers,
     FeedRowsCovers, FeedDocsCovers, WorkChangeCovers, ChangeWorkedCovers, SeedBeginCovers,
     SeedEndCovers, SeedCommitCovers, CommitCovers DEF TailStep
<1>2. CASE RedriveStep  BY <1>2, RedriveCovers
<1>3. CASE PruneStep  BY <1>3, PruneCovers
<1>4. CASE Faults  BY <1>4, LoopMovesCovers, RedriveCovers DEF Faults
<1>5. CASE World  BY <1>5, WorldCovers
<1>6. CASE UNCHANGED vars
  <2>1. UNCHANGED <<doc, log, row, seedRow, floor, ledger, tail>>  BY <1>6 DEF vars
  <2>2. Renumbers  BY <2>1, SameCorpus
  <2>3. floor \in Nat /\ floor <= floor /\ doc \in [Docs -> Document]
    BY Ends DEF Inv, Corpus, CorpusTypes
  <2> QED  BY <2>1, <2>2, <2>3, CoverOn DEF Covers, Settled, Verdicts
<1> QED  BY <1>1, <1>2, <1>3, <1>4, <1>5, <1>6 DEF Next

(* How far a run of the prune will delete, as far as it is known.          *)
LEMMA LimitIs ==
  ASSUME Inv
  PROVE  /\ Limit \in Nat /\ Limit <= prune.limit
         /\ prune.pc = "limits" => Limit <= cutoff /\ Limit \in {prune.limit, cutoff}
<1>1. prune.limit \in Nat /\ cutoff \in Nat  BY Ends
<1>2. LET m == Min({prune.limit, cutoff}) IN
      m \in Nat /\ m <= prune.limit /\ m <= cutoff /\ m \in {prune.limit, cutoff}
  <2>1. {prune.limit, cutoff} \in SUBSET Nat /\ {prune.limit, cutoff} # {}  BY <1>1
  <2>2. /\ Min({prune.limit, cutoff}) \in {prune.limit, cutoff}
        /\ \A m \in {prune.limit, cutoff} : Min({prune.limit, cutoff}) <= m
    BY <2>1, LeastOf
  <2> QED  BY <1>1, <2>2
<1>3. prune.limit <= prune.limit  BY <1>1
<1> QED  BY <1>1, <1>2, <1>3 DEF Limit

(* Steps that do not move the prune: the cursor, the head and the seed's   *)
(* start stay ahead of it.                                                 *)
LEMMA BehindOn ==
  ASSUME Inv, Inv', Behind, prune' \in {prune, PruneIdle}, UNCHANGED floor, headSeq <= headSeq',
         prune'.pc # "idle" =>
           /\ cutoff' = cutoff
           /\ others' # "alone" /\ row' # None =>
                \/ row # None /\ row <= row' /\ others # "alone"
                \/ Limit <= row' + 1,
         tail'.pc = "seedBegin" => tail.pc = "seedBegin" /\ tail'.h0 = tail.h0 /\ cutoff' = cutoff,
         tail'.pc \in Seeds \cup Feeds => floor <= row' + 1
  PROVE  Behind'
<1>1. Limit \in Nat /\ headSeq \in Nat /\ headSeq' \in Nat /\ (row # None => row \in Nat)
      /\ (row' # None => row' \in Nat)
  <2>1. headSeq' \in Nat  BY DEF Inv, Corpus, CorpusTypes, headSeq
  <2>2. row' # None => row' \in Nat  BY BoundsAssumption DEF Inv, Marks
  <2> QED  BY <2>1, <2>2, LimitIs, Ends
<1>2. ASSUME prune'.pc # "idle"
      PROVE  /\ Limit' = Limit /\ prune.pc # "idle"
             /\ others' # "alone" /\ row' # None => Limit <= row' + 1
             /\ Limit <= headSeq' + 1
             /\ tail'.pc = "seedBegin" => Limit <= tail.h0 + 1
  <2>1. prune' = prune /\ cutoff' = cutoff  BY <1>2 DEF PruneIdle
  <2>2. Limit' = Limit  BY <2>1 DEF Limit
  <2>3. prune.pc # "idle"  BY <1>2, <2>1
  <2>4. ASSUME others' # "alone", row' # None PROVE Limit <= row' + 1
    <3>1. CASE row # None /\ row <= row' /\ others # "alone"
      <4>1. Limit <= row + 1  BY <2>3, <3>1 DEF Behind
      <4> HIDE DEF Limit
      <4> QED  BY <1>1, <2>4, <3>1, <4>1
    <3> QED  BY <1>2, <2>4, <3>1
  <2>5. Limit <= headSeq' + 1
    <3> DEFINE h == headSeq
               g == headSeq'
               l == Limit
    <3>1. l \in Nat /\ h \in Nat /\ g \in Nat /\ h <= g /\ l <= h + 1  BY <1>1, <2>3 DEF Behind
    <3> HIDE DEF h, g, l
    <3>2. l <= g + 1  BY <3>1
    <3> QED  BY <3>2 DEF g, l
  <2>6. tail'.pc = "seedBegin" => Limit <= tail.h0 + 1  BY <2>3 DEF Behind
  <2> QED  BY <2>2, <2>3, <2>4, <2>5, <2>6
<1>3. tail'.pc = "seedBegin" => floor' <= tail'.h0 + 1 /\ cutoff' <= tail'.h0 + 1
  BY DEF Behind
<1> HIDE DEF Limit
<1>4. floor' = floor  OBVIOUS
<1> QED  BY <1>2, <1>3, <1>4 DEF Behind

(* The prune's own steps: it starts from the cursors, and takes the least. *)
LEMMA PruneBehind ==
  ASSUME Inv, Behind, Together, PruneStep
  PROVE  Behind'
<1>0. /\ headSeq \in Nat /\ MaxSeq \in Nat /\ prune.limit \in Nat /\ floor \in Nat /\ cutoff \in Nat /\ tail.h0 \in Nat
      /\ (row # None => row \in Nat) /\ Limit \in Nat
  BY Ends, LimitIs, BoundsAssumption
<1>1. UNCHANGED <<doc, cutoff, row, seedRow, ledger, tail, others>>
  BY DEF PruneStep, PruneFloor, PruneLimits, PrunePublish, PruneDelete, durable, KeepRun
<1>2. CASE PruneFloor
  <2>1. UNCHANGED <<log, floor>> /\ headSeq' = headSeq /\ "prune" \in Kinds
    BY <1>2 DEF PruneFloor, durable, headSeq
  <2>2. PICK f \in ActiveFloors : prune' = [pc |-> "limits", limit |-> f]  BY <1>2 DEF PruneFloor
  <2>3. f \in Nat /\ f <= headSeq /\ (attached /\ row # None => f <= row)
    BY FloorOf, BoundsAssumption
  <2>4. ASSUME others # "alone", row # None PROVE f <= row
    <3>1. CASE attached  BY <2>3, <2>4, <3>1
    <3>2. CASE ~attached
      <4>1. others = "none"  BY <2>1, <2>4, <3>2 DEF Together, Inv, Flags
      <4>2. ActiveFloors = {}  BY <3>2, <4>1 DEF ActiveFloors
      <4> QED  BY <4>2
    <3> QED  BY <3>1, <3>2
  <2> DEFINE l == Min({f, cutoff})
  <2>5. Limit' = l  BY <1>1, <2>2 DEF Limit
  <2>6. l \in Nat /\ l <= f /\ l <= cutoff
    <3>1. {f, cutoff} \in SUBSET Nat /\ {f, cutoff} # {}  BY <1>0, <2>3
    <3>2. l \in {f, cutoff} /\ \A m \in {f, cutoff} : l <= m  BY <3>1, LeastOf
    <3> QED  BY <1>0, <2>3, <3>2
  <2> HIDE DEF l
  <2>7. /\ others # "alone" /\ row # None => l <= row + 1
        /\ l <= headSeq + 1
        /\ tail.pc = "seedBegin" => l <= tail.h0 + 1
    <3>1. tail.pc = "seedBegin" => cutoff <= tail.h0 + 1  BY DEF Behind
    <3> QED  BY <1>0, <2>3, <2>4, <2>6, <3>1
  <2> QED  BY <1>1, <2>1, <2>5, <2>7 DEF Behind
<1>3. CASE PruneLimits
  <2>1. UNCHANGED <<log, floor>> /\ headSeq' = headSeq /\ prune.pc = "limits"
    BY <1>3 DEF PruneLimits, durable, headSeq, PAt
  <2> DEFINE l == Min({prune.limit, cutoff, headSeq})
  <2>2. prune' = [pc |-> "publish", limit |-> l]  BY <1>3 DEF PruneLimits
  <2>3. l \in Nat /\ l <= prune.limit /\ l <= cutoff  BY <1>0, Min3
  <2> HIDE DEF l
  <2>4. Limit' = l  BY <2>2 DEF Limit
  <2>5. l <= Limit
    <3>1. Limit \in {prune.limit, cutoff}  BY <2>1, LimitIs
    <3> QED  BY <2>3, <3>1
  <2>6. /\ others # "alone" /\ row # None => Limit <= row + 1
        /\ Limit <= headSeq + 1
        /\ tail.pc = "seedBegin" => Limit <= tail.h0 + 1
    BY <2>1 DEF Behind
  <2>7. /\ others # "alone" /\ row # None => l <= row + 1
        /\ l <= headSeq + 1
        /\ tail.pc = "seedBegin" => l <= tail.h0 + 1
    <3> DEFINE m == Limit
    <3>1. m \in Nat /\ l <= m  BY <1>0, <2>5
    <3>2. /\ others # "alone" /\ row # None => m <= row + 1
          /\ m <= headSeq + 1
          /\ tail.pc = "seedBegin" => m <= tail.h0 + 1
      BY <2>6
    <3> HIDE DEF m
    <3> QED  BY <1>0, <2>3, <3>1, <3>2
  <2> QED  BY <1>1, <2>1, <2>4, <2>7 DEF Behind
<1>4. CASE PrunePublish
  <2>1. UNCHANGED log /\ prune.pc = "publish" /\ prune' = [prune EXCEPT !.pc = "delete"]
        /\ floor' = Max({floor, prune.limit}) /\ headSeq' = headSeq
    BY <1>4 DEF PrunePublish, PAt, headSeq
  <2>2. prune'.pc = "delete" /\ prune'.limit = prune.limit  BY <2>1 DEF Inv, Pruned, Prunes
  <2>3. Limit = prune.limit /\ Limit' = prune.limit  BY <2>1, <2>2 DEF Limit
  <2>4. floor' \in {floor, prune.limit}
    <3>1. floor \in 0..MaxSeq /\ prune.limit \in 0..MaxSeq
      BY DEF Inv, Marks, Pruned, Prunes
    <3> QED  BY <1>0, <2>1, <3>1, Max2
  <2>5. /\ others # "alone" /\ row # None => prune.limit <= row + 1
        /\ prune.limit <= headSeq + 1
        /\ tail.pc = "seedBegin" => prune.limit <= tail.h0 + 1
    BY <2>1, <2>3 DEF Behind
  <2>6. tail.pc = "seedBegin" => floor' <= tail.h0 + 1  BY <2>4, <2>5 DEF Behind
  <2>7. tail.pc \in Seeds \cup Feeds => floor' <= row + 1
    <3>1. tail.pc \in Seeds \cup Feeds => others # "alone" /\ row # None
      BY Ends DEF Inv, Flags, Seeds, Feeds
    <3> QED  BY <2>4, <2>5, <3>1 DEF Behind
  <2> QED  BY <1>1, <2>1, <2>2, <2>3, <2>5, <2>6, <2>7 DEF Behind
<1>5. CASE PruneDelete
  <2>1. UNCHANGED floor /\ prune.pc = "delete"  BY <1>5 DEF PruneDelete, PAt
  <2>2. headSeq' = headSeq
    <3> DEFINE m == Min({s \in DOMAIN log : s < prune.limit /\ log[s] # Gone})
    <3>1. log' = log \/ log' = [log EXCEPT ![m] = Gone]  BY <1>5 DEF PruneDelete
    <3> HIDE DEF m
    <3>2. Len([log EXCEPT ![m] = Gone]) = Len(log)
      <4> DEFINE T == Docs \cup {Noise, Gone}
      <4>1. log \in Seq(T) /\ Gone \in T  BY DEF Inv, Corpus, CorpusTypes
      <4> HIDE DEF T
      <4> QED  BY <4>1
    <3> QED  BY <3>1, <3>2 DEF headSeq
  <2>3. prune' = prune \/ prune' = PruneIdle  BY <1>5 DEF PruneDelete
  <2>4. prune'.pc # "idle" => Limit' = Limit  BY <1>1, <2>3 DEF PruneIdle, Limit
  <2> QED  BY <1>1, <2>1, <2>2, <2>3, <2>4 DEF Behind, PruneIdle
<1> QED  BY <1>2, <1>3, <1>4, <1>5 DEF PruneStep

(* Only the read of the head leads to the seed's start, and only a cursor  *)
(* above the floor or a seed leads into the feed.                          *)
LEMMA TailPc ==
  ASSUME Inv, TailStep
  PROVE  /\ tail.pc # "off"
         /\ tail'.pc = "seedBegin" => SeedHead
         /\ tail'.pc \in Seeds \cup Feeds =>
              \/ tail.pc \in Seeds \cup Feeds
              \/ SeedCheck /\ Feedable
              \/ SeedBegin
<1>0. tail \in Tails /\ "pc" \in DOMAIN tail  BY Ends DEF Tails
<1>1. tail.pc # "off"
  BY DEF TailStep, TailAborts, Backoff, SeedCheck, SeedHead, SeedBegin, ReadSeedPage, SeedWork,
         SeedWorked, SeedCommit, SeedEnd, FeedRows, FeedDocs, FeedEmpty, FeedWake, WorkChange, ChangeWorked,
         Commit, Admit, At
<1>2. CASE TailAborts \/ Backoff \/ SeedHead
  <2>1. tail'.pc \in {"off", "seedCheck"} \/ (SeedHead /\ tail'.pc = "seedBegin")
    <3>1. TailAborts \/ Backoff => tail'.pc \in {"off", "seedCheck"}
      BY <1>0 DEF TailAborts, Settle, TailOff, Backoff, Goto
    <3>2. SeedHead => tail'.pc = "seedBegin"  BY <1>0 DEF SeedHead
    <3> QED  BY <1>2, <3>1, <3>2
  <2> QED  BY <1>1, <2>1 DEF Seeds, Feeds
<1>3. CASE SeedCheck
  <2>1. (Feedable /\ tail'.pc \in {"feedRows", "seedPage"}) \/ tail'.pc = "seedHead"
    BY <1>0, <1>3 DEF SeedCheck
  <2> QED  BY <1>1, <1>3, <2>1 DEF Seeds, Feeds
<1>4. CASE SeedBegin
  <2>1. tail'.pc # "seedBegin"
    <3>1. CASE Caught  BY <1>0, <3>1, Catches
    <3>2. CASE tail' = [tail EXCEPT !.pc = "seedPage", !.after = 0]  BY <1>0, <3>2
    <3> QED  BY <1>4, <3>1, <3>2 DEF SeedBegin, Served
  <2> QED  BY <1>1, <1>4, <2>1
<1>5. ASSUME NEW t, NEW w, NEW f, "pc" \in DOMAIN t PROVE Next1(t, w, f).pc \in {w, f}
  BY <1>5 DEF Next1
<1>6. CASE ReadSeedPage \/ FeedRows \/ FeedDocs \/ FeedEmpty \/ FeedWake \/ Admit
  <2>1. tail.pc \in Seeds \cup Feeds
    BY <1>6 DEF ReadSeedPage, FeedRows, FeedDocs, FeedEmpty, FeedWake, Admit, At, Seeds, Feeds
  <2>2. CASE ReadSeedPage
    BY <1>0, <1>1, <2>1, <2>2 DEF ReadSeedPage
  <2>3. CASE FeedRows
    BY <1>0, <1>1, <2>1, <2>3 DEF FeedRows
  <2>4. CASE FeedDocs
    <3> DEFINE todo == tail.todo \o Materialized(Head(tail.win))
               win == Tail(tail.win)
               p == IF win = <<>> /\ todo # <<>> THEN row ELSE tail.pos
               pc == CASE win # <<>> -> "feedDocs" [] win = <<>> /\ todo # <<>> -> "work"
                       [] OTHER -> "feedRows"
    <3>1. tail' = [tail EXCEPT !.win = win, !.todo = todo, !.pos = p, !.pc = pc]
      BY <2>4 DEF FeedDocs
    <3>2. pc # "seedBegin"  OBVIOUS
    <3> HIDE DEF todo, win, p, pc
    <3>3. tail'.pc = pc  BY <1>0, <3>1
    <3> QED  BY <1>1, <2>1, <3>2, <3>3
  <2>5. CASE FeedEmpty \/ FeedWake \/ Admit
    <3>1. tail'.pc \in {"feedWait", "feedRows", "seedCommit", "commit"}
      BY <1>0, <2>5 DEF FeedEmpty, FeedWake, Admit, Goto
    <3> QED  BY <1>1, <2>1, <3>1
  <2> QED  BY <1>6, <2>2, <2>3, <2>4, <2>5
<1>7. CASE SeedWork \/ WorkChange
  <2>1. tail.pc \in Seeds \cup Feeds
    BY <1>7 DEF SeedWork, WorkChange, At, Seeds, Feeds
  <2>2. tail'.pc \in {"seedWork", "seedFlush", "seedBusy", "work", "flush", "busy"}
    <3> DEFINE q == Tail(tail.todo)
               p == Head(tail.todo).seq
    <3>1. \/ tail' = Next1([tail EXCEPT !.todo = q], "seedWork", "seedFlush")
          \/ tail' = [tail EXCEPT !.pc = "seedBusy"]
          \/ tail' = Next1([tail EXCEPT !.todo = q, !.pos = p], "work", "flush")
          \/ tail' = [tail EXCEPT !.pc = "busy"]
      BY <1>7 DEF SeedWork, WorkChange, Goto
    <3> HIDE DEF q, p
    <3>2. "pc" \in DOMAIN [tail EXCEPT !.todo = q] /\ "pc" \in DOMAIN [tail EXCEPT !.todo = q, !.pos = p]
      BY <1>0
    <3>3. CASE tail' = Next1([tail EXCEPT !.todo = q], "seedWork", "seedFlush")
      <4> DEFINE v == [tail EXCEPT !.todo = q]
      <4>1. "pc" \in DOMAIN v /\ tail' = Next1(v, "seedWork", "seedFlush")  BY <3>2, <3>3
      <4> HIDE DEF v
      <4> QED  BY <1>5, <4>1
    <3>4. CASE tail' = Next1([tail EXCEPT !.todo = q, !.pos = p], "work", "flush")
      <4> DEFINE v == [tail EXCEPT !.todo = q, !.pos = p]
      <4>1. "pc" \in DOMAIN v /\ tail' = Next1(v, "work", "flush")  BY <3>2, <3>4
      <4> HIDE DEF v
      <4> QED  BY <1>5, <4>1
    <3>5. CASE tail' = [tail EXCEPT !.pc = "seedBusy"] \/ tail' = [tail EXCEPT !.pc = "busy"]
      BY <1>0, <3>5
    <3> QED  BY <3>1, <3>3, <3>4, <3>5
  <2> QED  BY <1>1, <2>1, <2>2
<1>8. CASE SeedWorked \/ ChangeWorked
  <2>1. tail.pc \in Seeds \cup Feeds /\ tail.todo # <<>>
    BY <1>8 DEF SeedWorked, ChangeWorked, At, Seeds, Feeds, Inv, TailShape
  <2>2. ASSUME NEW r, NEW x PROVE "pc" \in DOMAIN [Worked(tail, r) EXCEPT !.led = x]
                                  /\ "pc" \in DOMAIN [Worked(tail, r) EXCEPT !.pos = x]
    BY <1>0 DEF Worked
  <2>3. CASE SeedWorked
    <3>1. PICK r : tail' = Next1([Worked(tail, r) EXCEPT !.led = tail.led \cup
                             {[seq |-> Head(tail.todo).seq, outcome |-> r]}], "seedWork", "seedFlush")
      BY <2>3 DEF SeedWorked
    <3>2. tail'.pc \in {"seedWork", "seedFlush"}  BY <1>5, <2>2, <3>1
    <3> QED  BY <1>1, <2>1, <3>2
  <2>4. CASE ChangeWorked
    <3>1. PICK r : Served(Next1([Worked(tail, r) EXCEPT !.pos = Head(tail.todo).seq], "work", "flush"))
      BY <2>4 DEF ChangeWorked
    <3>2. CASE Caught
      <4>1. tail'.pc # "seedBegin"  BY <1>0, <3>2, Catches
      <4> QED  BY <1>1, <2>1, <4>1
    <3>3. CASE tail' = Next1([Worked(tail, r) EXCEPT !.pos = Head(tail.todo).seq], "work", "flush")
      <4>1. tail'.pc \in {"work", "flush"}  BY <1>5, <2>2, <3>3
      <4> QED  BY <1>1, <2>1, <4>1
    <3> QED  BY <3>1, <3>2, <3>3 DEF Served
  <2> QED  BY <1>8, <2>3, <2>4
<1>9. CASE SeedCommit \/ SeedEnd \/ Commit
  <2>1. tail.pc \in Seeds \cup Feeds
    BY <1>9 DEF SeedCommit, SeedEnd, Commit, At, Seeds, Feeds
  <2>2. CASE Caught
    <3>1. tail'.pc # "seedBegin"  BY <1>0, <2>2, Catches
    <3> QED  BY <1>1, <2>1, <3>1
  <2> DEFINE t == [tail EXCEPT !.staged = <<>>, !.led = {}]
             u == [tail EXCEPT !.staged = <<>>]
  <2>3. ~Caught => \/ tail' = [t EXCEPT !.pc = "seedPage", !.after = tail.pos, !.pos = 0]
                   \/ tail' = Next1(t, "seedWork", "seedFlush")
                   \/ tail' = [tail EXCEPT !.pc = "feedRows", !.cur = row, !.after = 0, !.h0 = 0]
                   \/ tail' = [u EXCEPT !.pc = "feedRows", !.pos = 0, !.retries = 0]
                   \/ tail' = Next1(u, "work", "flush")
    BY <1>9 DEF SeedCommit, SeedEnd, Commit, Served
  <2>4. "pc" \in DOMAIN t /\ "pc" \in DOMAIN u  BY <1>0
  <2> HIDE DEF t, u
  <2>5. CASE tail' = Next1(t, "seedWork", "seedFlush") \/ tail' = Next1(u, "work", "flush")
    <3>1. tail'.pc \in {"seedWork", "seedFlush", "work", "flush"}  BY <1>5, <2>4, <2>5
    <3> QED  BY <1>1, <2>1, <3>1
  <2>6. ASSUME ~Caught, tail' # Next1(t, "seedWork", "seedFlush"), tail' # Next1(u, "work", "flush")
        PROVE  tail'.pc # "seedBegin"
    BY <1>0, <2>3, <2>4, <2>6
  <2> QED  BY <1>1, <2>1, <2>2, <2>5, <2>6
<1> QED  BY <1>2, <1>3, <1>4, <1>6, <1>7, <1>8, <1>9 DEF TailStep

(* The loop's steps: a seed starts at a head the prune has not passed.     *)
LEMMA TailBehind ==
  ASSUME Inv, Inv', Behind, TailStep
  PROVE  Behind'
<1>0. /\ headSeq \in Nat /\ floor \in Nat /\ cutoff \in Nat /\ tail.h0 \in Nat /\ tail \in Tails
      /\ (row # None => row \in Nat /\ row <= headSeq) /\ Limit \in Nat
  BY Ends, LimitIs
<1>1. UNCHANGED <<cutoff, floor, prune>>
  BY DEF TailStep, TailAborts, Backoff, SeedCheck, SeedHead, SeedBegin, ReadSeedPage, SeedWork,
         SeedWorked, SeedCommit, SeedEnd, FeedRows, FeedDocs, FeedEmpty, FeedWake, WorkChange, ChangeWorked,
         Commit, Admit, durable
<1>2. /\ tail.pc # "off" /\ (tail'.pc = "seedBegin" => SeedHead)
      /\ tail'.pc \in Seeds \cup Feeds =>
           tail.pc \in Seeds \cup Feeds \/ (SeedCheck /\ Feedable) \/ SeedBegin
  BY TailPc
<1>3. others # "alone"  BY <1>2 DEF Inv, Flags
<1>4. headSeq <= headSeq'
  <2>1. CASE SeedCommit \/ Commit
    <3>1. tail.staged \in Seq(Change) /\ AllMatch(tail.staged) /\ AllTell(tail.staged, doc, headSeq)
      BY <1>0, TailTypes DEF Inv, TailReads
    <3>2. Grows  BY <2>1, <3>1, Written DEF SeedCommit, Commit, Inv
    <3> QED  BY <3>2 DEF Grows
  <2>2. CASE ~(SeedCommit \/ Commit)
    <3>1. log' = log
      BY <2>2 DEF TailStep, TailAborts, Backoff, SeedCheck, SeedHead, SeedBegin, ReadSeedPage, SeedWork,
         SeedWorked, SeedEnd, FeedRows, FeedDocs, FeedEmpty, FeedWake, WorkChange, ChangeWorked,
         Admit, durable
    <3> QED  BY <1>0, <3>1 DEF headSeq
  <2> QED  BY <2>1, <2>2
<1>5. CASE SeedHead
  <2>1. tail'.pc = "seedBegin" /\ tail'.h0 = headSeq  BY <1>0, <1>5 DEF SeedHead, Tails
  <2>2. UNCHANGED <<row, log, others>> /\ headSeq' = headSeq  BY <1>5 DEF SeedHead, durable, KeepRun, headSeq
  <2>3. floor <= headSeq + 1 /\ cutoff <= headSeq + 1
    <3>1. floor <= headSeq  BY DEF Inv, Marks
    <3> QED  BY <1>0, <3>1 DEF Inv, Marks
  <2>4. Limit' = Limit  BY <1>1 DEF Limit
  <2>5. prune.pc # "idle" =>
          (others # "alone" /\ row # None => Limit <= row + 1) /\ Limit <= headSeq + 1
    BY DEF Behind
  <2> HIDE DEF Limit
  <2>6. /\ prune'.pc # "idle" =>
             /\ others' # "alone" /\ row' # None => Limit' <= row' + 1
             /\ Limit' <= headSeq' + 1
             /\ tail'.pc = "seedBegin" => Limit' <= tail'.h0 + 1
    BY <1>1, <2>1, <2>2, <2>4, <2>5
  <2>7. floor' <= tail'.h0 + 1 /\ cutoff' <= tail'.h0 + 1  BY <1>1, <2>1, <2>3
  <2>8. tail'.pc \notin Seeds \cup Feeds  BY <2>1 DEF Seeds, Feeds
  <2> QED  BY <2>6, <2>7, <2>8 DEF Behind
<1>6. CASE SeedBegin
  <2>1. row' = tail.h0 /\ tail.pc = "seedBegin"  BY <1>6 DEF SeedBegin, At
  <2>2. prune.pc # "idle" => Limit <= row' + 1  BY <2>1 DEF Behind
  <2>3. floor <= row' + 1  BY <2>1 DEF Behind
  <2>4. tail'.pc # "seedBegin"
    <3>1. tail'.pc = "seedBegin" => tail.pc = "seedHead"  BY <1>2 DEF SeedHead, At
    <3> QED  BY <2>1, <3>1
  <2> QED  BY <1>1, <1>4, <2>2, <2>3, <2>4, BehindOn
<1>7. CASE ~SeedHead /\ ~SeedBegin
  <2>1. row # None => row' # None /\ row <= row' /\ row' \in Nat
    <3>1. CASE Commit
      <4>1. row' \in 0..MaxSeq /\ row <= row'  BY <3>1, CommitStep
      <4>2. row' \in Nat  BY <4>1, BoundsAssumption
      <4> QED  BY <4>1, <4>2, Names
    <3>2. CASE ~Commit
      <4>1. row' = row
        BY <1>7, <3>2 DEF TailStep, TailAborts, Backoff, SeedCheck, ReadSeedPage, SeedWork,
           SeedWorked, SeedCommit, SeedEnd, FeedRows, FeedDocs, FeedEmpty, FeedWake, WorkChange, ChangeWorked,
           Admit, durable
      <4> QED  BY <1>0, <4>1
    <3> QED  BY <3>1, <3>2
  <2>2. row = None => row' = None
    <3>1. ~Commit \/ row # None  BY Ends DEF Commit, At, Feeds
    <3> QED
      BY <1>7, <3>1 DEF TailStep, TailAborts, Backoff, SeedCheck, ReadSeedPage, SeedWork,
           SeedWorked, SeedCommit, SeedEnd, FeedRows, FeedDocs, FeedEmpty, FeedWake, WorkChange, ChangeWorked,
           Admit, durable
  <2>3. tail'.pc \in Seeds \cup Feeds => floor <= row' + 1
    <3>1. CASE tail.pc \in Seeds \cup Feeds
      <4>1. row # None /\ floor <= row + 1  BY <3>1, Ends DEF Behind
      <4> QED  BY <1>0, <2>1, <4>1
    <3>2. CASE Feedable
      <4>1. row # None /\ floor <= row  BY <1>0, <3>2 DEF Feedable
      <4> QED  BY <1>0, <2>1, <4>1
    <3> QED  BY <1>2, <1>7, <3>1, <3>2
  <2>4. row' # None => row # None /\ row <= row'  BY <2>1, <2>2
  <2> QED  BY <1>1, <1>2, <1>3, <1>4, <1>7, <2>3, <2>4, BehindOn
<1> QED  BY <1>5, <1>6, <1>7

(* Steps that leave the cursor.                                            *)
LEMMA BehindStays ==
  ASSUME Inv, Inv', Behind, prune' \in {prune, PruneIdle}, UNCHANGED <<floor, row>>, headSeq <= headSeq',
         prune'.pc # "idle" => cutoff' = cutoff /\ (others' # "alone" => others # "alone"),
         tail'.pc = "seedBegin" => tail.pc = "seedBegin" /\ tail'.h0 = tail.h0 /\ cutoff' = cutoff,
         tail'.pc \in Seeds \cup Feeds => tail.pc \in Seeds \cup Feeds
  PROVE  Behind'
<1>1. row # None => row <= row'  BY Ends
<1>2. tail'.pc \in Seeds \cup Feeds => floor <= row' + 1  BY DEF Behind
<1> QED  BY <1>1, <1>2, BehindOn

(* All but the loop's and the prune's steps: an Age waits for a seed that  *)
(* starts, and a launch ends the prune of the one before.                  *)
LEMMA OtherBehind ==
  ASSUME Inv, Inv', Behind, RedriveStep \/ Faults \/ World \/ UNCHANGED vars
  PROVE  Behind'
<1>0. tail \in Tails /\ headSeq \in Nat /\ Corpus /\ headSeq <= headSeq  BY Ends DEF Inv
<1>1. Woken(tail).pc = tail.pc /\ Woken(tail).h0 = tail.h0  BY <1>0, WokenIs
<1>2. UNCHANGED durable => UNCHANGED <<floor, row, cutoff>> /\ headSeq <= headSeq'
  BY <1>0 DEF durable, headSeq
<1>3. CASE RedriveStep \/ RedriveEnds \/ RedriveStart
  <2>1. UNCHANGED <<floor, row, cutoff, prune, others>> /\ tail' \in {tail, Woken(tail)}
    BY <1>3 DEF RedriveStep, RedriveList, RedriveResolve, RedriveWork, RedriveFlush, RedriveRecord,
                RedriveEnds, RedriveStart, durable, KeepRun
  <2>2. headSeq <= headSeq'
    <3>1. CASE RedriveFlush
      <4>1. Grows  BY <3>1, RedriveFlushes
      <4> QED  BY <4>1 DEF Grows
    <3>2. CASE ~RedriveFlush
      <4>1. log' = log
        BY <1>3, <3>2 DEF RedriveStep, RedriveList, RedriveResolve, RedriveWork, RedriveRecord,
                RedriveEnds, RedriveStart, durable
      <4> QED  BY <1>0, <4>1 DEF headSeq
    <3> QED  BY <3>1, <3>2
  <2> QED  BY <1>1, <2>1, <2>2, BehindStays
<1>4. CASE TailCallFails \/ TailReadOnly \/ Attach \/ Stop
  <2>1. UNCHANGED durable /\ prune' = prune
    BY <1>4 DEF TailCallFails, TailReadOnly, Attach, Stop
  <2>2. \/ tail'.pc \in {"off", "dead", "backoff", "seedCheck"}
        \/ tail' = tail
    <3>1. CASE TailCallFails  BY <1>0, <3>1, Catches DEF TailCallFails
    <3>2. CASE TailReadOnly \/ Attach \/ Stop
      BY <3>2 DEF TailReadOnly, Attach, Stop, Settle, TailOff
    <3> QED  BY <1>4, <3>1, <3>2
  <2>3. others # "alone"
    BY <1>4 DEF TailCallFails, TailReadOnly, Attach, Stop, Inv, Flags
  <2> QED  BY <1>2, <2>1, <2>2, <2>3, BehindStays DEF Seeds, Feeds
<1>5. CASE Crash \/ LaunchWithout \/ QuitWithout
  <2>1. UNCHANGED durable /\ prune' = PruneIdle /\ (tail' = tail \/ tail' = TailOff)
    BY <1>5 DEF Crash, LaunchWithout, QuitWithout
  <2>2. tail' = tail \/ tail'.pc = "off"  BY <2>1 DEF TailOff
  <2> QED  BY <1>2, <2>1, <2>2, BehindStays DEF PruneIdle, Seeds, Feeds
<1>6. CASE (\E d \in Docs : Upsert(d) \/ Archive(d) \/ Purge(d)) \/ AccountChange
  <2>1. Grows  BY <1>6, SourcesGrow
  <2>2. UNCHANGED <<floor, row, cutoff, prune, others>> /\ tail' = Woken(tail)
    BY <1>6 DEF Upsert, Archive, Purge, AccountChange, Env
  <2>3. headSeq <= headSeq'  BY <2>1 DEF Grows
  <2> QED  BY <1>1, <2>2, <2>3, BehindStays
<1>7. CASE Age
  <2>1. UNCHANGED <<floor, row, log, prune, tail>> /\ prune.pc = "idle" /\ tail.pc # "seedBegin"
    BY <1>7 DEF Age, PAt, At
  <2>2. headSeq <= headSeq'  BY <1>0, <2>1 DEF headSeq
  <2> QED  BY <2>1, <2>2, BehindStays
<1>8. CASE OthersSettle
  <2>1. UNCHANGED durable /\ UNCHANGED <<prune, tail>> /\ others = "with"  BY <1>8 DEF OthersSettle
  <2> QED  BY <1>2, <2>1, BehindStays
<1>9. CASE SweepRetired
  <2>1. /\ row' = None /\ UNCHANGED <<cutoff, floor, log, prune, tail>> /\ tail.pc = "off"
    BY <1>9 DEF SweepRetired, Inv, Flags
  <2>2. headSeq <= headSeq'  BY <1>0, <2>1 DEF headSeq
  <2> QED  BY <2>1, <2>2, BehindOn DEF Seeds, Feeds
<1>10. CASE UNCHANGED vars
  <2>1. UNCHANGED durable /\ UNCHANGED <<prune, tail, others>>  BY <1>10 DEF vars, durable
  <2> QED  BY <1>2, <2>1, BehindStays
<1> QED  BY <1>3, <1>4, <1>5, <1>6, <1>7, <1>8, <1>9, <1>10 DEF Faults, World

(* The stops of a hold settle together: a worker that has left is not      *)
(* waited for by the others, so no prune starts between their stops.       *)
LEMMA TogetherStep ==
  ASSUME Inv, Together, StopsTogether, [Next]_vars
  PROVE  Together'
<1>1. tail \in Tails  BY Ends
<1>2. \/ KeepRun
      \/ Settle /\ ("stop" \in Kinds \/ aborted)
      \/ "stop" \in Kinds /\ aborted' = TRUE /\ UNCHANGED <<attached, others>>
      \/ attached' = TRUE /\ others' = "with" /\ aborted' = aborted
      \/ aborted' = FALSE /\ attached' = FALSE /\ others' = "none"
      \/ ~attached /\ others # "with" /\ others' # "with" /\ UNCHANGED <<aborted, attached>>
      \/ others = "with" /\ ~attached /\ UNCHANGED <<aborted, attached>>
  <2>1. CASE TailAborts \/ TailReadOnly
    BY <2>1 DEF TailAborts, TailReadOnly
  <2>2. ASSUME Caught PROVE KeepRun \/ (Settle /\ aborted)  BY <1>1, <2>2, Catches
  <2>3. CASE TailCallFails  BY <2>2, <2>3 DEF TailCallFails
  <2>4. CASE SeedBegin \/ SeedCommit \/ SeedEnd \/ ChangeWorked \/ Commit
    <3>1. KeepRun \/ Caught
      BY <2>4 DEF SeedBegin, SeedCommit, SeedEnd, ChangeWorked, Commit, Served
    <3> QED  BY <2>2, <3>1
  <2>5. CASE Backoff \/ SeedCheck \/ SeedHead \/ ReadSeedPage \/ SeedWork
             \/ SeedWorked \/ FeedRows \/ FeedDocs \/ FeedEmpty \/ FeedWake \/ WorkChange
             \/ Admit
    BY <2>5 DEF Backoff, SeedCheck, SeedHead, ReadSeedPage, SeedWork,
                SeedWorked, FeedRows, FeedDocs, FeedEmpty, FeedWake, WorkChange, Admit
  <2>6. CASE RedriveStep \/ RedriveEnds \/ RedriveStart
    BY <2>6 DEF RedriveStep, RedriveList, RedriveResolve, RedriveWork, RedriveFlush, RedriveRecord,
                RedriveEnds, RedriveStart
  <2>7. CASE PruneStep
    BY <2>7 DEF PruneStep, PruneFloor, PruneLimits, PrunePublish, PruneDelete
  <2>8. CASE (\E d \in Docs : Upsert(d) \/ Archive(d) \/ Purge(d)) \/ AccountChange \/ Age
             \/ SweepRetired \/ UNCHANGED vars
    BY <2>8 DEF Upsert, Archive, Purge, AccountChange, Env, Age, SweepRetired, KeepRun, vars
  <2>9. CASE Stop \/ Attach \/ Crash
    BY <2>9 DEF Stop, Attach, Crash
  <2>10. CASE LaunchWithout \/ QuitWithout
    BY <2>10 DEF LaunchWithout, QuitWithout, Inv, Flags
  <2>11. CASE OthersSettle  BY <2>11 DEF OthersSettle
  <2> QED
    BY <2>1, <2>3, <2>4, <2>5, <2>6, <2>7, <2>8, <2>9, <2>10, <2>11
       DEF Next, TailStep, Faults, World
<1>3. "stop" \notin Kinds => ~aborted'  BY <1>2 DEF Together, KeepRun, Settle
<1>4. "prune" \in Kinds => (others' = "with" <=> attached')
  <2> SUFFICES ASSUME "prune" \in Kinds PROVE others' = "with" <=> attached'  OBVIOUS
  <2>1. (others = "with" <=> attached) /\ (aborted => "stop" \in Kinds)  BY DEF Together
  <2>2. CASE KeepRun  BY <2>1, <2>2 DEF KeepRun
  <2>3. CASE Settle /\ ("stop" \in Kinds \/ aborted)
    <3>1. ~Staggered  BY <2>1, <2>3 DEF StopsTogether
    <3> QED  BY <2>3, <3>1 DEF Settle
  <2>4. CASE "stop" \in Kinds /\ aborted' = TRUE /\ UNCHANGED <<attached, others>>
    BY <2>1, <2>4
  <2>5. CASE \/ attached' = TRUE /\ others' = "with" /\ aborted' = aborted
             \/ aborted' = FALSE /\ attached' = FALSE /\ others' = "none"
    BY <2>5
  <2>6. CASE ~attached /\ others # "with" /\ others' # "with" /\ UNCHANGED <<aborted, attached>>
    BY <2>6
  <2>7. CASE others = "with" /\ ~attached  BY <2>1, <2>7
  <2> QED  BY <1>2, <2>2, <2>3, <2>4, <2>5, <2>6, <2>7
<1>5. "prune" \notin Kinds => UNCHANGED <<floor, cutoff>> /\ prune' \in {prune, PruneIdle}
  <2> SUFFICES ASSUME "prune" \notin Kinds
               PROVE  UNCHANGED <<floor, cutoff>> /\ prune' \in {prune, PruneIdle}
    OBVIOUS
  <2>1. prune.pc = "idle"  BY DEF Together, PruneIdle
  <2>2. ~PruneStep /\ ~Age
    BY <2>1 DEF PruneStep, PruneFloor, PruneLimits, PrunePublish, PruneDelete, Age, PAt
  <2>3. CASE TailStep
    BY <2>3 DEF TailStep, TailAborts, Backoff, SeedCheck, SeedHead, SeedBegin, ReadSeedPage, SeedWork,
         SeedWorked, SeedCommit, SeedEnd, FeedRows, FeedDocs, FeedEmpty, FeedWake, WorkChange, ChangeWorked,
         Commit, Admit, durable
  <2>4. CASE RedriveStep
    BY <2>4 DEF RedriveStep, RedriveList, RedriveResolve, RedriveWork, RedriveFlush, RedriveRecord, durable
  <2>5. CASE Faults
    BY <2>5 DEF Faults, TailCallFails, TailReadOnly, RedriveEnds, Crash, durable
  <2>6. CASE World
    BY <2>2, <2>6 DEF World, Upsert, Archive, Purge, AccountChange, Env, LaunchWithout, SweepRetired,
                QuitWithout, Attach, Stop, OthersSettle, RedriveStart, durable
  <2>7. CASE UNCHANGED vars  BY <2>7 DEF vars
  <2> QED  BY <2>2, <2>3, <2>4, <2>5, <2>6, <2>7 DEF Next
<1> QED  BY <1>3, <1>4, <1>5 DEF Together

(* At first there is no document to miss.                                  *)
LEMMA CoverInit == Init => Cover
<1> SUFFICES ASSUME Init PROVE Cover  OBVIOUS
<1>1. tail.pc = "off" /\ prune.pc = "idle"  BY DEF Init, TailOff, PruneIdle
<1>2. Together  BY DEF Init, Together
<1>3. Behind  BY <1>1 DEF Behind, Seeds, Feeds
<1>4. SeedCover /\ FeedCover  BY <1>1 DEF SeedCover, FeedCover, SeedPages, Feeds
<1>5. NothingLost  BY DEF Init, NothingLost, Watched
<1> QED  BY <1>2, <1>3, <1>4, <1>5 DEF Cover

(* Every step keeps every document that matches either settled or still    *)
(* ahead.                                                                  *)
LEMMA CoverStep ==
  ASSUME Inv, Cover, StopsTogether, [Next]_vars
  PROVE  Cover'
<1>1. Inv'  BY InvStep
<1>2. Covers'  BY CoversStep DEF Cover, Covers
<1>3. Together'  BY TogetherStep DEF Cover
<1>4. Behind'
  <2>1. CASE TailStep  BY <1>1, <2>1, TailBehind DEF Cover
  <2>2. CASE PruneStep  BY <2>2, PruneBehind DEF Cover
  <2>3. CASE RedriveStep \/ Faults \/ World \/ UNCHANGED vars  BY <1>1, <2>3, OtherBehind DEF Cover
  <2> QED  BY <2>1, <2>2, <2>3 DEF Next
<1> QED  BY <1>2, <1>3, <1>4 DEF Cover, Covers

(* No document is lost on the way to the worker, where the stops of a hold *)
(* settle together or nothing is pruned: it is in the log above the        *)
(* cursor, ahead of the seed, or settled in the ledger (engine.attach,     *)
(* seedConsumer, rerunDeferred, pruneChangesOnce).                         *)
THEOREM NothingIsMissed == StopsTogether => (Spec => []NothingMissed)
<1> SUFFICES ASSUME StopsTogether PROVE Spec => []NothingMissed  OBVIOUS
<1>1. Init => Inv /\ Cover  BY InvInit, CoverInit
<1>2. Inv /\ Cover /\ [Next]_vars => (Inv /\ Cover)'  BY InvStep, CoverStep
<1>3. Inv /\ Cover => NothingMissed
  <2> SUFFICES ASSUME Inv, Cover, NEW d \in Docs, Matches(doc[d]), Feedable
               PROVE  LET s == doc[d].seq IN
                      IF s > row THEN log[s] = d ELSE Seeding(s) \/ Settled(s)
    BY DEF NothingMissed
  <2>1. row # None /\ row >= floor /\ row \in Nat /\ floor \in Nat /\ headSeq \in Nat
    BY Ends DEF Feedable
  <2>2. doc[d].seq \in 1..headSeq /\ log[doc[d].seq] \in {d, Gone} /\ doc[d].seq \in Nat
    BY <2>1 DEF Inv, Corpus, Matches
  <2>3. CASE doc[d].seq > row
    <3>1. log[doc[d].seq] = Gone => doc[d].seq < floor  BY <2>2 DEF Inv, Marks
    <3>2. ~(doc[d].seq < floor)  BY <2>1, <2>2, <2>3
    <3> QED  BY <2>2, <2>3, <3>1, <3>2
  <2>4. CASE ~(doc[d].seq > row)
    <3>1. doc[d].seq <= row  BY <2>1, <2>2, <2>4
    <3>2. Watched  BY <2>1 DEF Watched
    <3> QED  BY <2>4, <3>1, <3>2 DEF Cover, NothingLost
  <2> QED  BY <2>3, <2>4
<1> QED  BY <1>1, <1>2, <1>3, PTL DEF Spec
=============================================================================
