-------------------------- MODULE SyncFence_proofs --------------------------
(***************************************************************************)
(* Proofs about the write fence of a device: its types, that a device      *)
(* which was closed stays closed, and that main, the worker and the        *)
(* engine's work agree once every call has settled, for any number of      *)
(* reports, calls, failures and restarts.  The first part states what      *)
(* travels between main and the worker, and gives every step of main one   *)
(* form (Moves); each part of an invariant is then kept by the moves, by   *)
(* the worker's step and by a restart.                                     *)
(***************************************************************************)
EXTENDS SyncFence, TLAPS

Asks == {"read", "lead", "ack", "demote", "joining", "joined"}
Messages == [op : Asks \cup {"fence", "unfence"}, from : Calls \cup {"nobody"}]
Answers == [from : Calls, row : SyncStates,
            said : {"ok", "failed", "promoted", "seeded", "noop"}]

Types ==
  /\ db \in SyncStates /\ row \in SyncStates
  /\ call \in [Calls -> Flags] /\ lease \in {"none", "master", "lost"}
  /\ fenced \in BOOLEAN /\ wfenced \in BOOLEAN /\ lost \in BOOLEAN
  /\ gate \in [holding : BOOLEAN, closing : BOOLEAN]
  /\ work \in [runs : BOOLEAN, attached : BOOLEAN]
  /\ wire \in Seq(Messages) /\ back \in Seq(Answers)

\* The request whose answer a call waits for, by what it is and where.
Wanted(op, at) ==
  IF at \in {"row", "owned", "row2", "owned2", "seed", "accounts", "paused"} THEN "read"
  ELSE IF at = "led" THEN "lead"
  ELSE IF at = "ack" THEN "ack"
  ELSE IF at = "told" THEN
    (IF op = "demote" THEN "demote" ELSE IF op = "begin" THEN "joining" ELSE "joined")
  ELSE "none"
Req(c) == Wanted(c.op, c.at)

\* Where a call may be, by what it is.
Stages ==
  [lease  |-> {"row", "owned", "hold"},
   lead   |-> {"row", "owned", "led", "hold", "row2", "owned2", "hold2"},
   open   |-> {"row", "owned", "ack", "seed", "release", "accounts", "attach"},
   demote |-> {"told", "row", "owned", "hold"},
   begin  |-> {"hold", "told", "row", "owned"},
   leave  |-> {"told", "row", "owned", "paused", "release", "accounts", "attach"},
   finish |-> {"told", "row", "owned"}]
MadeBy(s) ==
  IF s = "control" THEN {"lead", "open", "demote", "leave", "finish"}
  ELSE IF s = "join" THEN {"begin"} ELSE {"lease"}
Placed(s, c) == c = Idle \/ (c.op \in MadeBy(s) /\ c.at \in Stages[c.op])
Shape == \A s \in Calls : Placed(s, call[s])

\* Fence posts are nobody's; every other message is what its sender waits
\* for, no sender has two, and only a promotion or an acknowledgement fails.
Mail ==
  /\ \A i \in 1..Len(wire) :
       \/ wire[i].op \in {"fence", "unfence"} /\ wire[i].from = "nobody"
       \/ wire[i].op \in Asks /\ wire[i].from \in Calls /\ wire[i].op = Req(call[wire[i].from])
  /\ \A k \in 1..Len(back) :
       LET want == Req(call[back[k].from]) IN
       /\ want # "none"
       /\ want \notin {"lead", "ack"} => back[k].said = "ok"
       /\ want = "ack" => back[k].said \in {"ok", "failed"}
       /\ want = "lead" => back[k].said \in {"promoted", "seeded", "noop", "failed"}
  /\ \A i, j \in 1..Len(wire) : wire[i].from = wire[j].from => i = j \/ wire[i].from = "nobody"
  /\ \A i, j \in 1..Len(back) : back[i].from = back[j].from => i = j
  /\ \A i \in 1..Len(wire), j \in 1..Len(back) : wire[i].from # back[j].from

-----------------------------------------------------------------------------
(* Moves.                                                                  *)

\* The post of main's fence.
Post(on) == [op |-> IF on THEN "fence" ELSE "unfence", from |-> "nobody"]

\* The wire w has grown to v: by the fence post p when hp, then by m when hm.
Put(w, v, hp, p, hm, m) ==
  /\ v \in Seq(Messages)
  /\ Len(v) = Len(w) + (IF hp THEN 1 ELSE 0) + (IF hm THEN 1 ELSE 0)
  /\ \A i \in 1..Len(w) : v[i] = w[i]
  /\ hp => v[Len(w) + 1] = p
  /\ hm => v[Len(v)] = m

Took(s) == back # <<>> /\ Head(back).from = s /\ back' = Tail(back)

\* The calls are now c: s is at op, at, and another at most too late.
Steps(c, s, op, at) ==
  /\ c \in [Calls -> Flags]
  /\ c[s].op = op /\ c[s].at = at
  /\ \A t \in Calls \ {s} :
       /\ c[t].op = call[t].op /\ c[t].at = call[t].at
       /\ c[t].arg = call[t].arg /\ c[t].undo = call[t].undo
       /\ call[t].late => c[t].late
       /\ call[t] = Idle => c[t] = Idle

\* Call s goes on to op, at; main takes its answer (took), posts the fence
\* (posts, on), and sends what the call then waits for (asks).
Moves(s, op, at, took, posts, on, asks) ==
  /\ db' = db /\ wfenced' = wfenced
  /\ Steps(call', s, op, at)
  /\ IF took THEN Took(s) ELSE back' = back
  /\ fenced' = IF posts THEN on ELSE fenced
  /\ Put(wire, wire', posts, Post(on), asks, [op |-> Wanted(op, at), from |-> s])

(* The names of the callers.                                               *)
LEMMA Names ==
  /\ "control" \in Calls /\ "join" \in Calls /\ "nobody" \notin Calls
  /\ \A s \in Reports : s \in Calls /\ s # "control" /\ s # "join"
  /\ \A s \in Calls : s = "control" \/ s = "join" \/ s \in Reports
BY SyncFenceAssumption DEF Calls

(* A message that is sent is a message.                                    *)
LEMMA PostType == ASSUME NEW on \in BOOLEAN PROVE Post(on) \in Messages
BY DEF Post, Messages

(* Growing by at most one post and one request.                            *)
LEMMA Grown ==
  ASSUME NEW w \in Seq(Messages), NEW p \in Messages, NEW m \in Messages
  PROVE  /\ Put(w, w \o <<>>, FALSE, p, FALSE, m)
         /\ Put(w, w \o <<m>>, FALSE, p, TRUE, m)
         /\ Put(w, (w \o <<p>>) \o <<>>, TRUE, p, FALSE, m)
         /\ Put(w, (w \o <<p>>) \o <<m>>, TRUE, p, TRUE, m)
<1>1. w \o <<>> = w  OBVIOUS
<1>2. Put(w, w, FALSE, p, FALSE, m)  BY DEF Put
<1>3. ASSUME NEW v \in Seq(Messages), NEW n \in Messages
      PROVE  /\ v \o <<n>> \in Seq(Messages) /\ Len(v \o <<n>>) = Len(v) + 1
             /\ \A i \in 1..Len(v) : (v \o <<n>>)[i] = v[i]
             /\ (v \o <<n>>)[Len(v) + 1] = n
             /\ (v \o <<n>>) \o <<>> = v \o <<n>>
  OBVIOUS
<1>4. Put(w, w \o <<m>>, FALSE, p, TRUE, m)  BY <1>3 DEF Put
<1>5. Put(w, w \o <<p>>, TRUE, p, FALSE, m)  BY <1>3 DEF Put
<1>6. Put(w, (w \o <<p>>) \o <<m>>, TRUE, p, TRUE, m)
  <2> DEFINE v == w \o <<p>>
             u == v \o <<m>>
  <2>1. v \in Seq(Messages) /\ Len(v) = Len(w) + 1 /\ v[Len(w) + 1] = p
        /\ \A i \in 1..Len(w) : v[i] = w[i]
    BY <1>3
  <2>2. u \in Seq(Messages) /\ Len(u) = Len(v) + 1 /\ u[Len(v) + 1] = m
        /\ \A i \in 1..Len(v) : u[i] = v[i]
    BY <1>3, <2>1
  <2> HIDE DEF v, u
  <2>3. Len(w) \in Nat  OBVIOUS
  <2>4. Put(w, u, TRUE, p, TRUE, m)  BY <2>1, <2>2, <2>3 DEF Put
  <2> QED  BY <2>4 DEF u, v
<1> QED  BY <1>1, <1>2, <1>3, <1>4, <1>5, <1>6

(* What a wire that has grown holds.                                       *)
LEMMA PutItems ==
  ASSUME NEW w \in Seq(Messages), NEW v, NEW posts \in BOOLEAN, NEW asks \in BOOLEAN,
         NEW p, NEW m, Put(w, v, posts, p, asks, m)
  PROVE  /\ v \in Seq(Messages) /\ Len(v) \in Nat /\ Len(w) \in Nat /\ Len(w) =< Len(v)
         /\ \A i \in 1..Len(w) : i \in 1..Len(v) /\ v[i] = w[i]
         /\ posts => Len(w) + 1 \in 1..Len(v) /\ v[Len(w) + 1] = p
         /\ asks => Len(v) > Len(w) /\ v[Len(v)] = m
         /\ posts /\ asks => Len(v) = Len(w) + 2
         /\ posts /\ ~asks => Len(v) = Len(w) + 1
         /\ ~posts /\ asks => Len(v) = Len(w) + 1
         /\ \A i \in 1..Len(v) :
              \/ i \in 1..Len(w) /\ v[i] = w[i]
              \/ posts /\ i = Len(w) + 1 /\ v[i] = p
              \/ asks /\ i = Len(v) /\ i > Len(w) /\ v[i] = m
<1>1. v \in Seq(Messages)  BY DEF Put
<1>2. Len(w) \in Nat /\ Len(v) \in Nat  BY <1>1
<1>3. /\ Len(v) = Len(w) + (IF posts THEN 1 ELSE 0) + (IF asks THEN 1 ELSE 0)
      /\ \A i \in 1..Len(w) : v[i] = w[i]
      /\ posts => v[Len(w) + 1] = p
      /\ asks => v[Len(v)] = m
  BY DEF Put
<1>4. CASE posts /\ asks
  <2>1. Len(v) = Len(w) + 2  BY <1>2, <1>3, <1>4
  <2> QED  BY <1>1, <1>2, <1>3, <1>4, <2>1
<1>5. CASE posts /\ ~asks
  <2>1. Len(v) = Len(w) + 1  BY <1>2, <1>3, <1>5
  <2> QED  BY <1>1, <1>2, <1>3, <1>5, <2>1
<1>6. CASE ~posts /\ asks
  <2>1. Len(v) = Len(w) + 1  BY <1>2, <1>3, <1>6
  <2> QED  BY <1>1, <1>2, <1>3, <1>6, <2>1
<1>7. CASE ~posts /\ ~asks
  <2>1. Len(v) = Len(w)  BY <1>2, <1>3, <1>7
  <2>2. \A i \in 1..Len(v) : i \in 1..Len(w) /\ v[i] = w[i]  BY <1>3, <2>1
  <2>3. \A i \in 1..Len(w) : i \in 1..Len(v) /\ v[i] = w[i]  BY <1>3, <2>1
  <2>4. Len(w) =< Len(v)  BY <1>2, <2>1
  <2> QED  BY <1>1, <1>2, <1>7, <2>2, <2>3, <2>4
<1> QED  BY <1>4, <1>5, <1>6, <1>7

-----------------------------------------------------------------------------
(* What a step of main does to the calls.                                  *)

Ops == {"none", "lease", "lead", "open", "demote", "begin", "leave", "finish"}
Ats == {"done", "row", "owned", "hold", "led", "row2", "owned2", "hold2", "ack",
        "seed", "release", "accounts", "attach", "told", "paused"}

(* A call goes on to its next wait.                                        *)
LEMMA GoesSteps ==
  ASSUME call \in [Calls -> Flags], NEW s \in Calls, NEW at \in Ats
  PROVE  /\ Steps(Goes(s, at), s, call[s].op, at)
         /\ Goes(s, at)[s] = [call[s] EXCEPT !.at = at]
         /\ \A t \in Calls \ {s} : Goes(s, at)[t] = call[t]
<1>1. call[s] \in Flags  OBVIOUS
<1>2. [call[s] EXCEPT !.at = at] \in Flags  BY <1>1 DEF Flags, Ats
<1>3. Goes(s, at) \in [Calls -> Flags]  BY <1>2 DEF Goes
<1>4. Goes(s, at)[s] = [call[s] EXCEPT !.at = at] /\ \A t \in Calls \ {s} : Goes(s, at)[t] = call[t]
  BY DEF Goes
<1>5. [call[s] EXCEPT !.at = at].op = call[s].op /\ [call[s] EXCEPT !.at = at].at = at
  BY <1>1 DEF Flags
<1> QED  BY <1>3, <1>4, <1>5 DEF Steps

(* A call ends.                                                            *)
LEMMA EndsSteps ==
  ASSUME call \in [Calls -> Flags], NEW s \in Calls
  PROVE  /\ Steps(Ends(s), s, "none", "done")
         /\ Ends(s)[s] = Idle
         /\ \A t \in Calls \ {s} : Ends(s)[t] = call[t]
<1>1. Idle \in Flags /\ Idle.op = "none" /\ Idle.at = "done"  BY DEF Idle, Flags
<1>2. Ends(s) \in [Calls -> Flags]  BY <1>1 DEF Ends
<1>3. Ends(s)[s] = Idle /\ \A t \in Calls \ {s} : Ends(s)[t] = call[t]  BY DEF Ends
<1> QED  BY <1>1, <1>2, <1>3 DEF Steps

(* A call starts.                                                          *)
LEMMA StartedSteps ==
  ASSUME call \in [Calls -> Flags], NEW s \in Calls, NEW op \in Ops, NEW at \in Ats,
         NEW arg \in BOOLEAN
  PROVE  /\ Steps(Started(s, op, at, arg), s, op, at)
         /\ Started(s, op, at, arg)[s] =
              [op |-> op, at |-> at, arg |-> arg, late |-> FALSE, undo |-> FALSE]
         /\ \A t \in Calls \ {s} : Started(s, op, at, arg)[t] = call[t]
<1> DEFINE n == [op |-> op, at |-> at, arg |-> arg, late |-> FALSE, undo |-> FALSE]
<1>1. [Idle EXCEPT !.op = op, !.at = at, !.arg = arg] = n
  <2> DEFINE e == [Idle EXCEPT !.op = op, !.at = at, !.arg = arg]
  <2>1. \A x, y \in Flags : x.op = y.op /\ x.at = y.at /\ x.arg = y.arg /\ x.late = y.late
                            /\ x.undo = y.undo => x = y
    BY DEF Flags
  <2>2. Idle \in Flags  BY DEF Idle, Flags
  <2>3. e \in Flags /\ e.op = op /\ e.at = at /\ e.arg = arg /\ e.late = Idle.late
        /\ e.undo = Idle.undo
    BY ZenonT(60), <2>2 DEF Flags, Ops, Ats
  <2>4. n \in Flags /\ n.late = Idle.late /\ n.undo = Idle.undo
    BY DEF Flags, Ops, Ats, Idle
  <2> QED  BY <2>1, <2>3, <2>4
<1>2. n \in Flags /\ n.op = op /\ n.at = at  BY DEF Flags, Ops, Ats
<1>3. Started(s, op, at, arg) = [call EXCEPT ![s] = n]  BY <1>1 DEF Started
<1> HIDE DEF n
<1>4. Started(s, op, at, arg) \in [Calls -> Flags]  BY <1>2, <1>3
<1>5. Started(s, op, at, arg)[s] = n /\ \A t \in Calls \ {s} : Started(s, op, at, arg)[t] = call[t]
  BY <1>3
<1>6. Steps(Started(s, op, at, arg), s, op, at)  BY <1>2, <1>4, <1>5 DEF Steps
<1> QED  BY <1>5, <1>6 DEF n

\* As Steps, of what is done to calls c that have stepped already.
Late(c, d) ==
  /\ d \in [Calls -> Flags]
  /\ \A t \in Calls :
       /\ d[t].op = c[t].op /\ d[t].at = c[t].at /\ d[t].arg = c[t].arg
       /\ d[t].undo = c[t].undo /\ (c[t].late => d[t].late)
       /\ c[t] = Idle => d[t] = Idle
       /\ c[t].op \notin {"open", "lead"} => d[t] = c[t]

(* A close is seen by an opening (fenceGen), a lease by a promotion        *)
(* (leaseSeq).                                                             *)
LEMMA SeenLate ==
  ASSUME NEW c \in [Calls -> Flags]
  PROVE  /\ Late(c, Seen(c)) /\ \A t \in Calls : c[t].op = "open" => Seen(c)[t].late
         /\ \A t \in Calls : c[t].op # "open" => Seen(c)[t] = c[t]
         /\ Late(c, Noticed(c)) /\ \A t \in Calls : c[t].op = "lead" => Noticed(c)[t].late
         /\ \A t \in Calls : c[t].op # "lead" => Noticed(c)[t] = c[t]
<1>1. \A t \in Calls : [c[t] EXCEPT !.late = TRUE] \in Flags  BY DEF Flags
<1>2. \A t \in Calls : LET d == [c[t] EXCEPT !.late = TRUE] IN
        d.op = c[t].op /\ d.at = c[t].at /\ d.arg = c[t].arg /\ d.undo = c[t].undo /\ d.late
  BY DEF Flags
<1>3. \A t \in Calls : c[t] = Idle => c[t].op \notin {"open", "lead"}  BY DEF Idle
<1>4. Seen(c) \in [Calls -> Flags] /\ Noticed(c) \in [Calls -> Flags]
  BY <1>1 DEF Seen, Noticed
<1>5. \A t \in Calls :
        /\ Seen(c)[t] = IF c[t].op = "open" THEN [c[t] EXCEPT !.late = TRUE] ELSE c[t]
        /\ Noticed(c)[t] = IF c[t].op = "lead" THEN [c[t] EXCEPT !.late = TRUE] ELSE c[t]
  BY DEF Seen, Noticed
<1>6. Late(c, Seen(c)) /\ \A t \in Calls : c[t].op = "open" => Seen(c)[t].late
  BY <1>2, <1>3, <1>4, <1>5 DEF Late
<1>7. Late(c, Noticed(c)) /\ \A t \in Calls : c[t].op = "lead" => Noticed(c)[t].late
  BY <1>2, <1>3, <1>4, <1>5 DEF Late
<1> QED  BY <1>5, <1>6, <1>7

(* A call that was made too late has stepped as before.                    *)
LEMMA LateSteps ==
  ASSUME NEW s \in Calls, NEW op, NEW at, NEW c, NEW d, Steps(c, s, op, at), Late(c, d)
  PROVE  Steps(d, s, op, at)
BY DEF Steps, Late

(* Main sends without a change of the fence (refreshGate, db calls).       *)
LEMMA SentMoves ==
  ASSUME Types, NEW s \in Calls, NEW op, NEW at, NEW c, NEW then,
         NEW took \in BOOLEAN, NEW asks \in BOOLEAN,
         db' = db, wfenced' = wfenced, IF took THEN Took(s) ELSE back' = back,
         Steps(c, s, op, at), Sends(then, c),
         IF asks THEN Wanted(op, at) \in Asks /\ then = Ask(s, Wanted(op, at)) ELSE then = <<>>
  PROVE  Moves(s, op, at, took, FALSE, FALSE, asks) /\ call' = c /\ fenced' = fenced
<1> DEFINE m == [op |-> IF asks THEN Wanted(op, at) ELSE "read", from |-> s]
<1>1. m \in Messages  BY DEF Messages, Asks
<1>2. Post(FALSE) \in Messages  BY PostType
<1>3. wire \in Seq(Messages)  BY DEF Types
<1>4. wire' = wire \o then /\ call' = c /\ fenced' = fenced  BY DEF Sends
<1>5. CASE asks
  <2>1. then = <<m>> /\ m = [op |-> Wanted(op, at), from |-> s]  BY <1>4, <1>5 DEF Ask
  <2> HIDE DEF m
  <2>2. Put(wire, wire', FALSE, Post(FALSE), TRUE, m)  BY <1>1, <1>2, <1>3, <1>4, <2>1, Grown
  <2> QED  BY <1>4, <1>5, <2>1, <2>2 DEF Moves
<1>6. CASE ~asks
  <2>1. then = <<>>  BY <1>6
  <2> HIDE DEF m
  <2>2. Put(wire, wire', FALSE, Post(FALSE), FALSE, m)  BY <1>1, <1>2, <1>3, <1>4, <2>1, Grown
  <2>3. Put(wire, wire', FALSE, Post(FALSE), FALSE, [op |-> Wanted(op, at), from |-> s])
    BY <2>2 DEF Put
  <2> QED  BY <1>4, <1>6, <2>3 DEF Moves
<1> QED  BY <1>5, <1>6

(* Main sets its fence, posts it, and sends (setFence).                    *)
LEMMA FencedMoves ==
  ASSUME Types, NEW s \in Calls, NEW op, NEW at, NEW c \in [Calls -> Flags], NEW then,
         NEW took \in BOOLEAN, NEW on \in BOOLEAN, NEW asks \in BOOLEAN,
         db' = db, wfenced' = wfenced, IF took THEN Took(s) ELSE back' = back,
         Steps(c, s, op, at), SetFence(on, then, c),
         IF asks THEN Wanted(op, at) \in Asks /\ then = Ask(s, Wanted(op, at)) ELSE then = <<>>
  PROVE  /\ Moves(s, op, at, took, TRUE, on, asks)
         /\ call' = IF on THEN Seen(c) ELSE c
         /\ fenced' = on
<1> DEFINE m == [op |-> IF asks THEN Wanted(op, at) ELSE "read", from |-> s]
           p == Post(on)
<1>1. m \in Messages  BY DEF Messages, Asks
<1>2. p \in Messages  BY PostType
<1>3. wire \in Seq(Messages)  BY DEF Types
<1>4. wire' = (wire \o <<p>>) \o then /\ call' = (IF on THEN Seen(c) ELSE c) /\ fenced' = on
  BY DEF SetFence, Post
<1>5. Steps(call', s, op, at)
  BY <1>4, SeenLate, LateSteps
<1>6. CASE asks
  <2>1. then = <<m>> /\ m = [op |-> Wanted(op, at), from |-> s]  BY <1>5, <1>6 DEF Ask
  <2> HIDE DEF m, p
  <2>2. Put(wire, wire', TRUE, p, TRUE, m)  BY <1>1, <1>2, <1>3, <1>4, <2>1, Grown
  <2> QED  BY <1>4, <1>5, <1>6, <2>1, <2>2 DEF Moves, p
<1>7. CASE ~asks
  <2>1. then = <<>>  BY <1>7
  <2> HIDE DEF m, p
  <2>2. Put(wire, wire', TRUE, p, FALSE, m)  BY <1>1, <1>2, <1>3, <1>4, <2>1, Grown
  <2>3. Put(wire, wire', TRUE, p, FALSE, [op |-> Wanted(op, at), from |-> s])
    BY <2>2 DEF Put
  <2> QED  BY <1>4, <1>5, <1>7, <2>3 DEF Moves, p
<1> QED  BY <1>6, <1>7

-----------------------------------------------------------------------------
(* What is on its way.                                                     *)

\* back' is back without its first d answers.
Drops(d) ==
  /\ back' \in Seq(Answers) /\ Len(back') = Len(back) - d
  /\ \A k \in 1..Len(back') : k + d \in 1..Len(back) /\ back'[k] = back[k + d]

(* Main takes the first answer, or none.                                   *)
LEMMA Backs ==
  ASSUME back \in Seq(Answers), NEW s \in Calls, NEW took \in BOOLEAN,
         IF took THEN Took(s) ELSE back' = back
  PROVE  /\ Drops(IF took THEN 1 ELSE 0)
         /\ took => 1 \in 1..Len(back) /\ Head(back) = back[1] /\ back[1].from = s
                    /\ back[1] \in Answers
<1>1. CASE took
  <2>1. back # <<>> /\ Head(back).from = s /\ back' = Tail(back)  BY <1>1 DEF Took
  <2>2. Tail(back) \in Seq(Answers) /\ Len(Tail(back)) = Len(back) - 1 /\ Head(back) = back[1]
        /\ 1 \in 1..Len(back) /\ back[1] \in Answers
    BY <2>1
  <2>3. \A k \in 1..Len(Tail(back)) : k + 1 \in 1..Len(back) /\ Tail(back)[k] = back[k + 1]
    BY <2>1
  <2> QED  BY <1>1, <2>1, <2>2, <2>3 DEF Drops
<1>2. CASE ~took
  <2>1. back' = back  BY <1>2
  <2> QED  BY <1>2, <2>1 DEF Drops
<1> QED  BY <1>1, <1>2

\* Nothing of call s is on its way.
NoneOf(s, w, b) ==
  (\A i \in 1..Len(w) : w[i].from # s) /\ \A k \in 1..Len(b) : b[k].from # s

(* A call that moves has nothing else on its way.                          *)
LEMMA MovesAlone ==
  ASSUME Types, Mail, NEW s \in Calls, NEW took \in BOOLEAN,
         IF took THEN Took(s) ELSE back' = back,
         took \/ Req(call[s]) = "none"
  PROVE  NoneOf(s, wire, back')
<1>1. back \in Seq(Answers) /\ wire \in Seq(Messages)  BY DEF Types
<1>2. s # "nobody"  BY Names
<1>3. CASE took
  <2>1. Drops(1) /\ 1 \in 1..Len(back) /\ back[1].from = s  BY <1>1, <1>3, Backs
  <2>2. \A i \in 1..Len(wire) : wire[i].from # s  BY <2>1 DEF Mail
  <2>3. \A k \in 2..Len(back) : back[k].from # s
    <3> SUFFICES ASSUME NEW k \in 2..Len(back), back[k].from = s PROVE FALSE  OBVIOUS
    <3>1. k \in 1..Len(back) /\ k # 1  BY <1>1
    <3> QED  BY <2>1, <3>1 DEF Mail
  <2>4. \A k \in 1..Len(back') : k + 1 \in 2..Len(back) /\ back'[k] = back[k + 1]
    BY <1>1, <2>1 DEF Drops
  <2> QED  BY <2>2, <2>3, <2>4 DEF NoneOf
<1>4. CASE ~took
  <2>1. Req(call[s]) = "none" /\ back' = back  BY <1>4
  <2>2. "none" \notin Asks  BY DEF Asks
  <2>3. \A i \in 1..Len(wire) : wire[i].from # s  BY <1>2, <2>1, <2>2 DEF Mail
  <2>4. \A k \in 1..Len(back) : back[k].from # s  BY <2>1 DEF Mail
  <2> QED  BY <2>1, <2>3, <2>4 DEF NoneOf
<1> QED  BY <1>3, <1>4

\* A call takes an answer when it waits for one, and asks what there is.
Fair(s, op, at, took, asks) ==
  (took \/ Req(call[s]) = "none") /\ (asks => Wanted(op, at) \in Asks)

(* Moves keep the mail in order (bridge.ts: one request, one answer).      *)
LEMMA MailMoves ==
  ASSUME Types, Mail, NEW s \in Calls, NEW op, NEW at, NEW took \in BOOLEAN,
         NEW posts \in BOOLEAN, NEW on \in BOOLEAN, NEW asks \in BOOLEAN,
         Moves(s, op, at, took, posts, on, asks),
         Fair(s, op, at, took, asks)
  PROVE  Mail' /\ wire' \in Seq(Messages) /\ back' \in Seq(Answers)
<1> DEFINE m == [op |-> Wanted(op, at), from |-> s]
           out == wire'
<1>1. wire \in Seq(Messages) /\ back \in Seq(Answers)  BY DEF Types
<1>2. PICK d \in {0, 1} : Drops(d)
  <2>1. IF took THEN Took(s) ELSE back' = back  BY DEF Moves
  <2>2. Drops(IF took THEN 1 ELSE 0)  BY <1>1, <2>1, Backs
  <2> QED  BY <2>2
<1>3. NoneOf(s, wire, back')
  <2>1. IF took THEN Took(s) ELSE back' = back  BY DEF Moves
  <2>2. took \/ Req(call[s]) = "none"  BY DEF Fair
  <2> QED  BY <2>1, <2>2, MovesAlone
<1>4. Put(wire, out, posts, Post(on), asks, m)  BY DEF Moves
<1>5. \A t \in Calls \ {s} : Req(call'[t]) = Req(call[t])
  BY DEF Moves, Steps, Req
<1>6. Post(on).from = "nobody" /\ Post(on).op \in {"fence", "unfence"}  BY DEF Post
<1>7. m.from = s /\ m.op = Wanted(op, at) /\ Req(call'[s]) = Wanted(op, at)  BY DEF Moves, Steps, Req
<1>8. s # "nobody" /\ "nobody" \notin Calls  BY Names
<1> HIDE DEF m
<1>10. out \in Seq(Messages) /\ Len(out) \in Nat /\ Len(wire) \in Nat
  BY <1>1, <1>4, PutItems
<1>9. \A i \in 1..Len(out) :
        \/ i \in 1..Len(wire) /\ out[i] = wire[i]
        \/ posts /\ i = Len(wire) + 1 /\ out[i] = Post(on)
        \/ asks /\ i = Len(out) /\ i > Len(wire) /\ out[i] = m
  BY <1>1, <1>4, PutItems
<1> HIDE DEF out
<1>11. \A i \in 1..Len(out) :
         \/ out[i].op \in {"fence", "unfence"} /\ out[i].from = "nobody"
         \/ out[i].op \in Asks /\ out[i].from \in Calls /\ out[i].op = Req(call'[out[i].from])
  <2> TAKE i \in 1..Len(out)
  <2>1. CASE i \in 1..Len(wire) /\ out[i] = wire[i]
    <3>1. wire[i].from # s  BY <1>3, <2>1 DEF NoneOf
    <3>2. \/ wire[i].op \in {"fence", "unfence"} /\ wire[i].from = "nobody"
          \/ wire[i].op \in Asks /\ wire[i].from \in Calls /\ wire[i].op = Req(call[wire[i].from])
      BY <2>1 DEF Mail
    <3> QED  BY <1>5, <2>1, <3>1, <3>2
  <2>2. CASE out[i] = Post(on)  BY <1>6, <2>2
  <2>3. CASE asks /\ out[i] = m  BY <1>7, <2>3 DEF Fair
  <2> QED  BY <1>9, <2>1, <2>2, <2>3
<1>12. \A k \in 1..Len(back') : back'[k].from \in Calls /\ back'[k].from # s
  <2>1. \A k \in 1..Len(back') : back'[k] \in Answers  BY <1>2 DEF Drops
  <2> QED  BY <1>3, <2>1 DEF NoneOf, Answers
<1>13. \A k \in 1..Len(back') : LET want == Req(call'[back'[k].from]) IN
         /\ want # "none"
         /\ want \notin {"lead", "ack"} => back'[k].said = "ok"
         /\ want = "ack" => back'[k].said \in {"ok", "failed"}
         /\ want = "lead" => back'[k].said \in {"promoted", "seeded", "noop", "failed"}
  <2> TAKE k \in 1..Len(back')
  <2>1. k + d \in 1..Len(back) /\ back'[k] = back[k + d]  BY <1>2 DEF Drops
  <2>2. Req(call'[back'[k].from]) = Req(call[back[k + d].from])  BY <1>5, <1>12, <2>1
  <2> QED  BY <2>1, <2>2 DEF Mail
<1>14. \A i, j \in 1..Len(out) : out[i].from = out[j].from => i = j \/ out[i].from = "nobody"
  <2> SUFFICES ASSUME NEW i \in 1..Len(out), NEW j \in 1..Len(out), out[i].from = out[j].from,
                      out[i].from # "nobody"
               PROVE  i = j
    OBVIOUS
  <2>1. (i \in 1..Len(wire) /\ out[i] = wire[i]) \/ (asks /\ i = Len(out) /\ out[i] = m)
    BY <1>6, <1>9
  <2>2. (j \in 1..Len(wire) /\ out[j] = wire[j]) \/ (asks /\ j = Len(out) /\ out[j] = m)
    BY <1>6, <1>9
  <2>3. \A x \in 1..Len(wire) : wire[x].from # m.from  BY <1>3, <1>7 DEF NoneOf
  <2> QED  BY <2>1, <2>2, <2>3 DEF Mail
<1>15. \A i, j \in 1..Len(back') : back'[i].from = back'[j].from => i = j
  <2> SUFFICES ASSUME NEW i \in 1..Len(back'), NEW j \in 1..Len(back'),
                      back'[i].from = back'[j].from
               PROVE  i = j
    OBVIOUS
  <2>1. i + d \in 1..Len(back) /\ back'[i] = back[i + d] /\ j + d \in 1..Len(back)
        /\ back'[j] = back[j + d]
    BY <1>2 DEF Drops
  <2>2. i + d = j + d  BY <2>1 DEF Mail
  <2> QED  BY <2>2
<1>16. \A i \in 1..Len(out), j \in 1..Len(back') : out[i].from # back'[j].from
  <2> TAKE i \in 1..Len(out), j \in 1..Len(back')
  <2>1. j + d \in 1..Len(back) /\ back'[j] = back[j + d]  BY <1>2 DEF Drops
  <2>2. CASE i \in 1..Len(wire) /\ out[i] = wire[i]  BY <2>1, <2>2 DEF Mail
  <2>3. CASE out[i] = Post(on)  BY <1>6, <1>8, <1>12, <2>3
  <2>4. CASE asks /\ out[i] = m  BY <1>7, <1>12, <2>4
  <2> QED  BY <1>9, <2>2, <2>3, <2>4
<1>17. back' \in Seq(Answers)  BY <1>2 DEF Drops
<1> QED  BY <1>10, <1>11, <1>13, <1>14, <1>15, <1>16, <1>17 DEF Mail, out

-----------------------------------------------------------------------------
(* The moves of each step of main.                                         *)

\* Only call s has changed, and main's fence has not.
Only(s, n) ==
  /\ fenced' = fenced
  /\ call'[s] = n
  /\ \A t \in Calls \ {s} : call'[t] = call[t]

\* Fixes what the steps of main leave alone.
Same == db' = db /\ wfenced' = wfenced
Takes(s, took) == IF took THEN Took(s) ELSE back' = back
Sent(s, op, at, asks, then) ==
  IF asks THEN Wanted(op, at) \in Asks /\ then = Ask(s, Wanted(op, at)) ELSE then = <<>>

(* A call goes on (every await of a procedure that sends or waits).        *)
LEMMA GoesSent ==
  ASSUME Types, NEW s \in Calls, NEW at \in Ats, NEW took \in BOOLEAN, NEW asks \in BOOLEAN,
         NEW then, Same, Takes(s, took), Sends(then, Goes(s, at)),
         Sent(s, call[s].op, at, asks, then)
  PROVE  Moves(s, call[s].op, at, took, FALSE, FALSE, asks) /\ Only(s, [call[s] EXCEPT !.at = at])
<1> DEFINE c == Goes(s, at)
<1>1. call \in [Calls -> Flags]  BY DEF Types
<1>2. /\ Steps(c, s, call[s].op, at) /\ c[s] = [call[s] EXCEPT !.at = at]
      /\ \A t \in Calls \ {s} : c[t] = call[t]
  BY <1>1, GoesSteps
<1> HIDE DEF c
<1>3. Moves(s, call[s].op, at, took, FALSE, FALSE, asks) /\ call' = c /\ fenced' = fenced
  BY ZenonT(60), <1>2, SentMoves DEF c, Same, Takes, Sent
<1> QED  BY <1>2, <1>3 DEF Only

(* A call ends.                                                            *)
LEMMA EndsSent ==
  ASSUME Types, NEW s \in Calls, NEW took \in BOOLEAN, Same, Takes(s, took),
         Sends(<<>>, Ends(s))
  PROVE  Moves(s, "none", "done", took, FALSE, FALSE, FALSE) /\ Only(s, Idle)
<1> DEFINE c == Ends(s)
<1>1. call \in [Calls -> Flags]  BY DEF Types
<1>2. /\ Steps(c, s, "none", "done") /\ c[s] = Idle /\ \A t \in Calls \ {s} : c[t] = call[t]
  BY <1>1, EndsSteps
<1> HIDE DEF c
<1>3. Moves(s, "none", "done", took, FALSE, FALSE, FALSE) /\ call' = c /\ fenced' = fenced
  BY <1>2, SentMoves DEF c, Same, Takes
<1> QED  BY <1>2, <1>3 DEF Only

(* A call starts.                                                          *)
LEMMA StartedSent ==
  ASSUME Types, NEW s \in Calls, NEW op \in Ops, NEW at \in Ats, NEW arg \in BOOLEAN,
         NEW asks \in BOOLEAN, NEW then, Same, Takes(s, FALSE),
         Sends(then, Started(s, op, at, arg)), Sent(s, op, at, asks, then)
  PROVE  /\ Moves(s, op, at, FALSE, FALSE, FALSE, asks)
         /\ Only(s, [op |-> op, at |-> at, arg |-> arg, late |-> FALSE, undo |-> FALSE])
<1> DEFINE c == Started(s, op, at, arg)
           n == [op |-> op, at |-> at, arg |-> arg, late |-> FALSE, undo |-> FALSE]
<1>1. call \in [Calls -> Flags]  BY DEF Types
<1>2. /\ Steps(c, s, op, at) /\ c[s] = n /\ \A t \in Calls \ {s} : c[t] = call[t]
  BY <1>1, StartedSteps
<1> HIDE DEF c, n
<1>3. Moves(s, op, at, FALSE, FALSE, FALSE, asks) /\ call' = c /\ fenced' = fenced
  BY <1>2, SentMoves DEF c, Same, Takes, Sent
<1> QED  BY <1>2, <1>3 DEF Only, n

\* Call s has become n and main fenced itself: an opening is too late.
Closing(s, n) ==
  /\ fenced' = TRUE
  /\ call'[s].op = n.op /\ call'[s].at = n.at /\ call'[s].undo = n.undo /\ call'[s].arg = n.arg
  /\ n.op # "open" => call'[s] = n
  /\ \A t \in Calls \ {s} : call[t].op # "open" => call'[t] = call[t]
  /\ \A t \in Calls : call'[t].op = "open" => call'[t].late

(* A call goes on, and main fences itself.                                 *)
LEMMA GoesFenced ==
  ASSUME Types, NEW s \in Calls, NEW at \in Ats, NEW took \in BOOLEAN, NEW asks \in BOOLEAN,
         NEW then, Same, Takes(s, took), SetFence(TRUE, then, Goes(s, at)),
         Sent(s, call[s].op, at, asks, then)
  PROVE  /\ Moves(s, call[s].op, at, took, TRUE, TRUE, asks)
         /\ Closing(s, [call[s] EXCEPT !.at = at])
<1> DEFINE c == Goes(s, at)
           n == [call[s] EXCEPT !.at = at]
<1>1. call \in [Calls -> Flags]  BY DEF Types
<1>2. /\ Steps(c, s, call[s].op, at) /\ c[s] = n
      /\ \A t \in Calls \ {s} : c[t] = call[t]
  BY <1>1, GoesSteps
<1> HIDE DEF c, n
<1>3. c \in [Calls -> Flags]  BY <1>2 DEF Steps
<1>4. Moves(s, call[s].op, at, took, TRUE, TRUE, asks) /\ call' = Seen(c) /\ fenced' = TRUE
  BY <1>2, <1>3, FencedMoves DEF c, Same, Takes, Sent
<1>5. Closing(s, n)  BY <1>2, <1>3, <1>4, SeenLate DEF Closing, Late
<1> QED  BY <1>4, <1>5 DEF n

(* A call starts, and main fences itself (demote).                         *)
LEMMA StartedFenced ==
  ASSUME Types, NEW s \in Calls, NEW op \in Ops, NEW at \in Ats, NEW arg \in BOOLEAN,
         NEW asks \in BOOLEAN, NEW then, Same, Takes(s, FALSE),
         SetFence(TRUE, then, Started(s, op, at, arg)), Sent(s, op, at, asks, then)
  PROVE  /\ Moves(s, op, at, FALSE, TRUE, TRUE, asks)
         /\ Closing(s, [op |-> op, at |-> at, arg |-> arg, late |-> FALSE, undo |-> FALSE])
<1> DEFINE c == Started(s, op, at, arg)
           n == [op |-> op, at |-> at, arg |-> arg, late |-> FALSE, undo |-> FALSE]
<1>1. call \in [Calls -> Flags]  BY DEF Types
<1>2. /\ Steps(c, s, op, at) /\ c[s] = n /\ \A t \in Calls \ {s} : c[t] = call[t]
  BY <1>1, StartedSteps
<1> HIDE DEF c, n
<1>3. c \in [Calls -> Flags]  BY <1>2 DEF Steps
<1>4. Moves(s, op, at, FALSE, TRUE, TRUE, asks) /\ call' = Seen(c) /\ fenced' = TRUE
  BY <1>2, <1>3, FencedMoves DEF c, Same, Takes, Sent
<1>5. Closing(s, n)  BY <1>2, <1>3, <1>4, SeenLate DEF Closing, Late
<1> QED  BY <1>4, <1>5 DEF n

(* A call goes on or ends, and main opens: open and a failed promotion.    *)
LEMMA GoesOpened ==
  ASSUME Types, NEW s \in Calls, NEW at \in Ats, NEW asks \in BOOLEAN,
         NEW then, Same, Takes(s, TRUE), SetFence(FALSE, then, Goes(s, at)),
         Sent(s, call[s].op, at, asks, then)
  PROVE  /\ Moves(s, call[s].op, at, TRUE, TRUE, FALSE, asks)
         /\ fenced' = FALSE /\ call'[s] = [call[s] EXCEPT !.at = at]
         /\ \A t \in Calls \ {s} : call'[t] = call[t]
<1> DEFINE c == Goes(s, at)
<1>1. call \in [Calls -> Flags]  BY DEF Types
<1>2. /\ Steps(c, s, call[s].op, at) /\ c[s] = [call[s] EXCEPT !.at = at]
      /\ \A t \in Calls \ {s} : c[t] = call[t]
  BY <1>1, GoesSteps
<1> HIDE DEF c
<1>3. c \in [Calls -> Flags]  BY <1>2 DEF Steps
<1>4. Moves(s, call[s].op, at, TRUE, TRUE, FALSE, asks) /\ call' = c /\ fenced' = FALSE
  BY <1>2, <1>3, FencedMoves DEF c, Same, Takes, Sent
<1> QED  BY <1>2, <1>4

(* A promotion that closed the device and failed ends, and main opens.     *)
LEMMA EndsOpened ==
  ASSUME Types, NEW s \in Calls, Same, Takes(s, TRUE), SetFence(FALSE, <<>>, Ends(s))
  PROVE  /\ Moves(s, "none", "done", TRUE, TRUE, FALSE, FALSE)
         /\ fenced' = FALSE /\ call'[s] = Idle
         /\ \A t \in Calls \ {s} : call'[t] = call[t]
<1> DEFINE c == Ends(s)
<1>1. call \in [Calls -> Flags]  BY DEF Types
<1>2. /\ Steps(c, s, "none", "done") /\ c[s] = Idle /\ \A t \in Calls \ {s} : c[t] = call[t]
  BY <1>1, EndsSteps
<1> HIDE DEF c
<1>3. c \in [Calls -> Flags]  BY <1>2 DEF Steps
<1>4. Moves(s, "none", "done", TRUE, TRUE, FALSE, FALSE) /\ call' = c /\ fenced' = FALSE
  BY <1>2, <1>3, FencedMoves DEF c, Same, Takes
<1> QED  BY <1>2, <1>4

\* Call s is a call of kind op and waits at at.
At(s, op, at) == call[s].op = op /\ call[s].at = at
\* Call s, of kind op, goes from one wait to the next and sends what it asks.
Walks(s, op, from, to, took, asks) ==
  At(s, op, from) /\ Moves(s, op, to, took, FALSE, FALSE, asks)
                  /\ Only(s, [call[s] EXCEPT !.at = to])
\* Call s ends.
Leaves(s, took) == Moves(s, "none", "done", took, FALSE, FALSE, FALSE) /\ Only(s, Idle)

(* refreshGate reads the row, then who owns what.                          *)
LEMMA TakeRowMoves ==
  ASSUME Types, NEW s \in Calls, TakeRow(s)
  PROVE  /\ \/ Walks(s, call[s].op, "row", "owned", TRUE, TRUE)
            \/ Walks(s, call[s].op, "row2", "owned2", TRUE, TRUE)
         /\ row' = Head(back).row /\ UNCHANGED <<lease, gate, work, lost>>
<1>1. PICK at \in {"row", "row2"} :
        /\ Answered(s, at)
        /\ Sends(Ask(s, "read"), Goes(s, IF at = "row" THEN "owned" ELSE "owned2"))
  BY DEF TakeRow
<1>2. Same /\ Takes(s, TRUE) /\ call[s].at = at  BY <1>1 DEF TakeRow, Answered, Same, Takes, Took
<1>3. CASE at = "row"
  <2>1. Sends(Ask(s, "read"), Goes(s, "owned"))  BY <1>1, <1>3
  <2>2. Sent(s, call[s].op, "owned", TRUE, Ask(s, "read"))  BY DEF Sent, Wanted, Asks
  <2>3. Moves(s, call[s].op, "owned", TRUE, FALSE, FALSE, TRUE)
        /\ Only(s, [call[s] EXCEPT !.at = "owned"])
    BY <1>2, <2>1, <2>2, GoesSent DEF Ats
  <2> QED  BY <1>2, <1>3, <2>3 DEF TakeRow, Walks, At
<1>4. CASE at = "row2"
  <2>1. Sends(Ask(s, "read"), Goes(s, "owned2"))  BY <1>1, <1>4
  <2>2. Sent(s, call[s].op, "owned2", TRUE, Ask(s, "read"))  BY DEF Sent, Wanted, Asks
  <2>3. Moves(s, call[s].op, "owned2", TRUE, FALSE, FALSE, TRUE)
        /\ Only(s, [call[s] EXCEPT !.at = "owned2"])
    BY <1>2, <2>1, <2>2, GoesSent DEF Ats
  <2> QED  BY <1>2, <1>4, <2>3 DEF TakeRow, Walks, At
<1> QED  BY <1>1, <1>3, <1>4

\* A report of the lease has begun: a promotion is told, and an opening too
\* when main fences itself.
Reported(s, master) ==
  /\ call'[s] = [op |-> "lease", at |-> "row", arg |-> master, late |-> FALSE, undo |-> FALSE]
  /\ \A t \in Calls \ {s} :
       /\ call[t].op \notin {"lead", "open"} => call'[t] = call[t]
       /\ call[t].op = "lead" => call'[t].late
       /\ call[t].op = "open" => IF Closes(master) THEN call'[t].late ELSE call'[t] = call[t]

(* setLease closes from the row it has, and asks for a fresh one.          *)
LEMMA SetLeaseMoves ==
  ASSUME Types, NEW s \in Reports, NEW master \in BOOLEAN, SetLease(s, master)
  PROVE  /\ call[s] = Idle
         /\ IF Closes(master) THEN Moves(s, "lease", "row", FALSE, TRUE, TRUE, TRUE)
            ELSE Moves(s, "lease", "row", FALSE, FALSE, FALSE, TRUE)
         /\ fenced' = (fenced \/ Closes(master))
         /\ Reported(s, master)
         /\ UNCHANGED <<row, gate, work>>
<1> DEFINE b == Started(s, "lease", "row", master)
           c == Noticed(b)
           n == [op |-> "lease", at |-> "row", arg |-> master, late |-> FALSE, undo |-> FALSE]
<1>0. s \in Calls  BY Names
<1>1. call \in [Calls -> Flags]  BY DEF Types
<1>2. /\ Steps(b, s, "lease", "row") /\ b[s] = n /\ \A t \in Calls \ {s} : b[t] = call[t]
  <2>1. "lease" \in Ops /\ "row" \in Ats  BY DEF Ops, Ats
  <2> HIDE DEF b, n
  <2>2. /\ Steps(Started(s, "lease", "row", master), s, "lease", "row")
        /\ Started(s, "lease", "row", master)[s] =
             [op |-> "lease", at |-> "row", arg |-> master, late |-> FALSE, undo |-> FALSE]
        /\ \A t \in Calls \ {s} : Started(s, "lease", "row", master)[t] = call[t]
    BY <1>0, <1>1, <2>1, StartedSteps
  <2> QED  BY <2>2 DEF b, n
<1>3. n.op = "lease"  OBVIOUS
<1> HIDE DEF b, n
<1>4. b \in [Calls -> Flags]  BY <1>2 DEF Steps
<1>5. Late(b, c) /\ (\A t \in Calls : b[t].op = "lead" => c[t].late)
      /\ \A t \in Calls : b[t].op # "lead" => c[t] = b[t]
  BY <1>4, SeenLate
<1>6. Steps(c, s, "lease", "row")  BY <1>0, <1>2, <1>5, LateSteps
<1>7. c \in [Calls -> Flags]  BY <1>5 DEF Late
<1>8. call[s] = Idle /\ Same /\ Takes(s, FALSE)  BY DEF SetLease, MayCall, Same, Takes
<1>9. IF Closes(master) THEN SetFence(TRUE, Ask(s, "read"), c) ELSE Sends(Ask(s, "read"), c)
  BY DEF SetLease, b, c
<1>10. Sent(s, "lease", "row", TRUE, Ask(s, "read"))  BY DEF Sent, Wanted, Asks
<1>11. UNCHANGED <<row, gate, work>>  BY DEF SetLease
<1>12. fenced \in BOOLEAN /\ Closes(master) \in BOOLEAN  BY DEF Types, Closes
<1>13. c[s] = n /\ \A t \in Calls \ {s} : c[t].op = call[t].op
                     /\ (call[t].op # "lead" => c[t] = call[t]) /\ (call[t].op = "lead" => c[t].late)
  <2>1. b[s].op # "lead"  BY <1>2, <1>3
  <2> QED  BY <1>0, <1>2, <1>5, <2>1 DEF Late
<1> HIDE DEF c
<1>14. CASE Closes(master)
  <2>1. /\ Moves(s, "lease", "row", FALSE, TRUE, TRUE, TRUE) /\ call' = Seen(c) /\ fenced' = TRUE
    BY <1>0, <1>6, <1>7, <1>8, <1>9, <1>10, <1>14, FencedMoves DEF Same, Takes, Sent
  <2>2. Reported(s, master)
    <3>1. /\ Late(c, Seen(c)) /\ \A t \in Calls : c[t].op = "open" => Seen(c)[t].late
          /\ \A t \in Calls : c[t].op # "open" => Seen(c)[t] = c[t]
      BY <1>7, SeenLate
    <3>2. call'[s] = n  BY <1>0, <1>3, <1>13, <2>1, <3>1
    <3>3. \A t \in Calls \ {s} :
            /\ call[t].op \notin {"lead", "open"} => call'[t] = call[t]
            /\ call[t].op = "lead" => call'[t].late
            /\ call[t].op = "open" => call'[t].late
      BY <1>13, <2>1, <3>1
    <3> QED  BY <1>14, <3>2, <3>3 DEF Reported, n
  <2> QED  BY <1>8, <1>11, <1>12, <1>14, <2>1, <2>2
<1>15. CASE ~Closes(master)
  <2>1. /\ Moves(s, "lease", "row", FALSE, FALSE, FALSE, TRUE) /\ call' = c /\ fenced' = fenced
    BY <1>0, <1>6, <1>7, <1>8, <1>9, <1>10, <1>15, SentMoves DEF Same, Takes, Sent
  <2>2. Reported(s, master)
    <3>1. \A t \in Calls \ {s} :
            /\ call[t].op \notin {"lead", "open"} => call'[t] = call[t]
            /\ call[t].op = "lead" => call'[t].late
            /\ call[t].op = "open" => call'[t] = call[t]
      BY <1>13, <2>1
    <3> QED  BY <1>13, <1>15, <2>1, <3>1 DEF Reported, n
  <2> QED  BY <1>8, <1>11, <1>12, <1>15, <2>1, <2>2
<1> QED  BY <1>12, <1>14, <1>15

(* The fresh row can only add a close; a fenced device holds its work.     *)
LEMMA LeaseReadMoves ==
  ASSUME Types, NEW s \in Reports, LeaseRead(s)
  PROVE  /\ At(s, "lease", "owned")
         /\ fenced' = (fenced \/ Closes(call[s].arg))
         /\ UNCHANGED <<row, lease, work, lost>>
         /\ \/ fenced /\ Hold /\ Walks(s, "lease", "owned", "hold", TRUE, FALSE)
            \/ /\ ~fenced /\ Closes(call[s].arg) /\ Hold
               /\ Moves(s, "lease", "hold", TRUE, TRUE, TRUE, FALSE)
               /\ Closing(s, [call[s] EXCEPT !.at = "hold"])
            \/ ~fenced /\ ~Closes(call[s].arg) /\ gate' = gate /\ Leaves(s, TRUE)
<1>0. s \in Calls  BY Names
<1>1. Same /\ Takes(s, TRUE) /\ At(s, "lease", "owned")
  BY DEF LeaseRead, Answered, Same, Takes, Took, At
<1>2. UNCHANGED <<row, lease, work, lost>>  BY DEF LeaseRead
<1>3. fenced \in BOOLEAN /\ Closes(call[s].arg) \in BOOLEAN  BY DEF Types, Closes
<1>4. call[s].op = "lease" /\ Sent(s, "lease", "hold", FALSE, <<>>)  BY <1>1 DEF At, Sent
<1>5. CASE fenced
  <2>1. Sends(<<>>, Goes(s, "hold")) /\ Hold  BY <1>5 DEF LeaseRead
  <2>2. Moves(s, "lease", "hold", TRUE, FALSE, FALSE, FALSE)
        /\ Only(s, [call[s] EXCEPT !.at = "hold"])
    BY <1>0, <1>1, <1>4, <2>1, GoesSent DEF Ats
  <2>3. fenced' = fenced  BY <2>2 DEF Only
  <2> QED  BY <1>1, <1>2, <1>3, <1>5, <2>1, <2>2, <2>3 DEF Walks
<1>6. CASE ~fenced /\ Closes(call[s].arg)
  <2>1. SetFence(TRUE, <<>>, Goes(s, "hold")) /\ Hold  BY <1>6 DEF LeaseRead
  <2>2. Moves(s, "lease", "hold", TRUE, TRUE, TRUE, FALSE)
        /\ Closing(s, [call[s] EXCEPT !.at = "hold"])
    BY <1>0, <1>1, <1>4, <2>1, GoesFenced DEF Ats
  <2>3. fenced' = TRUE  BY <2>2 DEF Closing
  <2> QED  BY <1>1, <1>2, <1>3, <1>6, <2>1, <2>2, <2>3
<1>7. CASE ~fenced /\ ~Closes(call[s].arg)
  <2>1. Sends(<<>>, Ends(s)) /\ gate' = gate  BY <1>7 DEF LeaseRead
  <2>2. Leaves(s, TRUE)  BY <1>0, <1>1, <2>1, EndsSent DEF Leaves
  <2>3. fenced' = fenced  BY <2>2 DEF Leaves, Only
  <2> QED  BY <1>1, <1>2, <1>3, <1>7, <2>1, <2>2, <2>3
<1> QED  BY <1>3, <1>5, <1>6, <1>7

(* The work has stopped, for a call that ends with it.                     *)
LEMMA HoldEndsMoves ==
  ASSUME Types, NEW s \in Calls, HoldEnds(s)
  PROVE  /\ \/ call[s].op \in {"lease", "demote"} /\ call[s].at = "hold"
            \/ At(s, "lead", "hold2")
         /\ Leaves(s, FALSE) /\ ~gate.closing /\ UNCHANGED <<row, lease, gate, work, lost>>
<1>1. Same /\ Takes(s, FALSE) /\ Sends(<<>>, Ends(s))  BY DEF HoldEnds, Same, Takes
<1>2. Leaves(s, FALSE)  BY <1>1, EndsSent DEF Leaves
<1> QED  BY <1>2 DEF HoldEnds, At

\* A call of control has begun, and nothing else has changed but lost.
Begins(s, op, at, arg, asks) ==
  /\ call[s] = Idle
  /\ Moves(s, op, at, FALSE, FALSE, FALSE, asks)
  /\ Only(s, [op |-> op, at |-> at, arg |-> arg, late |-> FALSE, undo |-> FALSE])
\* Call s goes on, and main fences itself.
Shuts(s, op, from, to, took, asks) ==
  At(s, op, from) /\ Moves(s, op, to, took, TRUE, TRUE, asks)
                  /\ Closing(s, [call[s] EXCEPT !.at = to])
\* Call s goes on, and main opens.
Lifts(s, op, from, to, asks) ==
  /\ At(s, op, from) /\ Moves(s, op, to, TRUE, TRUE, FALSE, asks)
  /\ fenced' = FALSE /\ call'[s] = [call[s] EXCEPT !.at = to]
  /\ \A t \in Calls \ {s} : call'[t] = call[t]

(* lead asks for a fresh row.                                              *)
LEMMA LeadMoves ==
  ASSUME Types, NEW newer \in BOOLEAN, Lead(newer)
  PROVE  /\ Begins("control", "lead", "row", newer, TRUE) /\ call["join"] = Idle
         /\ lost' = (lost /\ BootFenced(db)) /\ UNCHANGED <<row, lease, gate, work>>
<1>1. Same /\ Takes("control", FALSE) /\ call["control"] = Idle
  BY DEF Lead, MayCall, Same, Takes
<1>2. Sends(Ask("control", "read"), Started("control", "lead", "row", newer))  BY DEF Lead
<1>3. Sent("control", "lead", "row", TRUE, Ask("control", "read"))  BY DEF Sent, Wanted, Asks
<1>4. "lead" \in Ops /\ "row" \in Ats  BY DEF Ops, Ats
<1>5. Begins("control", "lead", "row", newer, TRUE)
  BY <1>1, <1>2, <1>3, <1>4, StartedSent, Names DEF Begins
<1> QED  BY <1>5 DEF Lead

\* A promotion has been posted; undo tells whether it closed the device.
Posted(undo) ==
  /\ call'["control"].undo = undo /\ call'["control"].late = call["control"].late
  /\ \A t \in Calls \ {"control"} : call[t].op # "open" => call'[t] = call[t]

(* lead posts the promotion, closing a follower first, or is refused.      *)
LEMMA LeadPostsMoves ==
  ASSUME Types, LeadPosts
  PROVE  /\ At("control", "lead", "owned") /\ UNCHANGED <<row, lease, gate, work, lost>>
         /\ \/ /\ row.role = "normal" /\ Moves("control", "lead", "led", TRUE, FALSE, FALSE, TRUE)
               /\ Posted(FALSE) /\ fenced' = fenced
               /\ \A t \in Calls \ {"control"} : call'[t] = call[t]
            \/ /\ row.role = "follower" /\ Moves("control", "lead", "led", TRUE, TRUE, TRUE, TRUE)
               /\ Posted(~fenced) /\ fenced' = TRUE
            \/ row.role = "follower" /\ Leaves("control", TRUE)
<1> DEFINE s == "control"
           u == (row.role = "follower" /\ ~fenced)
           b == Goes(s, "led")
           c == [b EXCEPT ![s].undo = u]
<1>0. s \in Calls  BY Names
<1>1. Same /\ Takes(s, TRUE) /\ At(s, "lead", "owned")
  BY DEF LeadPosts, Answered, Same, Takes, Took, At
<1>2. UNCHANGED <<row, lease, gate, work, lost>>  BY DEF LeadPosts
<1>3. row.role \in {"normal", "follower"} /\ fenced \in BOOLEAN /\ u \in BOOLEAN
  BY DEF Types, SyncStates
<1>4. call \in [Calls -> Flags]  BY DEF Types
<1>5. /\ Steps(b, s, "lead", "led") /\ b[s] = [call[s] EXCEPT !.at = "led"]
      /\ \A t \in Calls \ {s} : b[t] = call[t]
  <2>1. "led" \in Ats /\ call[s].op = "lead"  BY <1>1 DEF Ats, At
  <2> HIDE DEF b, u
  <2>2. /\ Steps(Goes(s, "led"), s, call[s].op, "led")
        /\ Goes(s, "led")[s] = [call[s] EXCEPT !.at = "led"]
        /\ \A t \in Calls \ {s} : Goes(s, "led")[t] = call[t]
    BY <1>0, <1>4, <2>1, GoesSteps
  <2> QED  BY <2>1, <2>2 DEF b
<1>6. b[s] \in Flags /\ b \in [Calls -> Flags]  BY <1>0, <1>5 DEF Steps
<1>7. b[s].late = call[s].late  BY <1>0, <1>4, <1>5 DEF Flags
<1> HIDE DEF b, u
<1>8. [b[s] EXCEPT !.undo = u] \in Flags /\ [b[s] EXCEPT !.undo = u].op = b[s].op
      /\ [b[s] EXCEPT !.undo = u].at = b[s].at /\ [b[s] EXCEPT !.undo = u].undo = u
      /\ [b[s] EXCEPT !.undo = u].late = b[s].late
  BY <1>3, <1>6 DEF Flags
<1>9. c[s] = [b[s] EXCEPT !.undo = u] /\ (\A t \in Calls \ {s} : c[t] = b[t])
      /\ c \in [Calls -> Flags]
  BY <1>0, <1>6, <1>8
<1> HIDE DEF c
<1>10. Steps(c, s, "lead", "led")  BY <1>5, <1>8, <1>9 DEF Steps
<1>11. Sent(s, "lead", "led", TRUE, Ask(s, "lead"))  BY DEF Sent, Wanted, Asks
<1>12. IF row.role = "normal" THEN Sends(Ask(s, "lead"), c)
       ELSE IF call[s].arg THEN SetFence(TRUE, Ask(s, "lead"), c) ELSE Sends(<<>>, Ends(s))
  BY DEF LeadPosts, b, c, u
<1>13. CASE row.role = "normal"
  <2>1. Moves(s, "lead", "led", TRUE, FALSE, FALSE, TRUE) /\ call' = c /\ fenced' = fenced
    BY <1>0, <1>1, <1>10, <1>11, <1>12, <1>13, SentMoves DEF Same, Takes, Sent
  <2>2. u = FALSE  BY <1>13 DEF u
  <2>3. Posted(FALSE) /\ \A t \in Calls \ {s} : call'[t] = call[t]
    BY <1>5, <1>7, <1>8, <1>9, <2>1, <2>2 DEF Posted
  <2> QED  BY <1>1, <1>2, <1>13, <2>1, <2>3
<1>14. CASE row.role # "normal" /\ call[s].arg
  <2>1. /\ Moves(s, "lead", "led", TRUE, TRUE, TRUE, TRUE) /\ call' = Seen(c) /\ fenced' = TRUE
    BY <1>0, <1>1, <1>9, <1>10, <1>11, <1>12, <1>14, FencedMoves DEF Same, Takes, Sent
  <2>2. u = ~fenced /\ row.role = "follower"  BY <1>3, <1>14 DEF u
  <2>3. \A t \in Calls : c[t].op # "open" => Seen(c)[t] = c[t]  BY <1>9, SeenLate
  <2>4. c[s].op = "lead"  BY <1>10 DEF Steps
  <2>5. call'[s] = c[s] /\ \A t \in Calls \ {s} : call[t].op # "open" => call'[t] = call[t]
    BY ZenonT(60), <1>0, <1>5, <1>9, <2>1, <2>3, <2>4
  <2>6. Posted(~fenced)  BY <1>7, <1>8, <1>9, <2>2, <2>5 DEF Posted
  <2> QED  BY <1>1, <1>2, <2>1, <2>2, <2>6
<1>15. CASE row.role # "normal" /\ ~call[s].arg
  <2>1. Sends(<<>>, Ends(s))  BY <1>12, <1>15
  <2>2. Leaves(s, TRUE)  BY <1>0, <1>1, <2>1, EndsSent DEF Leaves
  <2> QED  BY <1>1, <1>2, <1>3, <1>15, <2>2
<1>16. call[s].arg \in BOOLEAN  BY <1>0, <1>4 DEF Flags
<1> QED  BY <1>13, <1>14, <1>15, <1>16

(* lead hears from the worker: failed, promoted, or seeded and perhaps     *)
(* overtaken.                                                              *)
LEMMA LedMoves ==
  ASSUME Types, Led
  PROVE  /\ At("control", "lead", "led") /\ UNCHANGED <<row, lease, work, lost>>
         /\ \/ /\ Head(back).said = "failed" /\ call["control"].undo /\ gate' = gate
               /\ Moves("control", "none", "done", TRUE, TRUE, FALSE, FALSE)
               /\ fenced' = FALSE /\ call'["control"] = Idle
               /\ \A t \in Calls \ {"control"} : call'[t] = call[t]
            \/ /\ Head(back).said = "failed" /\ ~call["control"].undo /\ gate' = gate
               /\ Leaves("control", TRUE)
            \/ /\ Head(back).said = "promoted" /\ gate' = gate
               /\ Shuts("control", "lead", "led", "row2", TRUE, TRUE)
            \/ /\ Head(back).said \in {"seeded", "noop"} /\ Overtaken("control", FALSE) /\ Hold
               /\ Shuts("control", "lead", "led", "hold", TRUE, FALSE)
            \/ /\ Head(back).said \in {"seeded", "noop"} /\ ~Overtaken("control", FALSE)
               /\ gate' = gate /\ Walks("control", "lead", "led", "row2", TRUE, TRUE)
<1> DEFINE s == "control"
<1>0. s \in Calls  BY Names
<1>1. Same /\ Takes(s, TRUE) /\ At(s, "lead", "led") /\ call[s].op = "lead"
  BY DEF Led, Answered, Same, Takes, Took, At
<1>2. UNCHANGED <<row, lease, work, lost>>  BY DEF Led
<1>3. Sent(s, "lead", "row2", TRUE, Ask(s, "read")) /\ Sent(s, "lead", "hold", FALSE, <<>>)
  BY DEF Sent, Wanted, Asks
<1>4. "row2" \in Ats /\ "hold" \in Ats  BY DEF Ats
<1>5. CASE Head(back).said = "failed" /\ gate' = gate /\ call[s].undo
           /\ SetFence(FALSE, <<>>, Ends(s))
  <2>1. /\ Moves(s, "none", "done", TRUE, TRUE, FALSE, FALSE)
        /\ fenced' = FALSE /\ call'[s] = Idle
        /\ \A t \in Calls \ {s} : call'[t] = call[t]
    BY <1>0, <1>1, <1>5, EndsOpened
  <2> QED  BY <1>1, <1>2, <1>5, <2>1
<1>6. CASE Head(back).said = "failed" /\ gate' = gate /\ ~call[s].undo /\ Sends(<<>>, Ends(s))
  <2>1. Leaves(s, TRUE)  BY <1>0, <1>1, <1>6, EndsSent DEF Leaves
  <2> QED  BY <1>1, <1>2, <1>6, <2>1
<1>7. CASE Head(back).said = "promoted" /\ gate' = gate
           /\ SetFence(TRUE, Ask(s, "read"), Goes(s, "row2"))
  <2>1. Shuts(s, "lead", "led", "row2", TRUE, TRUE)
    BY <1>0, <1>1, <1>3, <1>4, <1>7, GoesFenced DEF Shuts
  <2> QED  BY <1>1, <1>2, <1>7, <2>1
<1>8. CASE Head(back).said \in {"seeded", "noop"} /\ Overtaken(s, FALSE) /\ Hold
           /\ SetFence(TRUE, <<>>, Goes(s, "hold"))
  <2>1. Shuts(s, "lead", "led", "hold", TRUE, FALSE)
    BY <1>0, <1>1, <1>3, <1>4, <1>8, GoesFenced DEF Shuts
  <2> QED  BY <1>1, <1>2, <1>8, <2>1
<1>9. CASE Head(back).said \in {"seeded", "noop"} /\ ~Overtaken(s, FALSE) /\ gate' = gate
           /\ Sends(Ask(s, "read"), Goes(s, "row2"))
  <2>1. Walks(s, "lead", "led", "row2", TRUE, TRUE)
    BY <1>0, <1>1, <1>3, <1>4, <1>9, GoesSent DEF Walks
  <2> QED  BY <1>1, <1>2, <1>9, <2>1
<1> QED  BY <1>5, <1>6, <1>7, <1>8, <1>9 DEF Led

(* The work of an overtaken promotion has stopped.                         *)
LEMMA LeadHeldMoves ==
  ASSUME Types, LeadHeld
  PROVE  /\ Walks("control", "lead", "hold", "row2", FALSE, TRUE) /\ ~gate.closing
         /\ UNCHANGED <<row, lease, gate, work, lost>>
<1>1. Same /\ Takes("control", FALSE) /\ At("control", "lead", "hold")
      /\ call["control"].op = "lead"
  BY DEF LeadHeld, Same, Takes, At
<1>2. Sent("control", "lead", "row2", TRUE, Ask("control", "read"))  BY DEF Sent, Wanted, Asks
<1>3. Sends(Ask("control", "read"), Goes("control", "row2"))  BY DEF LeadHeld
<1>4. Walks("control", "lead", "hold", "row2", FALSE, TRUE)
  BY <1>1, <1>2, <1>3, GoesSent, Names DEF Walks, Ats
<1> QED  BY <1>4 DEF LeadHeld

(* A promotion ends; one that a loss overtook closes first.                *)
LEMMA LeadEndsMoves ==
  ASSUME Types, LeadEnds
  PROVE  /\ At("control", "lead", "owned2") /\ UNCHANGED <<row, lease, work, lost>>
         /\ \/ /\ Overtaken("control", TRUE) /\ Hold
               /\ Shuts("control", "lead", "owned2", "hold2", TRUE, FALSE)
            \/ ~Overtaken("control", TRUE) /\ gate' = gate /\ Leaves("control", TRUE)
<1> DEFINE s == "control"
<1>0. s \in Calls  BY Names
<1>1. Same /\ Takes(s, TRUE) /\ At(s, "lead", "owned2") /\ call[s].op = "lead"
  BY DEF LeadEnds, Answered, Same, Takes, Took, At
<1>2. UNCHANGED <<row, lease, work, lost>>  BY DEF LeadEnds
<1>3. CASE Overtaken(s, TRUE)
  <2>1. SetFence(TRUE, <<>>, Goes(s, "hold2")) /\ Hold  BY <1>3 DEF LeadEnds
  <2>2. Sent(s, "lead", "hold2", FALSE, <<>>)  BY DEF Sent
  <2>3. Shuts(s, "lead", "owned2", "hold2", TRUE, FALSE)
    BY <1>0, <1>1, <2>1, <2>2, GoesFenced DEF Shuts, Ats
  <2> QED  BY <1>1, <1>2, <1>3, <2>1, <2>3
<1>4. CASE ~Overtaken(s, TRUE)
  <2>1. Sends(<<>>, Ends(s)) /\ gate' = gate  BY <1>4 DEF LeadEnds
  <2>2. Leaves(s, TRUE)  BY <1>0, <1>1, <2>1, EndsSent DEF Leaves
  <2> QED  BY <1>1, <1>2, <1>4, <2>1, <2>2
<1> QED  BY <1>3, <1>4

(* open asks for a fresh row, while the lease names this device.           *)
LEMMA OpenMoves ==
  ASSUME Types, NEW acked \in BOOLEAN, Open(acked)
  PROVE  /\ Begins("control", "open", "row", acked, TRUE) /\ call["join"] = Idle
         /\ lease = "master" /\ UNCHANGED <<row, lease, gate, work, lost>>
<1>1. Same /\ Takes("control", FALSE) /\ call["control"] = Idle
  BY DEF Open, MayCall, Same, Takes
<1>2. Sends(Ask("control", "read"), Started("control", "open", "row", acked))  BY DEF Open
<1>3. Sent("control", "open", "row", TRUE, Ask("control", "read"))  BY DEF Sent, Wanted, Asks
<1>4. "open" \in Ops /\ "row" \in Ats  BY DEF Ops, Ats
<1>5. Begins("control", "open", "row", acked, TRUE)
  BY <1>1, <1>2, <1>3, <1>4, StartedSent, Names DEF Begins
<1> QED  BY <1>5 DEF Open

\* What ends an opening that has read the row.
Refused ==
  \/ call["control"].late
  \/ row.role = "follower" \/ row.joining
  \/ ~fenced
  \/ row.headPending /\ ~call["control"].arg

(* open has read the row: it ends, acknowledges the head, or lifts.        *)
LEMMA OpenReadMoves ==
  ASSUME Types, OpenRead
  PROVE  /\ At("control", "open", "owned") /\ UNCHANGED <<row, lease, gate, work, lost>>
         /\ \/ Leaves("control", TRUE)
            \/ ~Refused /\ Walks("control", "open", "owned", "ack", TRUE, TRUE)
            \/ /\ ~Refused /\ ~call["control"].arg
               /\ Lifts("control", "open", "owned", "seed", TRUE)
<1> DEFINE s == "control"
<1>0. s \in Calls  BY Names
<1>1. Same /\ Takes(s, TRUE) /\ At(s, "open", "owned") /\ call[s].op = "open"
  BY DEF OpenRead, Answered, Same, Takes, Took, At
<1>2. UNCHANGED <<row, lease, gate, work, lost>>  BY DEF OpenRead
<1>3. Sent(s, "open", "ack", TRUE, Ask(s, "ack")) /\ Sent(s, "open", "seed", TRUE, Ask(s, "read"))
  BY DEF Sent, Wanted, Asks
<1>4. "ack" \in Ats /\ "seed" \in Ats  BY DEF Ats
<1>5. \/ Sends(<<>>, Ends(s))
      \/ ~Refused /\ call[s].arg /\ Sends(Ask(s, "ack"), Goes(s, "ack"))
      \/ ~Refused /\ ~call[s].arg /\ SetFence(FALSE, Ask(s, "read"), Goes(s, "seed"))
  BY DEF OpenRead, Refused, Lift
<1>6. CASE Sends(<<>>, Ends(s))
  <2>1. Leaves(s, TRUE)  BY <1>0, <1>1, <1>6, EndsSent DEF Leaves
  <2> QED  BY <1>1, <1>2, <2>1
<1>7. CASE ~Refused /\ call[s].arg /\ Sends(Ask(s, "ack"), Goes(s, "ack"))
  <2>1. Walks(s, "open", "owned", "ack", TRUE, TRUE)
    BY <1>0, <1>1, <1>3, <1>4, <1>7, GoesSent DEF Walks
  <2> QED  BY <1>1, <1>2, <1>7, <2>1
<1>8. CASE ~Refused /\ ~call[s].arg /\ SetFence(FALSE, Ask(s, "read"), Goes(s, "seed"))
  <2>1. Lifts(s, "open", "owned", "seed", TRUE)
    BY <1>0, <1>1, <1>3, <1>4, <1>8, GoesOpened DEF Lifts
  <2> QED  BY <1>1, <1>2, <1>8, <2>1
<1> QED  BY <1>5, <1>6, <1>7, <1>8

(* The head is acknowledged, or its acknowledgement failed.                *)
LEMMA AckedMoves ==
  ASSUME Types, Acked
  PROVE  /\ At("control", "open", "ack") /\ UNCHANGED <<lease, gate, work, lost>>
         /\ \/ row' = row /\ Leaves("control", TRUE)
            \/ /\ Head(back).said # "failed" /\ row' = [row EXCEPT !.headPending = FALSE]
               /\ Leaves("control", TRUE)
            \/ /\ Head(back).said # "failed" /\ row' = [row EXCEPT !.headPending = FALSE]
               /\ ~call["control"].late /\ Lifts("control", "open", "ack", "seed", TRUE)
<1> DEFINE s == "control"
<1>0. s \in Calls  BY Names
<1>1. Same /\ Takes(s, TRUE) /\ At(s, "open", "ack") /\ call[s].op = "open"
  BY DEF Acked, Answered, Same, Takes, Took, At
<1>2. UNCHANGED <<lease, gate, work, lost>>  BY DEF Acked
<1>3. Sent(s, "open", "seed", TRUE, Ask(s, "read"))  BY DEF Sent, Wanted, Asks
<1>4. "seed" \in Ats  BY DEF Ats
<1>5. \/ row' = row /\ Sends(<<>>, Ends(s))
      \/ /\ Head(back).said # "failed" /\ row' = [row EXCEPT !.headPending = FALSE]
         /\ \/ Sends(<<>>, Ends(s))
            \/ ~call[s].late /\ SetFence(FALSE, Ask(s, "read"), Goes(s, "seed"))
  BY DEF Acked, Lift
<1>6. CASE Sends(<<>>, Ends(s))
  <2>1. Leaves(s, TRUE)  BY <1>0, <1>1, <1>6, EndsSent DEF Leaves
  <2> QED  BY <1>1, <1>2, <1>5, <2>1
<1>7. CASE Head(back).said # "failed" /\ row' = [row EXCEPT !.headPending = FALSE]
           /\ ~call[s].late /\ SetFence(FALSE, Ask(s, "read"), Goes(s, "seed"))
  <2>1. Lifts(s, "open", "ack", "seed", TRUE)
    BY <1>0, <1>1, <1>3, <1>4, <1>7, GoesOpened DEF Lifts
  <2> QED  BY <1>1, <1>2, <1>7, <2>1
<1> QED  BY <1>5, <1>6, <1>7

(* The preferences of an opened device are seeded.                         *)
LEMMA SeededMoves ==
  ASSUME Types, Seeded
  PROVE  /\ Walks("control", "open", "seed", "release", TRUE, FALSE)
         /\ UNCHANGED <<row, lease, gate, work, lost>>
<1>1. Same /\ Takes("control", TRUE) /\ At("control", "open", "seed")
      /\ call["control"].op = "open"
  BY DEF Seeded, Answered, Same, Takes, Took, At
<1>2. Sent("control", "open", "release", FALSE, <<>>)  BY DEF Sent
<1>3. Sends(<<>>, Goes("control", "release"))  BY DEF Seeded
<1>4. Walks("control", "open", "seed", "release", TRUE, FALSE)
  BY <1>1, <1>2, <1>3, GoesSent, Names DEF Walks, Ats
<1> QED  BY <1>4 DEF Seeded

(* The hold ends, for the runs.                                            *)
LEMMA ReleaseForRunsMoves ==
  ASSUME Types, ReleaseForRuns
  PROVE  /\ Walks("control", call["control"].op, "release", "accounts", FALSE, TRUE)
         /\ ~gate.closing /\ gate' = [gate EXCEPT !.holding = FALSE]
         /\ UNCHANGED <<row, lease, work, lost>>
<1> DEFINE op == call["control"].op
<1>1. Same /\ Takes("control", FALSE) /\ At("control", op, "release")
  BY DEF ReleaseForRuns, Same, Takes, At
<1>2. Sent("control", op, "accounts", TRUE, Ask("control", "read"))  BY DEF Sent, Wanted, Asks
<1>3. Sends(Ask("control", "read"), Goes("control", "accounts"))  BY DEF ReleaseForRuns
<1>4. Walks("control", op, "release", "accounts", FALSE, TRUE)
  BY <1>1, <1>2, <1>3, GoesSent, Names DEF Walks, Ats
<1> QED  BY <1>4 DEF ReleaseForRuns, Released

(* The accounts run, unless the device is closed or held.                  *)
LEMMA RunAccountsMoves ==
  ASSUME Types, RunAccounts
  PROVE  /\ Walks("control", call["control"].op, "accounts", "attach", TRUE, FALSE)
         /\ work' = [work EXCEPT !.runs = @ \/ (~gate.holding /\ ~Closed)]
         /\ UNCHANGED <<row, lease, gate, lost>>
<1> DEFINE op == call["control"].op
<1>1. Same /\ Takes("control", TRUE) /\ At("control", op, "accounts")
  BY DEF RunAccounts, Answered, Same, Takes, Took, At
<1>2. Sent("control", op, "attach", FALSE, <<>>)  BY DEF Sent
<1>3. Sends(<<>>, Goes("control", "attach"))  BY DEF RunAccounts
<1>4. Walks("control", op, "accounts", "attach", TRUE, FALSE)
  BY <1>1, <1>2, <1>3, GoesSent, Names DEF Walks, Ats
<1> QED  BY <1>4 DEF RunAccounts

(* The kept workers are attached, unless the device is closed.             *)
LEMMA AttachHeldMoves ==
  ASSUME Types, AttachHeld
  PROVE  /\ call["control"].at = "attach" /\ Leaves("control", FALSE)
         /\ ~gate.closing /\ gate' = [gate EXCEPT !.holding = FALSE]
         /\ work' = [work EXCEPT !.attached = @ \/ ~Closed]
         /\ UNCHANGED <<row, lease, lost>>
<1>1. Same /\ Takes("control", FALSE)  BY DEF AttachHeld, Same, Takes
<1>2. Sends(<<>>, Ends("control"))  BY DEF AttachHeld
<1>3. Leaves("control", FALSE)  BY <1>1, <1>2, EndsSent, Names DEF Leaves
<1> QED  BY <1>3 DEF AttachHeld, Released

(* demote fences the device and posts the demotion.                        *)
LEMMA DemoteMoves ==
  ASSUME Types, Demote
  PROVE  /\ call["control"] = Idle /\ call["join"] = Idle
         /\ Moves("control", "demote", "told", FALSE, TRUE, TRUE, TRUE)
         /\ Closing("control",
                    [op |-> "demote", at |-> "told", arg |-> FALSE, late |-> FALSE, undo |-> FALSE])
         /\ UNCHANGED <<row, lease, gate, work, lost>>
<1>1. Same /\ Takes("control", FALSE) /\ call["control"] = Idle
  BY DEF Demote, MayCall, Same, Takes
<1>2. Sent("control", "demote", "told", TRUE, Ask("control", "demote"))  BY DEF Sent, Wanted, Asks
<1>3. SetFence(TRUE, Ask("control", "demote"), Started("control", "demote", "told", FALSE))
  BY DEF Demote
<1>4. "demote" \in Ops /\ "told" \in Ats  BY DEF Ops, Ats
<1>5. /\ Moves("control", "demote", "told", FALSE, TRUE, TRUE, TRUE)
      /\ Closing("control",
                 [op |-> "demote", at |-> "told", arg |-> FALSE, late |-> FALSE, undo |-> FALSE])
  BY <1>1, <1>2, <1>3, <1>4, StartedFenced, Names
<1> QED  BY <1>1, <1>5 DEF Demote

(* The demotion is done: the row is read again.                            *)
LEMMA DemotedMoves ==
  ASSUME Types, Demoted
  PROVE  /\ Walks("control", "demote", "told", "row", TRUE, TRUE)
         /\ UNCHANGED <<row, lease, gate, work, lost>>
<1>1. Same /\ Takes("control", TRUE) /\ At("control", "demote", "told")
      /\ call["control"].op = "demote"
  BY DEF Demoted, Answered, Same, Takes, Took, At
<1>2. Sent("control", "demote", "row", TRUE, Ask("control", "read"))  BY DEF Sent, Wanted, Asks
<1>3. Sends(Ask("control", "read"), Goes("control", "row"))  BY DEF Demoted
<1>4. Walks("control", "demote", "told", "row", TRUE, TRUE)
  BY <1>1, <1>2, <1>3, GoesSent, Names DEF Walks, Ats
<1> QED  BY <1>4 DEF Demoted

(* A demoted device holds its work.                                        *)
LEMMA DemoteHoldsMoves ==
  ASSUME Types, DemoteHolds
  PROVE  /\ Walks("control", "demote", "owned", "hold", TRUE, FALSE)
         /\ Hold /\ UNCHANGED <<row, lease, work, lost>>
<1>1. Same /\ Takes("control", TRUE) /\ At("control", "demote", "owned")
      /\ call["control"].op = "demote"
  BY DEF DemoteHolds, Answered, Same, Takes, Took, At
<1>2. Sent("control", "demote", "hold", FALSE, <<>>)  BY DEF Sent
<1>3. Sends(<<>>, Goes("control", "hold"))  BY DEF DemoteHolds
<1>4. Walks("control", "demote", "owned", "hold", TRUE, FALSE)
  BY <1>1, <1>2, <1>3, GoesSent, Names DEF Walks, Ats
<1> QED  BY <1>4 DEF DemoteHolds

(* beginJoin holds the work.                                               *)
LEMMA BeginJoinMoves ==
  ASSUME Types, BeginJoin
  PROVE  /\ Begins("join", "begin", "hold", FALSE, FALSE)
         /\ row.role = "normal" /\ ("overlap" \in Also \/ call["control"] = Idle)
         /\ ("leader" \in Also \/ ~row.tracking)
         /\ Hold /\ UNCHANGED <<row, lease, work, lost>>
<1>1. Same /\ Takes("join", FALSE) /\ call["join"] = Idle
  BY DEF BeginJoin, MayCall, Same, Takes
<1>2. Sends(<<>>, Started("join", "begin", "hold", FALSE))  BY DEF BeginJoin
<1>3. Sent("join", "begin", "hold", FALSE, <<>>)  BY DEF Sent
<1>4. "begin" \in Ops /\ "hold" \in Ats  BY DEF Ops, Ats
<1>5. Begins("join", "begin", "hold", FALSE, FALSE)
  BY <1>1, <1>2, <1>3, <1>4, StartedSent, Names DEF Begins
<1> QED  BY <1>5 DEF BeginJoin

(* The work has stopped for a join: it goes on, or a leave was faster.     *)
LEMMA JoinHeldMoves ==
  ASSUME Types, JoinHeld, Shape
  PROVE  /\ At("join", "begin", "hold") /\ ~gate.closing
         /\ \/ call["join"].late /\ Leaves("join", FALSE)
            \/ ~call["join"].late /\ Walks("join", "begin", "hold", "told", FALSE, TRUE)
         /\ UNCHANGED <<row, lease, gate, work, lost>>
<1>1. Same /\ Takes("join", FALSE) /\ call["join"].at = "hold"
  BY DEF JoinHeld, Same, Takes
<1>2. call["join"].op = "begin"
  <2>1. Placed("join", call["join"])  BY Names DEF Shape
  <2> QED  BY <1>1, <2>1 DEF Placed, MadeBy, Idle
<1>3. CASE call["join"].late
  <2>1. Sends(<<>>, Ends("join"))  BY <1>3 DEF JoinHeld
  <2>2. Leaves("join", FALSE)  BY <1>1, <2>1, EndsSent, Names DEF Leaves
  <2> QED  BY <1>1, <1>2, <1>3, <2>2 DEF JoinHeld, At
<1>4. CASE ~call["join"].late
  <2>1. Sends(Ask("join", "joining"), Goes("join", "told"))  BY <1>4 DEF JoinHeld
  <2>2. Sent("join", "begin", "told", TRUE, Ask("join", "joining"))  BY DEF Sent, Wanted, Asks
  <2>3. Walks("join", "begin", "hold", "told", FALSE, TRUE)
    BY <1>1, <1>2, <2>1, <2>2, GoesSent, Names DEF Walks, Ats, At
  <2> QED  BY <1>1, <1>2, <1>4, <2>3 DEF JoinHeld, At
<1> QED  BY <1>3, <1>4

(* leaveJoin tells the worker; a join under way is overtaken (joinSeq).    *)
LEMMA LeaveJoinMoves ==
  ASSUME Types, LeaveJoin
  PROVE  /\ call["control"] = Idle /\ fenced' = fenced
         /\ Moves("control", "leave", "told", FALSE, FALSE, FALSE, TRUE)
         /\ call'["join"].late = (call["join"] # Idle)
         /\ \A t \in Calls \ {"control", "join"} : call'[t] = call[t]
         /\ UNCHANGED <<row, lease, gate, work, lost>>
<1> DEFINE s == "control"
           j == "join"
           l == (call[j] # Idle)
           b == Started(s, "leave", "told", FALSE)
           c == [b EXCEPT ![j].late = l]
<1>0. s \in Calls /\ j \in Calls /\ s # j  BY Names
<1>1. call \in [Calls -> Flags] /\ Same /\ Takes(s, FALSE) /\ call[s] = Idle
      /\ UNCHANGED <<row, lease, gate, work, lost>>
  BY DEF Types, LeaveJoin, MayCall, Same, Takes
<1>2. Sends(Ask(s, "joined"), c)  BY DEF LeaveJoin
<1>3. /\ Steps(b, s, "leave", "told") /\ \A t \in Calls \ {s} : b[t] = call[t]
  <2>1. "leave" \in Ops /\ "told" \in Ats  BY DEF Ops, Ats
  <2> HIDE DEF b
  <2>2. /\ Steps(Started(s, "leave", "told", FALSE), s, "leave", "told")
        /\ \A t \in Calls \ {s} : Started(s, "leave", "told", FALSE)[t] = call[t]
    BY <1>0, <1>1, <2>1, StartedSteps
  <2> QED  BY <2>2 DEF b
<1> HIDE DEF b, l
<1>4. b \in [Calls -> Flags] /\ b[j] = call[j] /\ b[j] \in Flags /\ l \in BOOLEAN
  BY <1>0, <1>3 DEF Steps, l
<1>5. LET r == [b[j] EXCEPT !.late = l] IN
        /\ r \in Flags /\ r.op = b[j].op /\ r.at = b[j].at /\ r.arg = b[j].arg /\ r.undo = b[j].undo
        /\ r.late = l
  BY <1>4 DEF Flags
<1>6. call[j] = Idle => [b[j] EXCEPT !.late = l] = Idle
  <2> SUFFICES ASSUME call[j] = Idle PROVE [b[j] EXCEPT !.late = l] = Idle  OBVIOUS
  <2>1. \A x, y \in Flags : x.op = y.op /\ x.at = y.at /\ x.arg = y.arg /\ x.late = y.late
                            /\ x.undo = y.undo => x = y
    BY DEF Flags
  <2>2. b[j] = Idle /\ l = FALSE /\ Idle.late = FALSE  BY <1>4 DEF l, Idle
  <2> QED  BY <1>4, <1>5, <2>1, <2>2
<1>7. c[j] = [b[j] EXCEPT !.late = l] /\ (\A t \in Calls \ {j} : c[t] = b[t])
      /\ c \in [Calls -> Flags]
  BY <1>0, <1>4, <1>5
<1>8. call[j].late => l  BY DEF l, Idle
<1> HIDE DEF c
<1>9. Steps(c, s, "leave", "told")
  <2>1. c[s].op = "leave" /\ c[s].at = "told"  BY <1>0, <1>3, <1>7 DEF Steps
  <2>2. \A t \in Calls \ {s} :
       /\ c[t].op = call[t].op /\ c[t].at = call[t].at
       /\ c[t].arg = call[t].arg /\ c[t].undo = call[t].undo
       /\ call[t].late => c[t].late
       /\ call[t] = Idle => c[t] = Idle
    BY <1>3, <1>4, <1>5, <1>6, <1>7, <1>8
  <2> QED  BY <1>7, <2>1, <2>2 DEF Steps
<1>10. Sent(s, "leave", "told", TRUE, Ask(s, "joined"))  BY DEF Sent, Wanted, Asks
<1>11. Moves(s, "leave", "told", FALSE, FALSE, FALSE, TRUE) /\ call' = c /\ fenced' = fenced
  BY <1>0, <1>1, <1>2, <1>9, <1>10, SentMoves DEF Same, Takes, Sent
<1>12. call'[j].late = l  BY <1>5, <1>7, <1>11
<1>13. \A t \in Calls \ {s, j} : call'[t] = call[t]  BY <1>3, <1>7, <1>11
<1> QED  BY <1>1, <1>11, <1>12, <1>13 DEF l

(* finishJoin tells the worker, after the swap.                            *)
LEMMA FinishJoinMoves ==
  ASSUME Types, FinishJoin
  PROVE  /\ Begins("control", "finish", "told", FALSE, TRUE) /\ call["join"] = Idle
         /\ row.role = "follower" /\ UNCHANGED <<row, lease, gate, work, lost>>
<1>1. Same /\ Takes("control", FALSE) /\ call["control"] = Idle
  BY DEF FinishJoin, MayCall, Same, Takes
<1>2. Sends(Ask("control", "joined"), Started("control", "finish", "told", FALSE))
  BY DEF FinishJoin
<1>3. Sent("control", "finish", "told", TRUE, Ask("control", "joined"))  BY DEF Sent, Wanted, Asks
<1>4. "finish" \in Ops /\ "told" \in Ats  BY DEF Ops, Ats
<1>5. Begins("control", "finish", "told", FALSE, TRUE)
  BY <1>1, <1>2, <1>3, <1>4, StartedSent, Names DEF Begins
<1> QED  BY <1>5 DEF FinishJoin

(* The worker has noted the join: the row is read again.                   *)
LEMMA JoinToldMoves ==
  ASSUME Types, NEW s \in Calls, JoinTold(s)
  PROVE  /\ call[s].op \in {"begin", "leave", "finish"}
         /\ Walks(s, call[s].op, "told", "row", TRUE, TRUE)
         /\ UNCHANGED <<row, lease, gate, work, lost>>
<1> DEFINE op == call[s].op
<1>1. Same /\ Takes(s, TRUE) /\ At(s, op, "told") /\ op \in {"begin", "leave", "finish"}
  BY DEF JoinTold, Answered, Same, Takes, Took, At
<1>2. Sent(s, op, "row", TRUE, Ask(s, "read"))  BY DEF Sent, Wanted, Asks
<1>3. Sends(Ask(s, "read"), Goes(s, "row"))  BY DEF JoinTold
<1>4. Walks(s, op, "told", "row", TRUE, TRUE)
  BY <1>1, <1>2, <1>3, GoesSent DEF Walks, Ats
<1> QED  BY <1>1, <1>4 DEF JoinTold

(* The row is known: a leave pauses what moved, the others end.            *)
LEMMA JoinReadMoves ==
  ASSUME Types, NEW s \in Calls, JoinRead(s)
  PROVE  /\ call[s].op \in {"begin", "leave", "finish"} /\ call[s].at = "owned"
         /\ \/ Walks(s, "leave", "owned", "paused", TRUE, TRUE)
            \/ call[s].op # "leave" /\ Leaves(s, TRUE)
         /\ UNCHANGED <<row, lease, gate, work, lost>>
<1>1. Same /\ Takes(s, TRUE) /\ call[s].op \in {"begin", "leave", "finish"} /\ call[s].at = "owned"
  BY DEF JoinRead, Answered, Same, Takes, Took
<1>2. CASE call[s].op = "leave"
  <2>1. Sent(s, "leave", "paused", TRUE, Ask(s, "read"))  BY DEF Sent, Wanted, Asks
  <2>2. Sends(Ask(s, "read"), Goes(s, "paused"))  BY <1>2 DEF JoinRead
  <2>3. Walks(s, "leave", "owned", "paused", TRUE, TRUE)
    BY <1>1, <1>2, <2>1, <2>2, GoesSent DEF Walks, Ats, At
  <2> QED  BY <1>1, <2>3 DEF JoinRead
<1>3. CASE call[s].op # "leave"
  <2>1. Sends(<<>>, Ends(s))  BY <1>3 DEF JoinRead
  <2>2. Leaves(s, TRUE)  BY <1>1, <2>1, EndsSent DEF Leaves
  <2> QED  BY <1>1, <1>3, <2>2 DEF JoinRead
<1> QED  BY <1>2, <1>3

(* What moved is paused.                                                   *)
LEMMA LeavePausedMoves ==
  ASSUME Types, LeavePaused
  PROVE  /\ Walks("control", "leave", "paused", "release", TRUE, FALSE)
         /\ UNCHANGED <<row, lease, gate, work, lost>>
<1>1. Same /\ Takes("control", TRUE) /\ At("control", "leave", "paused")
      /\ call["control"].op = "leave"
  BY DEF LeavePaused, Answered, Same, Takes, Took, At
<1>2. Sent("control", "leave", "release", FALSE, <<>>)  BY DEF Sent
<1>3. Sends(<<>>, Goes("control", "release"))  BY DEF LeavePaused
<1>4. Walks("control", "leave", "paused", "release", TRUE, FALSE)
  BY <1>1, <1>2, <1>3, GoesSent, Names DEF Walks, Ats
<1> QED  BY <1>4 DEF LeavePaused

-----------------------------------------------------------------------------
(* The types, the places of the calls, and the mail.                       *)

Base == Types /\ Shape /\ Mail

\* The gate and the work are of their types.
Engines == gate' \in [holding : BOOLEAN, closing : BOOLEAN]
           /\ work' \in [runs : BOOLEAN, attached : BOOLEAN]

\* What a step leaves beside the calls and the mail is of its type.
Tidy == row' \in SyncStates /\ lease' \in {"none", "master", "lost"} /\ lost' \in BOOLEAN /\ Engines

(* A move keeps them.                                                      *)
LEMMA BaseStep ==
  ASSUME Base, NEW s \in Calls, NEW op, NEW at, NEW took \in BOOLEAN,
         NEW posts \in BOOLEAN, NEW on \in BOOLEAN, NEW asks \in BOOLEAN,
         Moves(s, op, at, took, posts, on, asks), Fair(s, op, at, took, asks),
         Placed(s, call'[s]), Tidy
  PROVE  Base'
<1>1. Types /\ Shape /\ Mail  BY DEF Base
<1>2. Mail' /\ wire' \in Seq(Messages) /\ back' \in Seq(Answers)  BY <1>1, MailMoves
<1>3. Types'
  <2>1. db' \in SyncStates /\ wfenced' \in BOOLEAN /\ fenced' \in BOOLEAN
    BY <1>1 DEF Types, Moves
  <2>2. call' \in [Calls -> Flags]  BY DEF Moves, Steps
  <2> QED  BY <1>2, <2>1, <2>2 DEF Types, Tidy, Engines
<1>4. Shape'
  <2> SUFFICES ASSUME NEW t \in Calls PROVE Placed(t, call'[t])  BY DEF Shape
  <2>1. CASE t = s  BY <2>1
  <2>2. CASE t # s
    <3>1. call'[t].op = call[t].op /\ call'[t].at = call[t].at /\ (call[t] = Idle => call'[t] = Idle)
      BY <2>2 DEF Moves, Steps
    <3>2. Placed(t, call[t])  BY <1>1 DEF Shape
    <3> QED  BY <3>1, <3>2 DEF Placed
  <2> QED  BY <2>1, <2>2
<1> QED  BY <1>2, <1>3, <1>4 DEF Base

(* The same, with what is fair and tidy spelled out.                        *)
LEMMA BaseMoves ==
  ASSUME Base, NEW s \in Calls, NEW op, NEW at, NEW took \in BOOLEAN,
         NEW posts \in BOOLEAN, NEW on \in BOOLEAN, NEW asks \in BOOLEAN,
         Moves(s, op, at, took, posts, on, asks),
         took \/ Req(call[s]) = "none", asks => Wanted(op, at) \in Asks,
         Placed(s, call'[s]),
         row' \in SyncStates, lease' \in {"none", "master", "lost"}, lost' \in BOOLEAN,
         gate' \in [holding : BOOLEAN, closing : BOOLEAN],
         work' \in [runs : BOOLEAN, attached : BOOLEAN]
  PROVE  Base'
<1>1. Fair(s, op, at, took, asks)  BY DEF Fair
<1>2. Tidy  BY DEF Tidy, Engines
<1> QED  BY <1>1, <1>2, BaseStep

(* Where nothing is waited for.                                            *)
LEMMA NoReq ==
  ASSUME NEW c, c.at \in {"done", "hold", "hold2", "release", "attach"}
  PROVE  Req(c) = "none"
BY DEF Req, Wanted

(* A call that has not begun waits for nothing.                            *)
LEMMA IdleReq == Req(Idle) = "none" /\ Idle.op = "none" /\ Idle.at = "done"
BY DEF Req, Wanted, Idle

(* A report, a hold and a release are of the gate's type.                  *)
LEMMA EnginesKept ==
  ASSUME Types
  PROVE  /\ gate' = gate /\ work' = work => Engines
         /\ Hold /\ work' = work => Engines
         /\ gate' = [gate EXCEPT !.holding = FALSE] /\ work' = work => Engines
<1>1. gate \in [holding : BOOLEAN, closing : BOOLEAN]
      /\ work \in [runs : BOOLEAN, attached : BOOLEAN]
  BY DEF Types
<1>2. [gate EXCEPT !.holding = FALSE] \in [holding : BOOLEAN, closing : BOOLEAN]  BY <1>1
<1>3. [holding |-> TRUE, closing |-> TRUE] \in [holding : BOOLEAN, closing : BOOLEAN]  OBVIOUS
<1> QED  BY <1>1, <1>2, <1>3 DEF Hold, Engines

(* The steps of the reports and of the joins keep the types.               *)
LEMMA BaseCallers ==
  ASSUME Base, NEW s \in Calls,
         \/ TakeRow(s) \/ HoldEnds(s) \/ JoinTold(s) \/ JoinRead(s)
         \/ s \in Reports /\ LeaseRead(s)
         \/ s \in Reports /\ \E master \in BOOLEAN : SetLease(s, master)
  PROVE  Base'
<1>1. Types /\ Shape /\ Mail  BY DEF Base
<1>2. row \in SyncStates /\ lease \in {"none", "master", "lost"} /\ lost \in BOOLEAN
      /\ fenced \in BOOLEAN /\ back \in Seq(Answers)
  BY <1>1 DEF Types
<1>3. Placed(s, call[s])  BY <1>1 DEF Shape
<1>4. Idle.op = "none" /\ Idle.at = "done" /\ Req(Idle) = "none"  BY IdleReq
<1>5. CASE TakeRow(s)
  <2>1. /\ \/ Walks(s, call[s].op, "row", "owned", TRUE, TRUE)
           \/ Walks(s, call[s].op, "row2", "owned2", TRUE, TRUE)
        /\ row' = Head(back).row /\ UNCHANGED <<lease, gate, work, lost>>
    BY <1>1, <1>5, TakeRowMoves
  <2>2. Took(s)  BY <2>1 DEF Walks, Moves
  <2>3. row' \in SyncStates
    <3>1. back # <<>>  BY <2>2 DEF Took
    <3>2. Head(back) \in Answers  BY <1>2, <3>1
    <3> QED  BY <2>1, <3>2 DEF Answers
  <2>4. Engines  BY <1>1, <2>1, EnginesKept
  <2>5. CASE Walks(s, call[s].op, "row", "owned", TRUE, TRUE)
    <3>1. Moves(s, call[s].op, "owned", TRUE, FALSE, FALSE, TRUE) /\ call[s].at = "row"
      BY <2>5 DEF Walks, At
    <3>2. call'[s].op = call[s].op /\ call'[s].at = "owned"  BY <3>1 DEF Moves, Steps
    <3>3. Placed(s, call'[s])
      BY <1>3, <1>4, <3>1, <3>2 DEF Placed, MadeBy, Stages
    <3>4. Wanted(call[s].op, "owned") \in Asks  BY DEF Wanted, Asks
    <3> QED  BY <1>2, <2>1, <2>3, <2>4, <3>1, <3>3, <3>4, BaseMoves DEF Engines
  <2>6. CASE Walks(s, call[s].op, "row2", "owned2", TRUE, TRUE)
    <3>1. Moves(s, call[s].op, "owned2", TRUE, FALSE, FALSE, TRUE) /\ call[s].at = "row2"
      BY <2>6 DEF Walks, At
    <3>2. call'[s].op = call[s].op /\ call'[s].at = "owned2"  BY <3>1 DEF Moves, Steps
    <3>3. Placed(s, call'[s])
      BY <1>3, <1>4, <3>1, <3>2 DEF Placed, MadeBy, Stages
    <3>4. Wanted(call[s].op, "owned2") \in Asks  BY DEF Wanted, Asks
    <3> QED  BY <1>2, <2>1, <2>3, <2>4, <3>1, <3>3, <3>4, BaseMoves DEF Engines
  <2> QED  BY <2>1, <2>5, <2>6
<1>6. CASE HoldEnds(s)
  <2>1. /\ call[s].at \in {"hold", "hold2"}
        /\ Leaves(s, FALSE) /\ UNCHANGED <<row, lease, gate, work, lost>>
    BY <1>1, <1>6, HoldEndsMoves DEF At
  <2>2. Req(call[s]) = "none"  BY <2>1, NoReq
  <2>3. Moves(s, "none", "done", FALSE, FALSE, FALSE, FALSE) /\ call'[s] = Idle
    BY <2>1 DEF Leaves, Only
  <2>4. Engines  BY <1>1, <2>1, EnginesKept
  <2> QED  BY <1>2, <2>1, <2>2, <2>3, <2>4, BaseMoves DEF Engines, Placed
<1>7. CASE JoinTold(s)
  <2>1. /\ call[s].op \in {"begin", "leave", "finish"}
        /\ Walks(s, call[s].op, "told", "row", TRUE, TRUE)
        /\ UNCHANGED <<row, lease, gate, work, lost>>
    BY <1>1, <1>7, JoinToldMoves
  <2>2. Moves(s, call[s].op, "row", TRUE, FALSE, FALSE, TRUE) /\ call[s].at = "told"
    BY <2>1 DEF Walks, At
  <2>3. call'[s].op = call[s].op /\ call'[s].at = "row"  BY <2>2 DEF Moves, Steps
  <2>4. Placed(s, call'[s])  BY <1>3, <1>4, <2>1, <2>3 DEF Placed, MadeBy, Stages
  <2>5. Wanted(call[s].op, "row") \in Asks  BY DEF Wanted, Asks
  <2>6. Engines  BY <1>1, <2>1, EnginesKept
  <2> QED  BY <1>2, <2>1, <2>2, <2>4, <2>5, <2>6, BaseMoves DEF Engines
<1>8. CASE JoinRead(s)
  <2>1. /\ call[s].op \in {"begin", "leave", "finish"} /\ call[s].at = "owned"
        /\ \/ Walks(s, "leave", "owned", "paused", TRUE, TRUE)
           \/ Leaves(s, TRUE)
        /\ UNCHANGED <<row, lease, gate, work, lost>>
    BY <1>1, <1>8, JoinReadMoves
  <2>2. Engines  BY <1>1, <2>1, EnginesKept
  <2>3. CASE Walks(s, "leave", "owned", "paused", TRUE, TRUE)
    <3>1. Moves(s, "leave", "paused", TRUE, FALSE, FALSE, TRUE) /\ call[s].op = "leave"
      BY <2>3 DEF Walks, At
    <3>2. call'[s].op = "leave" /\ call'[s].at = "paused"  BY <3>1 DEF Moves, Steps
    <3>3. Placed(s, call'[s])  BY <1>3, <1>4, <3>1, <3>2 DEF Placed, MadeBy, Stages
    <3>4. Wanted("leave", "paused") \in Asks  BY DEF Wanted, Asks
    <3> QED  BY <1>2, <2>1, <2>2, <3>1, <3>3, <3>4, BaseMoves DEF Engines
  <2>4. CASE Leaves(s, TRUE)
    <3>1. Moves(s, "none", "done", TRUE, FALSE, FALSE, FALSE) /\ call'[s] = Idle
      BY <2>4 DEF Leaves, Only
    <3> QED  BY <1>2, <2>1, <2>2, <3>1, BaseMoves DEF Engines, Placed
  <2> QED  BY <2>1, <2>3, <2>4
<1>9. CASE s \in Reports /\ LeaseRead(s)
  <2>1. /\ At(s, "lease", "owned") /\ UNCHANGED <<row, lease, work, lost>>
        /\ \/ Hold /\ Walks(s, "lease", "owned", "hold", TRUE, FALSE)
           \/ Hold /\ Moves(s, "lease", "hold", TRUE, TRUE, TRUE, FALSE)
           \/ gate' = gate /\ Leaves(s, TRUE)
    BY <1>1, <1>9, LeaseReadMoves
  <2>2. Engines  BY <1>1, <2>1, EnginesKept
  <2>3. CASE Leaves(s, TRUE)
    <3>1. Moves(s, "none", "done", TRUE, FALSE, FALSE, FALSE) /\ call'[s] = Idle
      BY <2>3 DEF Leaves, Only
    <3> QED  BY <1>2, <2>1, <2>2, <3>1, BaseMoves DEF Engines, Placed
  <2>4. CASE Moves(s, "lease", "hold", TRUE, FALSE, FALSE, FALSE)
             \/ Moves(s, "lease", "hold", TRUE, TRUE, TRUE, FALSE)
    <3>1. call'[s].op = "lease" /\ call'[s].at = "hold"  BY <2>4 DEF Moves, Steps
    <3>2. Placed(s, call'[s])
      BY <1>3, <1>4, <2>1, <3>1 DEF Placed, MadeBy, Stages, At
    <3> QED  BY <1>2, <2>1, <2>2, <2>4, <3>2, BaseMoves DEF Engines
  <2> QED  BY <2>1, <2>3, <2>4 DEF Walks
<1>10. CASE s \in Reports /\ \E master \in BOOLEAN : SetLease(s, master)
  <2>1. PICK master \in BOOLEAN : SetLease(s, master)  BY <1>10
  <2>2. /\ call[s] = Idle
        /\ \/ Moves(s, "lease", "row", FALSE, TRUE, TRUE, TRUE)
           \/ Moves(s, "lease", "row", FALSE, FALSE, FALSE, TRUE)
        /\ UNCHANGED <<row, gate, work>>
    BY <1>1, <1>10, <2>1, SetLeaseMoves
  <2>3. lease' \in {"master", "lost"} /\ lost' \in BOOLEAN
    BY <2>1 DEF SetLease
  <2>4. call'[s].op = "lease" /\ call'[s].at = "row"  BY <2>2 DEF Moves, Steps
  <2>5. Placed(s, call'[s])
    BY <1>10, <2>4, Names DEF Placed, MadeBy, Stages
  <2>6. Wanted("lease", "row") \in Asks /\ Req(call[s]) = "none"
    BY <1>4, <2>2 DEF Wanted, Asks
  <2>7. Engines  BY <1>1, <2>2, EnginesKept
  <2> QED  BY <1>2, <2>2, <2>3, <2>5, <2>6, <2>7, BaseMoves DEF Engines
<1> QED  BY <1>5, <1>6, <1>7, <1>8, <1>9, <1>10

(* A step that touches neither row, lease nor loss is tidy.                *)
LEMMA TidyKept ==
  ASSUME Types, UNCHANGED <<row, lease, lost>>, Engines
  PROVE  Tidy
BY DEF Types, Tidy

(* A call of control that moves to a place of its own keeps the types.     *)
LEMMA BaseControlMoves ==
  ASSUME Base, NEW op \in MadeBy("control"), NEW at \in Stages[op], NEW took \in BOOLEAN,
         NEW posts \in BOOLEAN, NEW on \in BOOLEAN, NEW asks \in BOOLEAN,
         Moves("control", op, at, took, posts, on, asks),
         Fair("control", op, at, took, asks), Tidy
  PROVE  Base'
<1>1. call'["control"].op = op /\ call'["control"].at = at  BY DEF Moves, Steps
<1>2. Placed("control", call'["control"])  BY <1>1 DEF Placed
<1>3. "control" \in Calls  BY Names
<1> QED  BY <1>2, <1>3, BaseStep

(* A call that ends keeps them too.                                        *)
LEMMA BaseLeaves ==
  ASSUME Base, NEW s \in Calls, NEW took \in BOOLEAN, Leaves(s, took),
         Fair(s, "none", "done", took, FALSE), Tidy
  PROVE  Base'
<1>1. Moves(s, "none", "done", took, FALSE, FALSE, FALSE) /\ call'[s] = Idle
  BY DEF Leaves, Only
<1>2. Placed(s, call'[s])  BY <1>1 DEF Placed
<1> QED  BY <1>1, <1>2, BaseStep

(* The steps of lead and open keep the types.                              *)
LEMMA BaseLeadOpen ==
  ASSUME Base,
         \/ \E newer \in BOOLEAN : Lead(newer)
         \/ LeadPosts \/ Led \/ LeadHeld \/ LeadEnds
         \/ \E acked \in BOOLEAN : Open(acked)
         \/ OpenRead \/ Acked \/ Seeded \/ ReleaseForRuns \/ RunAccounts \/ AttachHeld
  PROVE  Base'
<1> DEFINE s == "control"
<1>1. Types /\ Shape /\ Mail /\ s \in Calls  BY Names DEF Base
<1>2. row \in SyncStates /\ lost \in BOOLEAN /\ BootFenced(db) \in BOOLEAN
      /\ gate \in [holding : BOOLEAN, closing : BOOLEAN]
      /\ work \in [runs : BOOLEAN, attached : BOOLEAN] /\ Closed \in BOOLEAN
      /\ lease \in {"none", "master", "lost"}
  BY <1>1 DEF Types, SyncStates, BootFenced, Closed, ReadOnly
<1>3. /\ {"lead", "open", "demote", "leave", "finish"} \subseteq MadeBy(s)
      /\ Stages["lead"] = {"row", "owned", "led", "hold", "row2", "owned2", "hold2"}
      /\ Stages["open"] = {"row", "owned", "ack", "seed", "release", "accounts", "attach"}
      /\ Stages["leave"] = {"told", "row", "owned", "paused", "release", "accounts", "attach"}
  BY DEF MadeBy, Stages
<1>4. Placed(s, call[s])  BY <1>1 DEF Shape
<1>5. CASE \E newer \in BOOLEAN : Lead(newer)
  <2>1. PICK newer \in BOOLEAN : Lead(newer)  BY <1>5
  <2>2. /\ call[s] = Idle /\ Moves(s, "lead", "row", FALSE, FALSE, FALSE, TRUE)
        /\ lost' \in BOOLEAN /\ UNCHANGED <<row, lease, gate, work>>
    BY <1>1, <1>2, <2>1, LeadMoves DEF Begins
  <2>3. Tidy  BY <1>1, <1>2, <2>2, EnginesKept DEF Tidy
  <2>4. Fair(s, "lead", "row", FALSE, TRUE)  BY <2>2, IdleReq DEF Fair, Wanted, Asks
  <2> QED  BY <1>3, <2>2, <2>3, <2>4, BaseControlMoves
<1>6. CASE LeadPosts
  <2>1. /\ UNCHANGED <<row, lease, gate, work, lost>>
        /\ \/ Moves(s, "lead", "led", TRUE, FALSE, FALSE, TRUE)
           \/ Moves(s, "lead", "led", TRUE, TRUE, TRUE, TRUE)
           \/ Leaves(s, TRUE)
    BY <1>1, <1>6, LeadPostsMoves
  <2>2. Tidy  BY <1>1, <2>1, EnginesKept, TidyKept
  <2>3. Fair(s, "lead", "led", TRUE, TRUE) /\ Fair(s, "none", "done", TRUE, FALSE)
    BY DEF Fair, Wanted, Asks
  <2> QED  BY <1>1, <1>3, <2>1, <2>2, <2>3, BaseControlMoves, BaseLeaves
<1>7. CASE Led
  <2>1. /\ UNCHANGED <<row, lease, work, lost>>
        /\ (gate' = gate \/ Hold)
        /\ \/ (Moves(s, "none", "done", TRUE, TRUE, FALSE, FALSE) /\ call'[s] = Idle)
           \/ Leaves(s, TRUE)
           \/ Moves(s, "lead", "row2", TRUE, TRUE, TRUE, TRUE)
           \/ Moves(s, "lead", "hold", TRUE, TRUE, TRUE, FALSE)
           \/ Moves(s, "lead", "row2", TRUE, FALSE, FALSE, TRUE)
    BY <1>1, <1>7, LedMoves DEF Shuts, Walks
  <2>2. Engines  BY <1>1, <2>1, EnginesKept
  <2>3. Tidy  BY <1>1, <2>1, <2>2, TidyKept
  <2>4. Fair(s, "lead", "row2", TRUE, TRUE) /\ Fair(s, "none", "done", TRUE, FALSE)
        /\ Fair(s, "lead", "hold", TRUE, FALSE)
    BY DEF Fair, Wanted, Asks
  <2>5. CASE Moves(s, "none", "done", TRUE, TRUE, FALSE, FALSE) /\ call'[s] = Idle
    <3>1. Placed(s, call'[s])  BY <2>5 DEF Placed
    <3> QED  BY <1>1, <2>3, <2>5, <3>1, BaseMoves DEF Tidy, Engines
  <2> QED  BY <1>1, <1>3, <2>1, <2>3, <2>4, <2>5, BaseControlMoves, BaseLeaves
<1>8. CASE LeadHeld
  <2>1. /\ UNCHANGED <<row, lease, gate, work, lost>> /\ call[s].at = "hold"
        /\ Moves(s, "lead", "row2", FALSE, FALSE, FALSE, TRUE)
    BY <1>1, <1>8, LeadHeldMoves DEF Walks, At
  <2>2. Tidy  BY <1>1, <2>1, EnginesKept, TidyKept
  <2>3. Fair(s, "lead", "row2", FALSE, TRUE)  BY <2>1, NoReq DEF Fair, Wanted, Asks
  <2> QED  BY <1>3, <2>1, <2>2, <2>3, BaseControlMoves
<1>9. CASE LeadEnds
  <2>1. /\ UNCHANGED <<row, lease, work, lost>> /\ (gate' = gate \/ Hold)
        /\ \/ Moves(s, "lead", "hold2", TRUE, TRUE, TRUE, FALSE)
           \/ Leaves(s, TRUE)
    BY <1>1, <1>9, LeadEndsMoves DEF Shuts
  <2>2. Engines  BY <1>1, <2>1, EnginesKept
  <2>3. Tidy  BY <1>1, <2>1, <2>2, TidyKept
  <2>4. Fair(s, "lead", "hold2", TRUE, FALSE) /\ Fair(s, "none", "done", TRUE, FALSE)
    BY DEF Fair
  <2> QED  BY <1>1, <1>3, <2>1, <2>3, <2>4, BaseControlMoves, BaseLeaves
<1>10. CASE \E acked \in BOOLEAN : Open(acked)
  <2>1. PICK acked \in BOOLEAN : Open(acked)  BY <1>10
  <2>2. /\ call[s] = Idle /\ Moves(s, "open", "row", FALSE, FALSE, FALSE, TRUE)
        /\ UNCHANGED <<row, lease, gate, work, lost>>
    BY <1>1, <2>1, OpenMoves DEF Begins
  <2>3. Tidy  BY <1>1, <2>2, EnginesKept, TidyKept
  <2>4. Fair(s, "open", "row", FALSE, TRUE)  BY <2>2, IdleReq DEF Fair, Wanted, Asks
  <2> QED  BY <1>3, <2>2, <2>3, <2>4, BaseControlMoves
<1>11. CASE OpenRead
  <2>1. /\ UNCHANGED <<row, lease, gate, work, lost>>
        /\ \/ Leaves(s, TRUE)
           \/ Moves(s, "open", "ack", TRUE, FALSE, FALSE, TRUE)
           \/ Moves(s, "open", "seed", TRUE, TRUE, FALSE, TRUE)
    BY <1>1, <1>11, OpenReadMoves DEF Walks, Lifts
  <2>2. Tidy  BY <1>1, <2>1, EnginesKept, TidyKept
  <2>3. Fair(s, "open", "ack", TRUE, TRUE) /\ Fair(s, "none", "done", TRUE, FALSE)
        /\ Fair(s, "open", "seed", TRUE, TRUE)
    BY DEF Fair, Wanted, Asks
  <2> QED  BY <1>1, <1>3, <2>1, <2>2, <2>3, BaseControlMoves, BaseLeaves
<1>12. CASE Acked
  <2>1. /\ UNCHANGED <<lease, gate, work, lost>>
        /\ (row' = row \/ row' = [row EXCEPT !.headPending = FALSE])
        /\ \/ Leaves(s, TRUE)
           \/ Moves(s, "open", "seed", TRUE, TRUE, FALSE, TRUE)
    BY <1>1, <1>12, AckedMoves DEF Lifts
  <2>2. row' \in SyncStates  BY <1>2, <2>1 DEF SyncStates
  <2>3. Engines  BY <1>1, <2>1, EnginesKept
  <2>4. Tidy  BY <1>2, <2>1, <2>2, <2>3 DEF Tidy
  <2>5. Fair(s, "none", "done", TRUE, FALSE) /\ Fair(s, "open", "seed", TRUE, TRUE)
    BY DEF Fair, Wanted, Asks
  <2> QED  BY <1>1, <1>3, <2>1, <2>4, <2>5, BaseControlMoves, BaseLeaves
<1>13. CASE Seeded
  <2>1. /\ UNCHANGED <<row, lease, gate, work, lost>>
        /\ Moves(s, "open", "release", TRUE, FALSE, FALSE, FALSE)
    BY <1>1, <1>13, SeededMoves DEF Walks
  <2>2. Tidy  BY <1>1, <2>1, EnginesKept, TidyKept
  <2>3. Fair(s, "open", "release", TRUE, FALSE)  BY DEF Fair
  <2> QED  BY <1>3, <2>1, <2>2, <2>3, BaseControlMoves
<1>14. CASE ReleaseForRuns
  <2> DEFINE op == call[s].op
  <2>1. /\ UNCHANGED <<row, lease, work, lost>> /\ gate' = [gate EXCEPT !.holding = FALSE]
        /\ Moves(s, op, "accounts", FALSE, FALSE, FALSE, TRUE) /\ call[s].at = "release"
    BY <1>1, <1>14, ReleaseForRunsMoves DEF Walks, At
  <2>2. op \in {"open", "leave"}
    BY <1>4, <2>1, IdleReq DEF Placed, MadeBy, Stages
  <2>3. Engines  BY <1>1, <2>1, EnginesKept
  <2>4. Tidy  BY <1>1, <2>1, <2>3, TidyKept
  <2>5. Fair(s, op, "accounts", FALSE, TRUE)  BY <2>1, NoReq DEF Fair, Wanted, Asks
  <2> HIDE DEF op
  <2>6. op \in MadeBy(s) /\ "accounts" \in Stages[op]  BY <1>3, <2>2
  <2> QED  BY <2>1, <2>4, <2>5, <2>6, BaseControlMoves
<1>15. CASE RunAccounts
  <2> DEFINE op == call[s].op
  <2>1. /\ UNCHANGED <<row, lease, gate, lost>>
        /\ work' = [work EXCEPT !.runs = @ \/ (~gate.holding /\ ~Closed)]
        /\ Moves(s, op, "attach", TRUE, FALSE, FALSE, FALSE) /\ call[s].at = "accounts"
    BY <1>1, <1>15, RunAccountsMoves DEF Walks, At
  <2>2. op \in {"open", "leave"}
    BY <1>4, <2>1, IdleReq DEF Placed, MadeBy, Stages
  <2>3. Engines  BY <1>2, <2>1 DEF Engines
  <2>4. Tidy  BY <1>1, <2>1, <2>3, TidyKept
  <2>5. Fair(s, op, "attach", TRUE, FALSE)  BY DEF Fair
  <2> HIDE DEF op
  <2>6. op \in MadeBy(s) /\ "attach" \in Stages[op]  BY <1>3, <2>2
  <2> QED  BY <2>1, <2>4, <2>5, <2>6, BaseControlMoves
<1>16. CASE AttachHeld
  <2>1. /\ UNCHANGED <<row, lease, lost>> /\ gate' = [gate EXCEPT !.holding = FALSE]
        /\ work' = [work EXCEPT !.attached = @ \/ ~Closed]
        /\ Leaves(s, FALSE) /\ call[s].at = "attach"
    BY <1>1, <1>16, AttachHeldMoves
  <2>2. Engines  BY <1>2, <2>1 DEF Engines
  <2>3. Tidy  BY <1>1, <2>1, <2>2, TidyKept
  <2>4. Fair(s, "none", "done", FALSE, FALSE)  BY <2>1, NoReq DEF Fair
  <2> QED  BY <1>1, <2>1, <2>3, <2>4, BaseLeaves
<1> QED
  BY <1>5, <1>6, <1>7, <1>8, <1>9, <1>10, <1>11, <1>12, <1>13, <1>14, <1>15, <1>16

(* The steps of demote and of the joins keep the types.                    *)
LEMMA BaseDemoteJoin ==
  ASSUME Base,
         \/ Demote \/ Demoted \/ DemoteHolds \/ BeginJoin \/ JoinHeld \/ LeaveJoin \/ FinishJoin
         \/ LeavePaused
  PROVE  Base'
<1> DEFINE s == "control"
           j == "join"
<1>1. Types /\ Shape /\ Mail /\ s \in Calls /\ j \in Calls  BY Names DEF Base
<1>2. /\ {"lead", "open", "demote", "leave", "finish"} \subseteq MadeBy(s)
      /\ Stages["demote"] = {"told", "row", "owned", "hold"}
      /\ Stages["leave"] = {"told", "row", "owned", "paused", "release", "accounts", "attach"}
      /\ Stages["finish"] = {"told", "row", "owned"}
      /\ MadeBy(j) = {"begin"} /\ Stages["begin"] = {"hold", "told", "row", "owned"}
  BY DEF MadeBy, Stages
<1>3. CASE Demote
  <2>1. /\ UNCHANGED <<row, lease, gate, work, lost>> /\ call[s] = Idle
        /\ Moves(s, "demote", "told", FALSE, TRUE, TRUE, TRUE)
    BY <1>1, <1>3, DemoteMoves
  <2>2. Tidy  BY <1>1, <2>1, EnginesKept, TidyKept
  <2>3. Fair(s, "demote", "told", FALSE, TRUE)  BY <2>1, IdleReq DEF Fair, Wanted, Asks
  <2> QED  BY <1>2, <2>1, <2>2, <2>3, BaseControlMoves
<1>4. CASE Demoted
  <2>1. /\ UNCHANGED <<row, lease, gate, work, lost>>
        /\ Moves(s, "demote", "row", TRUE, FALSE, FALSE, TRUE)
    BY <1>1, <1>4, DemotedMoves DEF Walks
  <2>2. Tidy  BY <1>1, <2>1, EnginesKept, TidyKept
  <2>3. Fair(s, "demote", "row", TRUE, TRUE)  BY DEF Fair, Wanted, Asks
  <2> QED  BY <1>2, <2>1, <2>2, <2>3, BaseControlMoves
<1>5. CASE DemoteHolds
  <2>1. /\ UNCHANGED <<row, lease, work, lost>> /\ Hold
        /\ Moves(s, "demote", "hold", TRUE, FALSE, FALSE, FALSE)
    BY <1>1, <1>5, DemoteHoldsMoves DEF Walks
  <2>2. Engines  BY <1>1, <2>1, EnginesKept
  <2>3. Tidy  BY <1>1, <2>1, <2>2, TidyKept
  <2>4. Fair(s, "demote", "hold", TRUE, FALSE)  BY DEF Fair
  <2> QED  BY <1>2, <2>1, <2>3, <2>4, BaseControlMoves
<1>6. CASE LeaveJoin
  <2>1. /\ UNCHANGED <<row, lease, gate, work, lost>> /\ call[s] = Idle
        /\ Moves(s, "leave", "told", FALSE, FALSE, FALSE, TRUE)
    BY <1>1, <1>6, LeaveJoinMoves
  <2>2. Tidy  BY <1>1, <2>1, EnginesKept, TidyKept
  <2>3. Fair(s, "leave", "told", FALSE, TRUE)  BY <2>1, IdleReq DEF Fair, Wanted, Asks
  <2> QED  BY <1>2, <2>1, <2>2, <2>3, BaseControlMoves
<1>7. CASE FinishJoin
  <2>1. /\ UNCHANGED <<row, lease, gate, work, lost>> /\ call[s] = Idle
        /\ Moves(s, "finish", "told", FALSE, FALSE, FALSE, TRUE)
    BY <1>1, <1>7, FinishJoinMoves DEF Begins
  <2>2. Tidy  BY <1>1, <2>1, EnginesKept, TidyKept
  <2>3. Fair(s, "finish", "told", FALSE, TRUE)  BY <2>1, IdleReq DEF Fair, Wanted, Asks
  <2> QED  BY <1>2, <2>1, <2>2, <2>3, BaseControlMoves
<1>8. CASE LeavePaused
  <2>1. /\ UNCHANGED <<row, lease, gate, work, lost>>
        /\ Moves(s, "leave", "release", TRUE, FALSE, FALSE, FALSE)
    BY <1>1, <1>8, LeavePausedMoves DEF Walks
  <2>2. Tidy  BY <1>1, <2>1, EnginesKept, TidyKept
  <2>3. Fair(s, "leave", "release", TRUE, FALSE)  BY DEF Fair
  <2> QED  BY <1>2, <2>1, <2>2, <2>3, BaseControlMoves
<1>9. CASE BeginJoin
  <2>1. /\ UNCHANGED <<row, lease, work, lost>> /\ Hold /\ call[j] = Idle
        /\ Moves(j, "begin", "hold", FALSE, FALSE, FALSE, FALSE)
    BY <1>1, <1>9, BeginJoinMoves DEF Begins
  <2>2. Engines  BY <1>1, <2>1, EnginesKept
  <2>3. Tidy  BY <1>1, <2>1, <2>2, TidyKept
  <2>4. Fair(j, "begin", "hold", FALSE, FALSE)  BY <2>1, IdleReq DEF Fair
  <2>5. call'[j].op = "begin" /\ call'[j].at = "hold"  BY <2>1 DEF Moves, Steps
  <2>6. Placed(j, call'[j])  BY <1>2, <2>5 DEF Placed
  <2> QED  BY <1>1, <2>1, <2>3, <2>4, <2>6, BaseStep
<1>10. CASE JoinHeld
  <2>1. /\ UNCHANGED <<row, lease, gate, work, lost>> /\ call[j].at = "hold"
        /\ \/ Leaves(j, FALSE)
           \/ Moves(j, "begin", "told", FALSE, FALSE, FALSE, TRUE)
    BY <1>1, <1>10, JoinHeldMoves DEF Walks, At
  <2>2. Tidy  BY <1>1, <2>1, EnginesKept, TidyKept
  <2>3. Req(call[j]) = "none"  BY <2>1, NoReq
  <2>4. Fair(j, "begin", "told", FALSE, TRUE) /\ Fair(j, "none", "done", FALSE, FALSE)
    BY <2>3 DEF Fair, Wanted, Asks
  <2>5. CASE Leaves(j, FALSE)  BY <1>1, <2>2, <2>4, <2>5, BaseLeaves
  <2>6. CASE Moves(j, "begin", "told", FALSE, FALSE, FALSE, TRUE)
    <3>1. call'[j].op = "begin" /\ call'[j].at = "told"  BY <2>6 DEF Moves, Steps
    <3>2. Placed(j, call'[j])  BY <1>2, <3>1 DEF Placed
    <3> QED  BY <1>1, <2>2, <2>4, <2>6, <3>2, BaseStep
  <2> QED  BY <2>1, <2>5, <2>6
<1> QED  BY <1>3, <1>4, <1>5, <1>6, <1>7, <1>8, <1>9, <1>10

-----------------------------------------------------------------------------
(* The worker.                                                             *)

\* The worker takes the first message, m.
Drained(m) ==
  /\ wire # <<>> /\ m = Head(wire) /\ m \in Messages
  /\ wire' \in Seq(Messages) /\ Len(wire) \in Nat /\ Len(wire') = Len(wire) - 1
  /\ 1 \in 1..Len(wire) /\ wire[1] = m
  /\ \A i \in 1..Len(wire') : i + 1 \in 2..Len(wire) /\ i + 1 \in 1..Len(wire) /\ wire'[i] = wire[i + 1]

\* It sends answer a after the others.
Replied(a) ==
  /\ a \in Answers /\ back' \in Seq(Answers) /\ Len(back) \in Nat /\ Len(back') = Len(back) + 1
  /\ \A k \in 1..Len(back) : k \in 1..Len(back') /\ back'[k] = back[k]
  /\ Len(back') \in 1..Len(back') /\ back'[Len(back')] = a
  /\ \A k \in 1..Len(back') : k \in 1..Len(back) \/ k = Len(back')

\* What a step of the worker leaves to main.
Mains == UNCHANGED <<row, fenced, lease, call, gate, work, lost>>

\* The worker's step: a fence post is applied, a request is answered, or a
\* promotion or an acknowledgement fails.
Fences(m) == m.op \in {"fence", "unfence"} /\ wfenced' = (m.op = "fence") /\ db' = db /\ back' = back
Answering(m) ==
  /\ m.op \in Asks /\ m.from \in Calls /\ db' = RowAfter(m.op, db) /\ wfenced' = wfenced
  /\ Replied([from |-> m.from, row |-> db',
              said |-> IF m.op = "lead" THEN LeadSaid(db) ELSE "ok"])
Failing(m) ==
  /\ m.op \in {"lead", "ack"} /\ m.from \in Calls /\ db' = db /\ wfenced' = wfenced
  /\ Replied([from |-> m.from, row |-> db, said |-> "failed"])

(* What a request leaves in sync_state is a sync_state.                    *)
LEMMA RowAfterType ==
  ASSUME NEW op \in Asks, NEW r \in SyncStates
  PROVE  RowAfter(op, r) \in SyncStates /\ LeadSaid(r) \in {"promoted", "seeded", "noop"}
<1>1. LeadRow(r) \in SyncStates /\ Demotion(r) \in SyncStates
      /\ [r EXCEPT !.headPending = FALSE] \in SyncStates
      /\ [r EXCEPT !.joining = TRUE] \in SyncStates /\ [r EXCEPT !.joining = FALSE] \in SyncStates
  BY DEF LeadRow, Demotion, SyncStates
<1>2. RowAfter(op, r) \in SyncStates  BY <1>1 DEF RowAfter, Asks
<1>3. LeadSaid(r) \in {"promoted", "seeded", "noop"}  BY DEF LeadSaid
<1> QED  BY <1>2, <1>3

(* The worker's answer is the last.                                        *)
LEMMA Appended ==
  ASSUME back \in Seq(Answers), NEW a \in Answers, back' = Append(back, a)
  PROVE  Replied(a)
<1>1. Len(back) \in Nat /\ Len(Append(back, a)) = Len(back) + 1
      /\ Append(back, a) \in Seq(Answers) /\ Append(back, a)[Len(back) + 1] = a
      /\ \A k \in 1..Len(back) : Append(back, a)[k] = back[k]
  OBVIOUS
<1> QED  BY <1>1 DEF Replied

(* The worker takes main's messages in the order they were sent.           *)
LEMMA WorkerSteps ==
  ASSUME Base, Worker
  PROVE  Mains /\ \E m \in Messages : Drained(m) /\ (Fences(m) \/ Answering(m) \/ Failing(m))
<1> DEFINE m == Head(wire)
<1>1. Types /\ Shape /\ Mail  BY DEF Base
<1>2. wire \in Seq(Messages) /\ back \in Seq(Answers) /\ db \in SyncStates  BY <1>1 DEF Types
<1>3. wire # <<>> /\ wire' = Tail(wire)  BY DEF Worker
<1>4. m \in Messages /\ Drained(m)
  <2>1. Len(wire) \in Nat /\ 1 \in 1..Len(wire) /\ m = wire[1] /\ m \in Messages  BY <1>2, <1>3
  <2>2. wire' \in Seq(Messages) /\ Len(wire') = Len(wire) - 1  BY <1>2, <1>3
  <2>3. \A i \in 1..Len(wire') : wire'[i] = wire[i + 1]  BY <1>2, <1>3
  <2>4. \A i \in 1..Len(wire') : i + 1 \in 2..Len(wire) /\ i + 1 \in 1..Len(wire)
    BY <2>1, <2>2
  <2> QED  BY <1>3, <2>1, <2>2, <2>3, <2>4 DEF Drained
<1>5. m.op \notin {"fence", "unfence"} => m.op \in Asks /\ m.from \in Calls
  BY <1>1, <1>4 DEF Mail, Drained
<1>6. CASE m.op \in {"fence", "unfence"} /\ wfenced' = (m.op = "fence")
           /\ UNCHANGED <<db, back, spent>>
  <2>1. Fences(m)  BY <1>6 DEF Fences
  <2> QED  BY <1>4, <2>1 DEF Worker, Mains
<1>7. CASE /\ m.op \notin {"fence", "unfence"}
           /\ db' = RowAfter(m.op, db)
           /\ back' = Append(back, [from |-> m.from, row |-> db',
                                    said |-> IF m.op = "lead" THEN LeadSaid(db) ELSE "ok"])
           /\ UNCHANGED <<wfenced, spent>>
  <2> DEFINE a == [from |-> m.from, row |-> db',
                   said |-> IF m.op = "lead" THEN LeadSaid(db) ELSE "ok"]
  <2>1. m.op \in Asks /\ m.from \in Calls  BY <1>5, <1>7
  <2>2. db' \in SyncStates /\ LeadSaid(db) \in {"promoted", "seeded", "noop"}
    BY <1>2, <1>7, <2>1, RowAfterType
  <2>3. a \in Answers  BY <2>1, <2>2 DEF Answers
  <2>4. back' = Append(back, a)  BY <1>7
  <2> HIDE DEF a
  <2>5. Replied(a)  BY <1>2, <2>3, <2>4, Appended
  <2>6. Answering(m)  BY <1>7, <2>1, <2>5 DEF Answering, a
  <2> QED  BY <1>4, <2>6 DEF Worker, Mains
<1>8. CASE /\ m.op \in {"lead", "ack"}
           /\ back' = Append(back, [from |-> m.from, row |-> db, said |-> "failed"])
           /\ UNCHANGED <<db, wfenced>>
  <2> DEFINE a == [from |-> m.from, row |-> db, said |-> "failed"]
  <2>1. m.op \in Asks /\ m.from \in Calls  BY <1>5, <1>8
  <2>2. a \in Answers  BY <1>2, <2>1 DEF Answers
  <2>3. back' = Append(back, a)  BY <1>8
  <2> HIDE DEF a
  <2>4. Replied(a)  BY <1>2, <2>2, <2>3, Appended
  <2>5. Failing(m)  BY <1>8, <2>1, <2>4 DEF Failing, a
  <2> QED  BY <1>4, <2>5 DEF Worker, Mains
<1> QED  BY <1>6, <1>7, <1>8 DEF Worker

(* What the worker answers is what its asker waits for.                    *)
LEMMA AnswerFits ==
  ASSUME Base, NEW m \in Messages, Drained(m), m.op \in Asks, NEW a,
         a.from = m.from, m.from \in Calls,
         \/ a.said = IF m.op = "lead" THEN LeadSaid(db) ELSE "ok"
         \/ m.op \in {"lead", "ack"} /\ a.said = "failed"
  PROVE  LET want == Req(call[a.from]) IN
         /\ want = m.op /\ want # "none"
         /\ want \notin {"lead", "ack"} => a.said = "ok"
         /\ want = "ack" => a.said \in {"ok", "failed"}
         /\ want = "lead" => a.said \in {"promoted", "seeded", "noop", "failed"}
<1>1. Types /\ Mail  BY DEF Base
<1>2. 1 \in 1..Len(wire) /\ wire[1] = m  BY DEF Drained
<1>3. m.op = Req(call[m.from])  BY <1>1, <1>2 DEF Mail, Asks
<1>4. "none" \notin Asks  BY DEF Asks
<1>5. LeadSaid(db) \in {"promoted", "seeded", "noop"}  BY DEF LeadSaid
<1> QED  BY <1>3, <1>4, <1>5

(* The worker's step keeps the types, the places and the mail.             *)
LEMMA BaseWorker ==
  ASSUME Base, Worker
  PROVE  Base'
<1>1. Types /\ Shape /\ Mail  BY DEF Base
<1>2. Mains  BY WorkerSteps
<1>3. PICK m \in Messages : Drained(m) /\ (Fences(m) \/ Answering(m) \/ Failing(m))  BY WorkerSteps
<1>4. Shape'  BY <1>1, <1>2 DEF Shape, Placed, Mains
<1>5. wire' \in Seq(Messages)  BY <1>3 DEF Drained
<1>6. \A i \in 1..Len(wire') :
        \/ wire'[i].op \in {"fence", "unfence"} /\ wire'[i].from = "nobody"
        \/ wire'[i].op \in Asks /\ wire'[i].from \in Calls /\ wire'[i].op = Req(call'[wire'[i].from])
  BY <1>1, <1>2, <1>3 DEF Mail, Drained, Mains
<1>7. \A i, j \in 1..Len(wire') : wire'[i].from = wire'[j].from => i = j \/ wire'[i].from = "nobody"
  <2> TAKE i, j \in 1..Len(wire')
  <2>1. i + 1 \in 1..Len(wire) /\ j + 1 \in 1..Len(wire) /\ wire'[i] = wire[i + 1]
        /\ wire'[j] = wire[j + 1]
    BY <1>3 DEF Drained
  <2>2. wire[i + 1].from = wire[j + 1].from => i + 1 = j + 1 \/ wire[i + 1].from = "nobody"
    BY <1>1, <2>1 DEF Mail
  <2> QED  BY <2>1, <2>2
<1>8. CASE Fences(m)
  <2>1. db' = db /\ back' = back /\ wfenced' \in BOOLEAN  BY <1>8 DEF Fences
  <2>2. Types'  BY <1>1, <1>2, <1>5, <2>1 DEF Types, Mains
  <2>3. Mail'
    <3>1. \A i \in 1..Len(wire'), j \in 1..Len(back') : wire'[i].from # back'[j].from
      BY <1>1, <1>3, <2>1 DEF Mail, Drained
    <3>2. \A k \in 1..Len(back') : LET want == Req(call'[back'[k].from]) IN
            /\ want # "none"
            /\ want \notin {"lead", "ack"} => back'[k].said = "ok"
            /\ want = "ack" => back'[k].said \in {"ok", "failed"}
            /\ want = "lead" => back'[k].said \in {"promoted", "seeded", "noop", "failed"}
      BY <1>1, <1>2, <2>1 DEF Mail, Mains
    <3>3. \A i, j \in 1..Len(back') : back'[i].from = back'[j].from => i = j
      BY <1>1, <2>1 DEF Mail
    <3> QED  BY <1>6, <1>7, <3>1, <3>2, <3>3 DEF Mail
  <2> QED  BY <1>4, <2>2, <2>3 DEF Base
<1>9. ASSUME NEW a, Replied(a), a.from = m.from, m.from \in Calls, m.op \in Asks,
             db' \in SyncStates, wfenced' = wfenced,
             \/ a.said = IF m.op = "lead" THEN LeadSaid(db) ELSE "ok"
             \/ m.op \in {"lead", "ack"} /\ a.said = "failed"
      PROVE  Base'
  <2>1. back' \in Seq(Answers)  BY <1>9 DEF Replied
  <2>2. Types'  BY <1>1, <1>2, <1>5, <1>9, <2>1 DEF Types, Mains
  <2>3. LET want == Req(call[a.from]) IN
         /\ want # "none"
         /\ want \notin {"lead", "ack"} => a.said = "ok"
         /\ want = "ack" => a.said \in {"ok", "failed"}
         /\ want = "lead" => a.said \in {"promoted", "seeded", "noop", "failed"}
    BY <1>3, <1>9, AnswerFits
  <2>4. \A k \in 1..Len(back') : (k \in 1..Len(back) /\ back'[k] = back[k]) \/ (k = Len(back') /\ back'[k] = a)
    BY <1>9 DEF Replied
  <2>5. 1 \in 1..Len(wire) /\ wire[1] = m /\ m.from # "nobody"
    BY <1>3, <1>9, Names DEF Drained
  <2>6. \A k \in 1..Len(back') : LET want == Req(call'[back'[k].from]) IN
            /\ want # "none"
            /\ want \notin {"lead", "ack"} => back'[k].said = "ok"
            /\ want = "ack" => back'[k].said \in {"ok", "failed"}
            /\ want = "lead" => back'[k].said \in {"promoted", "seeded", "noop", "failed"}
    BY <1>1, <1>2, <2>3, <2>4 DEF Mail, Mains
  <2>7. \A k \in 1..Len(back) : back[k].from # m.from  BY <1>1, <2>5 DEF Mail
  <2>8. \A i, j \in 1..Len(back') : back'[i].from = back'[j].from => i = j
    BY <1>1, <1>9, <2>4, <2>7 DEF Mail
  <2>9. \A i \in 1..Len(wire') : wire'[i].from # m.from
    <3> TAKE i \in 1..Len(wire')
    <3>1. i + 1 \in 2..Len(wire) /\ i + 1 \in 1..Len(wire) /\ wire'[i] = wire[i + 1]
      BY <1>3 DEF Drained
    <3>2. i + 1 # 1  BY <3>1
    <3> QED  BY <1>1, <2>5, <3>1, <3>2 DEF Mail
  <2>10. \A i \in 1..Len(wire'), j \in 1..Len(back) : wire'[i].from # back[j].from
    BY SMTT(30), <1>1, <1>3 DEF Mail, Drained
  <2>11. \A i \in 1..Len(wire'), j \in 1..Len(back') : wire'[i].from # back'[j].from
    BY <1>9, <2>4, <2>9, <2>10
  <2>12. Mail'  BY <1>6, <1>7, <2>6, <2>8, <2>11 DEF Mail
  <2> QED  BY <1>4, <2>2, <2>12 DEF Base
<1>10. CASE Answering(m)
  <2> DEFINE a == [from |-> m.from, row |-> db',
                   said |-> IF m.op = "lead" THEN LeadSaid(db) ELSE "ok"]
  <2>1. a.from = m.from /\ a.said = IF m.op = "lead" THEN LeadSaid(db) ELSE "ok"  OBVIOUS
  <2>2. Replied(a) /\ m.op \in Asks /\ m.from \in Calls /\ wfenced' = wfenced
    BY <1>10 DEF Answering
  <2>3. db' \in SyncStates  BY <1>1, <1>10, RowAfterType DEF Answering, Types
  <2> HIDE DEF a
  <2> QED  BY <1>9, <2>1, <2>2, <2>3
<1>11. CASE Failing(m)
  <2> DEFINE a == [from |-> m.from, row |-> db, said |-> "failed"]
  <2>1. a.from = m.from /\ a.said = "failed"  OBVIOUS
  <2>2. Replied(a) /\ m.op \in Asks /\ m.op \in {"lead", "ack"} /\ m.from \in Calls
        /\ wfenced' = wfenced /\ db' = db
    BY <1>11 DEF Failing, Asks
  <2>3. db' \in SyncStates  BY <1>1, <2>2 DEF Types
  <2> HIDE DEF a
  <2> QED  BY <1>9, <2>1, <2>2, <2>3
<1> QED  BY <1>3, <1>8, <1>10, <1>11

-----------------------------------------------------------------------------
(* The other steps, and the type invariant.                                *)

(* The work stops; nothing else changes.                                   *)
LEMMA BaseStopped ==
  ASSUME Base, Stopped
  PROVE  Base'
<1>1. Types /\ Shape /\ Mail  BY DEF Base
<1>2. UNCHANGED <<db, wfenced, wire, back, row, fenced, lease, call, lost>>  BY DEF Stopped
<1>3. gate' \in [holding : BOOLEAN, closing : BOOLEAN]
      /\ work' \in [runs : BOOLEAN, attached : BOOLEAN]
  BY <1>1 DEF Stopped, Types
<1>4. Types'  BY <1>1, <1>2, <1>3 DEF Types
<1>5. Shape'  BY <1>1, <1>2 DEF Shape, Placed
<1>6. Mail'  BY <1>1, <1>2 DEF Mail
<1> QED  BY <1>4, <1>5, <1>6 DEF Base

\* A follower never tracks.
Follows == db.role = "follower" => ~db.tracking

\* The device has started: nothing is under way.
Woken ==
  /\ db \in SyncStates /\ Follows
  /\ row \in SyncStates /\ row.role = db.role /\ row.tracking = db.tracking
  /\ row.joining = db.joining
  /\ fenced = BootFenced(db) /\ wfenced = BootFenced(db)
  /\ work = [runs |-> ~Closed, attached |-> ~Closed]
  /\ wire = <<>> /\ back = <<>> /\ lease = "none" /\ lost = FALSE
  /\ call = [s \in Calls |-> Idle]
  /\ gate = [holding |-> FALSE, closing |-> FALSE]

(* A device starts with nothing under way.                                 *)
LEMMA InitWoken == ASSUME Init PROVE Woken
<1>1. db \in {Fresh("normal", FALSE), Fresh("normal", TRUE), Fresh("follower", FALSE)} /\ row = db
  BY DEF Init
<1>2. db \in SyncStates /\ Follows /\ row.role = db.role /\ row.tracking = db.tracking
      /\ row.joining = db.joining
  <2>1. CASE db = Fresh("normal", FALSE)  BY <1>1, <2>1 DEF Fresh, SyncStates, Follows
  <2>2. CASE db = Fresh("normal", TRUE)  BY <1>1, <2>2 DEF Fresh, SyncStates, Follows
  <2>3. CASE db = Fresh("follower", FALSE)  BY <1>1, <2>3 DEF Fresh, SyncStates, Follows
  <2> QED  BY <1>1, <2>1, <2>2, <2>3
<1>3. work = [runs |-> ~Closed, attached |-> ~Closed]
  <2>1. Closed = ReadOnly(db, BootFenced(db))  BY <1>1 DEF Init, Closed, ReadOnly
  <2> QED  BY <2>1 DEF Init
<1> QED  BY <1>1, <1>2, <1>3 DEF Init, Woken

(* A restarted device has nothing under way either.                        *)
LEMMA RestartWoken == ASSUME Base, Follows, Restart PROVE Woken'
<1>1. db \in SyncStates  BY DEF Base, Types
<1>2. wire' = <<>> /\ back' = <<>> /\ lease' = "none" /\ lost' = FALSE
      /\ call' = [s \in Calls |-> Idle] /\ gate' = [holding |-> FALSE, closing |-> FALSE]
  BY DEF Restart
<1>3. PICK r \in SyncStates : Boots(r) /\ (r.role = "follower" => ~r.tracking)
  <2>1. CASE Boots(db)  BY <1>1, <2>1 DEF Follows
  <2>2. CASE Boots([db EXCEPT !.role = "follower", !.tracking = FALSE, !.joining = FALSE])
    <3> DEFINE r == [db EXCEPT !.role = "follower", !.tracking = FALSE, !.joining = FALSE]
    <3>1. r \in SyncStates /\ ~r.tracking  BY <1>1 DEF SyncStates
    <3>2. Boots(r)  BY <2>2
    <3> HIDE DEF r
    <3> QED  BY <3>1, <3>2
  <2> QED  BY <2>1, <2>2 DEF Restart
<1>4. /\ db' = r /\ row' = [r EXCEPT !.headPending = FALSE]
      /\ fenced' = BootFenced(r) /\ wfenced' = BootFenced(r)
      /\ work' = [runs |-> ~ReadOnly(r, BootFenced(r)), attached |-> ~ReadOnly(r, BootFenced(r))]
  BY <1>3 DEF Boots
<1>5. row' \in SyncStates /\ row'.role = r.role /\ row'.tracking = r.tracking
      /\ row'.joining = r.joining
  BY <1>4 DEF SyncStates
<1>6. Closed' = ReadOnly(r, BootFenced(r))
  BY <1>4, <1>5 DEF Closed, ReadOnly
<1>7. BootFenced(db)' = BootFenced(r)  BY <1>4 DEF BootFenced
<1>8. db' \in SyncStates /\ Follows'  BY <1>3, <1>4 DEF Follows
<1> QED  BY <1>2, <1>4, <1>5, <1>6, <1>7, <1>8 DEF Woken

(* A device that has started is of the types, and no call is under way.    *)
LEMMA WokenBase == Woken => Base
<1> SUFFICES ASSUME Woken PROVE Base  OBVIOUS
<1>1. Idle \in Flags  BY DEF Idle, Flags
<1>2. call = [s \in Calls |-> Idle]  BY DEF Woken
<1>3. call \in [Calls -> Flags]  BY <1>1, <1>2
<1>4. BootFenced(db) \in BOOLEAN /\ Closed \in BOOLEAN
  BY DEF Woken, SyncStates, BootFenced, Closed, ReadOnly
<1>5. Types
  <2>1. work \in [runs : BOOLEAN, attached : BOOLEAN]  BY <1>4 DEF Woken
  <2>2. gate \in [holding : BOOLEAN, closing : BOOLEAN]  BY DEF Woken
  <2>3. wire \in Seq(Messages) /\ back \in Seq(Answers)
    <3>1. <<>> \in Seq(Messages) /\ <<>> \in Seq(Answers)  OBVIOUS
    <3> QED  BY <3>1 DEF Woken
  <2> QED  BY <1>3, <1>4, <2>1, <2>2, <2>3 DEF Woken, Types
<1>6. Shape  BY <1>2 DEF Shape, Placed
<1>7. Mail
  <2>1. Len(wire) = 0 /\ Len(back) = 0  BY DEF Woken
  <2> QED  BY <2>1 DEF Mail
<1> QED  BY <1>5, <1>6, <1>7 DEF Base

(* A request never makes a follower track.                                 *)
LEMMA FollowsAfter ==
  ASSUME NEW op \in Asks, NEW r \in SyncStates, r.role = "follower" => ~r.tracking
  PROVE  LET q == RowAfter(op, r) IN q.role = "follower" => ~q.tracking
BY DEF RowAfter, LeadRow, Demotion, Asks, SyncStates

\* The steps of main.
Main ==
  \/ Stopped
  \/ \E s \in Calls : TakeRow(s) \/ HoldEnds(s) \/ JoinTold(s) \/ JoinRead(s)
  \/ \E s \in Reports : LeaseRead(s)
  \/ \E s \in Reports, master \in BOOLEAN : SetLease(s, master)
  \/ (\/ \E newer \in BOOLEAN : Lead(newer)
      \/ LeadPosts \/ Led \/ LeadHeld \/ LeadEnds
      \/ \E acked \in BOOLEAN : Open(acked)
      \/ OpenRead \/ Acked \/ Seeded \/ ReleaseForRuns \/ RunAccounts \/ AttachHeld)
  \/ (\/ Demote \/ Demoted \/ DemoteHolds \/ BeginJoin \/ JoinHeld \/ LeaveJoin \/ FinishJoin
      \/ LeavePaused)

(* Every step is of the worker, of main, or a restart.                     *)
LEMMA NextIs == ASSUME Next PROVE Worker \/ Main \/ Restart
BY DEF Next, Progress, Asked, Main

(* Main never writes sync_state.                                           *)
LEMMA MainKeeps == ASSUME Main PROVE db' = db /\ wfenced' = wfenced
BY DEF Main, Stopped, TakeRow, HoldEnds, JoinTold, JoinRead, LeaseRead, SetLease, Lead, LeadPosts,
       Led, LeadHeld, LeadEnds, Open, OpenRead, Acked, Seeded, ReleaseForRuns, RunAccounts,
       AttachHeld, Demote, Demoted, DemoteHolds, BeginJoin, JoinHeld, LeaveJoin, FinishJoin,
       LeavePaused

(* Main keeps the types, the places and the mail.                          *)
LEMMA BaseMain == ASSUME Base, Main PROVE Base'
<1>1. \A s \in Reports : s \in Calls  BY Names
<1>2. CASE Stopped  BY <1>2, BaseStopped
<1>3. CASE \E s \in Calls : TakeRow(s) \/ HoldEnds(s) \/ JoinTold(s) \/ JoinRead(s)
  BY <1>3, BaseCallers
<1>4. CASE \E s \in Reports : LeaseRead(s)  BY <1>1, <1>4, BaseCallers
<1>5. CASE \E s \in Reports, master \in BOOLEAN : SetLease(s, master)
  BY <1>1, <1>5, BaseCallers
<1>6. CASE \/ \E newer \in BOOLEAN : Lead(newer)
           \/ LeadPosts \/ Led \/ LeadHeld \/ LeadEnds
           \/ \E acked \in BOOLEAN : Open(acked)
           \/ OpenRead \/ Acked \/ Seeded \/ ReleaseForRuns \/ RunAccounts \/ AttachHeld
  BY <1>6, BaseLeadOpen
<1>7. CASE \/ Demote \/ Demoted \/ DemoteHolds \/ BeginJoin \/ JoinHeld \/ LeaveJoin \/ FinishJoin
           \/ LeavePaused
  BY <1>7, BaseDemoteJoin
<1> QED  BY <1>2, <1>3, <1>4, <1>5, <1>6, <1>7 DEF Main

\* The inductive invariant of the types.
TypeInv == Base /\ Follows

(* Every step keeps it.                                                    *)
LEMMA TypeInvStep == ASSUME TypeInv, [Next]_vars PROVE TypeInv'
<1>1. Base /\ Follows  BY DEF TypeInv
<1>2. CASE Worker
  <2>1. Base'  BY <1>1, <1>2, BaseWorker
  <2>2. PICK m \in Messages : Fences(m) \/ Answering(m) \/ Failing(m)  BY <1>1, <1>2, WorkerSteps
  <2>3. db' = db \/ (m.op \in Asks /\ db' = RowAfter(m.op, db))
    BY <2>2 DEF Fences, Answering, Failing
  <2>4. db \in SyncStates  BY <1>1 DEF Base, Types
  <2>5. Follows'  BY <1>1, <2>3, <2>4, FollowsAfter DEF Follows
  <2> QED  BY <2>1, <2>5 DEF TypeInv
<1>3. CASE Main
  <2>1. Base' /\ db' = db  BY <1>1, <1>3, BaseMain, MainKeeps
  <2> QED  BY <1>1, <2>1 DEF TypeInv, Follows
<1>4. CASE Restart
  <2>1. Woken'  BY <1>1, <1>4, RestartWoken
  <2>2. Woken' => Base'  BY WokenBase, PTL
  <2> QED  BY <2>1, <2>2 DEF TypeInv, Woken
<1>5. CASE UNCHANGED vars
  BY <1>1, <1>5 DEF vars, TypeInv, Base, Types, Shape, Placed, Mail, Follows
<1> QED  BY <1>2, <1>3, <1>4, <1>5, NextIs

(* The types are as declared: each call waits for one answer at most, and  *)
(* a follower never tracks (bridge.ts, role.ts).                           *)
THEOREM TypeCorrect == Spec => []TypeOK
<1>1. Init => TypeInv
  BY InitWoken, WokenBase DEF TypeInv, Woken
<1>2. TypeInv /\ [Next]_vars => TypeInv'  BY TypeInvStep
<1>3. TypeInv => TypeOK
  <2> SUFFICES ASSUME TypeInv PROVE TypeOK  OBVIOUS
  <2>1. Types /\ Shape /\ Mail /\ Follows  BY DEF TypeInv, Base
  <2>2. wire \in Seq(Messages) /\ back \in Seq(Answers)  BY <2>1 DEF Types
  <2>3. DOMAIN wire = 1..Len(wire) /\ DOMAIN back = 1..Len(back)  BY <2>2
  <2>4. \A k \in 1..Len(back) : back[k].from \in Calls /\ call[back[k].from] # Idle
    <3> TAKE k \in 1..Len(back)
    <3>1. back[k] \in Answers  BY <2>2
    <3>2. Req(call[back[k].from]) # "none"  BY <2>1 DEF Mail
    <3> QED  BY <3>1, <3>2, IdleReq DEF Answers
  <2>5. \A i \in 1..Len(wire) : wire[i].from = "nobody" \/ call[wire[i].from] # Idle
    <3> TAKE i \in 1..Len(wire)
    <3>1. \/ wire[i].from = "nobody"
          \/ wire[i].op \in Asks /\ wire[i].op = Req(call[wire[i].from])
      BY <2>1 DEF Mail
    <3> QED  BY <3>1, IdleReq DEF Asks
  <2> QED  BY <2>1, <2>3, <2>4, <2>5 DEF TypeOK, Types, Mail, Follows
<1> QED  BY <1>1, <1>2, <1>3, PTL DEF Spec

-----------------------------------------------------------------------------
(* How far main's copy of sync_state may be behind the worker's.           *)

CC == call["control"]

\* Control waits for an answer that changes the role; answer k is that one.
Turning == (CC.op = "lead" /\ CC.at = "led") \/ (CC.op = "demote" /\ CC.at = "told")
Turn(k) == Turning /\ back[k].from = "control" /\ back[k].said # "failed"
Turned == \E k \in 1..Len(back) : Turn(k)
\* Control took that answer and main has not read the row again.
Behind == (CC.op = "lead" /\ CC.at \in {"hold", "row2"}) \/ (CC.op = "demote" /\ CC.at = "row")

Agrees(r) == r.role = db.role /\ r.tracking = db.tracking

\* Answer k and main's copy agree with sync_state unless the role changes
\* later; what a demotion and an opening rest on.
RowsBack ==
  \A k \in 1..Len(back) : (\A j \in 1..Len(back) : j > k => ~Turn(j)) =>
    Agrees(back[k].row) /\ (~back[k].row.headPending => ~db.headPending)
RowsMain == ~Turned /\ ~Behind => Agrees(row)
RowsDemote == CC.op = "demote" /\ (Turned \/ CC.at # "told") => db.role = "follower"
RowsOpen ==
  /\ CC.op = "open" /\ CC.at = "owned" /\ ~row.headPending => ~db.headPending
  /\ CC.op = "open" /\ CC.at = "ack" =>
       \A k \in 1..Len(back) : back[k].from = "control" /\ back[k].said # "failed" => ~db.headPending
Rows == RowsBack /\ RowsMain /\ RowsDemote /\ RowsOpen

(* Only one answer of control is on its way, so no other turns the role.   *)
LEMMA TurnAlone ==
  ASSUME Types, Mail, NEW k \in 1..Len(back), Turn(k)
  PROVE  \A j \in 1..Len(back) : Turn(j) => j = k
BY DEF Mail, Turn

(* Another call moves: control, and the answers it waits for, are left.    *)
LEMMA OtherTurns ==
  ASSUME Types, NEW s \in Calls, s # "control", NEW op, NEW at, NEW took \in BOOLEAN,
         NEW posts \in BOOLEAN, NEW on \in BOOLEAN, NEW asks \in BOOLEAN,
         Moves(s, op, at, took, posts, on, asks)
  PROVE  /\ CC'.op = CC.op /\ CC'.at = CC.at /\ CC'.arg = CC.arg /\ CC'.undo = CC.undo
         /\ (CC.late => CC'.late)
         /\ Turning' = Turning /\ Behind' = Behind /\ Turned' = Turned /\ db' = db
         /\ \E d \in {0, 1} :
              /\ Drops(d) /\ (d = 1 => back # <<>> /\ Head(back) = back[1] /\ back[1].from = s)
              /\ \A k \in 1..Len(back') : Turn(k)' = Turn(k + d)
<1>1. "control" \in Calls \ {s}  BY Names
<1>2. /\ CC'.op = CC.op /\ CC'.at = CC.at /\ CC'.arg = CC.arg /\ CC'.undo = CC.undo
      /\ (CC.late => CC'.late) /\ db' = db
  BY <1>1 DEF Moves, Steps, CC
<1>3. Turning' = Turning /\ Behind' = Behind  BY <1>2 DEF Turning, Behind
<1>4. back \in Seq(Answers)  BY DEF Types
<1>5. IF took THEN Took(s) ELSE back' = back  BY DEF Moves
<1>6. Drops(IF took THEN 1 ELSE 0)
      /\ (took => 1 \in 1..Len(back) /\ Head(back) = back[1] /\ back[1].from = s)
  BY <1>4, <1>5, Backs
<1>7. PICK d \in {0, 1} : Drops(d) /\ (d = 1 => 1 \in 1..Len(back) /\ Head(back) = back[1] /\ back[1].from = s)
  BY <1>6
<1>8. \A k \in 1..Len(back') : Turn(k)' = Turn(k + d)
  BY <1>3, <1>7 DEF Turn, Drops
<1>9. Turned' = Turned
  <2>1. \A k \in 1..Len(back') : k + d \in 1..Len(back)  BY <1>7 DEF Drops
  <2>2. \A k \in 1..Len(back) : Turn(k) => k - d \in 1..Len(back')
    <3> SUFFICES ASSUME NEW k \in 1..Len(back), Turn(k) PROVE k - d \in 1..Len(back')  OBVIOUS
    <3>1. d = 1 => k # 1  BY <1>7 DEF Turn
    <3>2. Len(back') = Len(back) - d /\ Len(back) \in Nat  BY <1>4, <1>7 DEF Drops
    <3> QED  BY <3>1, <3>2
  <2>3. \A k \in 1..Len(back) : Turn(k) => Turn(k - d)'
    <3> SUFFICES ASSUME NEW k \in 1..Len(back), Turn(k) PROVE Turn(k - d)'  OBVIOUS
    <3>1. k - d \in 1..Len(back') /\ (k - d) + d = k  BY <2>2
    <3> QED  BY <1>8, <3>1
  <2> QED  BY <1>8, <2>1, <2>2, <2>3 DEF Turned
<1>10. d = 1 => back # <<>>  BY <1>4, <1>7
<1> QED  BY <1>2, <1>3, <1>7, <1>8, <1>9, <1>10

(* Another call moves: the rows stay as near as they were.                 *)
LEMMA RowsOther ==
  ASSUME Types, Rows, NEW s \in Calls, s # "control", NEW op, NEW at, NEW took \in BOOLEAN,
         NEW posts \in BOOLEAN, NEW on \in BOOLEAN, NEW asks \in BOOLEAN,
         Moves(s, op, at, took, posts, on, asks),
         row' = row \/ (took /\ row' = Head(back).row)
  PROVE  Rows'
<1>1. /\ CC'.op = CC.op /\ CC'.at = CC.at
      /\ Behind' = Behind /\ Turned' = Turned /\ db' = db
  BY ZenonT(60), OtherTurns
<1>2. PICK d \in {0, 1} :
         /\ Drops(d) /\ (d = 1 => back # <<>> /\ Head(back) = back[1] /\ back[1].from = s)
         /\ \A k \in 1..Len(back') : Turn(k)' = Turn(k + d)
  BY OtherTurns
<1>3. back \in Seq(Answers) /\ Len(back) \in Nat  BY DEF Types
<1>4. Len(back') = Len(back) - d /\ \A k \in 1..Len(back') : k + d \in 1..Len(back) /\ back'[k] = back[k + d]
  BY <1>2 DEF Drops
<1>5. RowsBack'
  <2> SUFFICES ASSUME NEW k \in 1..Len(back'), \A j \in 1..Len(back') : j > k => ~Turn(j)'
               PROVE  /\ back'[k].row.role = db.role /\ back'[k].row.tracking = db.tracking
                      /\ (~back'[k].row.headPending => ~db.headPending)
    BY <1>1 DEF RowsBack, Agrees
  <2>1. k + d \in 1..Len(back) /\ back'[k] = back[k + d]  BY <1>4
  <2>2. \A j \in 1..Len(back) : j > k + d => ~Turn(j)
    <3> SUFFICES ASSUME NEW j \in 1..Len(back), j > k + d PROVE ~Turn(j)  OBVIOUS
    <3>1. j - d \in 1..Len(back') /\ j - d > k /\ (j - d) + d = j  BY <1>3, <1>4
    <3> QED  BY <1>2, <3>1
  <2>3. Agrees(back[k + d].row) /\ (~back[k + d].row.headPending => ~db.headPending)
    BY <2>1, <2>2 DEF Rows, RowsBack
  <2> QED  BY <1>1, <2>1, <2>3 DEF Agrees
<1>6. RowsMain'
  <2> SUFFICES ASSUME ~Turned, ~Behind PROVE Agrees(row)'  BY <1>1 DEF RowsMain
  <2>1. CASE row' = row  BY <1>1, <2>1 DEF Rows, RowsMain, Agrees
  <2>2. CASE took /\ row' = Head(back).row
    <3>1. back # <<>>  BY <2>2 DEF Moves, Took
    <3>2. 1 \in 1..Len(back) /\ Head(back) = back[1]  BY <1>3, <3>1
    <3>3. \A j \in 1..Len(back) : j > 1 => ~Turn(j)  BY DEF Turned
    <3>4. Agrees(back[1].row)  BY <3>2, <3>3 DEF Rows, RowsBack
    <3> QED  BY <1>1, <2>2, <3>2, <3>4 DEF Agrees
  <2> QED  BY <2>1, <2>2
<1>7. RowsDemote'  BY <1>1 DEF Rows, RowsDemote
<1>8. RowsOpen'
  <2>1. CC.op = "open" => ~Turned /\ ~Behind  BY DEF Turned, Turn, Turning, Behind
  <2>2. CC.op = "open" /\ CC.at = "owned" /\ ~row'.headPending => ~db.headPending
    <3>1. CASE row' = row  BY <3>1 DEF Rows, RowsOpen
    <3>2. CASE took /\ row' = Head(back).row
      <4>1. back # <<>>  BY <3>2 DEF Moves, Took
      <4>2. 1 \in 1..Len(back) /\ Head(back) = back[1]  BY <1>3, <4>1
      <4>3. CC.op = "open" => \A j \in 1..Len(back) : j > 1 => ~Turn(j)  BY <2>1 DEF Turned
      <4> QED  BY <3>2, <4>2, <4>3 DEF Rows, RowsBack
    <3> QED  BY <3>1, <3>2
  <2>3. CC.op = "open" /\ CC.at = "ack" => \A k \in 1..Len(back') :
          back'[k].from = "control" /\ back'[k].said # "failed" => ~db.headPending
    BY <1>4 DEF Rows, RowsOpen
  <2> QED  BY <1>1, <2>2, <2>3 DEF RowsOpen
<1> QED  BY <1>5, <1>6, <1>7, <1>8 DEF Rows

\* What a move of control does to main's copy.
RowMove(op, at, took) ==
  \/ op = "lead" /\ at \in {"hold", "row2"} /\ row' = row
  \/ op = "demote" /\ at = "row" /\ row' = row
  \/ /\ row'.role = row.role /\ row'.tracking = row.tracking /\ ~Behind
     /\ Turning => Head(back).said = "failed"
  \/ took /\ ~Turning /\ row' = Head(back).row
\* What it needs of the demotion and the opening it goes on with.
RowNeed(op, at, took) ==
  /\ op = "demote" => at = "told" \/ CC.op = "demote"
  /\ op = "open" /\ at = "owned" => took /\ row' = Head(back).row

(* Control moves: the rows stay as near as they should be.                 *)
LEMMA RowsControl ==
  ASSUME Base, Rows, NEW op, NEW at, NEW took \in BOOLEAN,
         NEW posts \in BOOLEAN, NEW on \in BOOLEAN, NEW asks \in BOOLEAN,
         Moves("control", op, at, took, posts, on, asks),
         Fair("control", op, at, took, asks),
         RowMove(op, at, took), RowNeed(op, at, took)
  PROVE  Rows' /\ ~Turned'
<1> DEFINE s == "control"
<1>1. Types /\ Mail /\ s \in Calls  BY Names DEF Base
<1>2. back \in Seq(Answers) /\ Len(back) \in Nat /\ db' = db  BY <1>1 DEF Types, Moves
<1>3. (IF took THEN Took(s) ELSE back' = back) /\ CC'.op = op /\ CC'.at = at
  BY DEF Moves, Steps, CC
<1>4. PICK d \in {0, 1} : Drops(d) /\ (took => d = 1) /\ (d = 1 => took)
  <2>1. Drops(IF took THEN 1 ELSE 0)  BY <1>1, <1>2, <1>3, Backs
  <2>2. CASE took  BY <2>1, <2>2
  <2>3. CASE ~took  BY <2>1, <2>3
  <2> QED  BY <2>2, <2>3
<1>5. Len(back') = Len(back) - d /\ \A k \in 1..Len(back') : k + d \in 1..Len(back) /\ back'[k] = back[k + d]
  BY <1>4 DEF Drops
<1>6. took => back # <<>> /\ 1 \in 1..Len(back) /\ Head(back) = back[1] /\ back[1].from = s
  BY <1>2, <1>3 DEF Took
<1>7. \A k \in 1..Len(back') : back'[k].from # s
  <2>1. NoneOf(s, wire, back')  BY <1>1, <1>3, MovesAlone DEF Fair
  <2> QED  BY <2>1 DEF NoneOf
<1>8. ~Turned'  BY <1>7 DEF Turned, Turn
<1>9. \A j \in 1..Len(back) : back[j].from = s => took /\ j = 1
  <2> SUFFICES ASSUME NEW j \in 1..Len(back), back[j].from = s, ~(took /\ j = 1) PROVE FALSE
    OBVIOUS
  <2>1. j - d \in 1..Len(back') /\ (j - d) + d = j  BY <1>2, <1>4, <1>5
  <2> QED  BY <1>5, <1>7, <2>1
<1>10. \A k, j \in 1..Len(back) : j > k => ~Turn(j)  BY <1>9 DEF Turn
<1>11. \A k \in 1..Len(back) : Agrees(back[k].row) /\ (~back[k].row.headPending => ~db.headPending)
  BY <1>10 DEF Rows, RowsBack
<1>12. RowsBack'  BY <1>2, <1>5, <1>11 DEF RowsBack, Agrees
<1>13. RowsMain'
  <2>1. CASE op = "lead" /\ at \in {"hold", "row2"}  BY <1>3, <2>1 DEF RowsMain, Behind
  <2>2. CASE op = "demote" /\ at = "row"  BY <1>3, <2>2 DEF RowsMain, Behind
  <2>3. CASE /\ row'.role = row.role /\ row'.tracking = row.tracking /\ ~Behind
             /\ Turning => Head(back).said = "failed"
    <3>1. ~Turned  BY <1>6, <1>9, <2>3 DEF Turned, Turn
    <3>2. Agrees(row)  BY <2>3, <3>1 DEF Rows, RowsMain
    <3> QED  BY <1>2, <2>3, <3>2 DEF RowsMain, Agrees
  <2>4. CASE took /\ row' = Head(back).row
    BY <1>2, <1>6, <1>11, <2>4 DEF RowsMain, Agrees
  <2> QED  BY <2>1, <2>2, <2>3, <2>4 DEF RowMove
<1>14. RowsDemote'
  <2> SUFFICES ASSUME op = "demote", at # "told" PROVE db.role = "follower"
    BY <1>2, <1>3, <1>8 DEF RowsDemote
  <2>1. CC.op = "demote"  BY DEF RowNeed
  <2>2. CASE CC.at # "told"  BY <2>1, <2>2 DEF Rows, RowsDemote
  <2>3. CASE CC.at = "told"
    <3>1. Req(CC) = "demote"  BY <2>1, <2>3 DEF Req, Wanted
    <3>2. took  BY <3>1 DEF Fair, CC
    <3>3. back[1].said = "ok"  BY <1>1, <1>6, <3>1, <3>2 DEF Mail, CC
    <3>4. Turn(1)  BY <1>6, <2>1, <2>3, <3>2, <3>3 DEF Turn, Turning
    <3> QED  BY <1>6, <2>1, <3>2, <3>4 DEF Rows, RowsDemote, Turned
  <2> QED  BY <2>2, <2>3
<1>15. RowsOpen'
  <2>1. op = "open" /\ at = "owned" /\ ~row'.headPending => ~db.headPending
    <3> SUFFICES ASSUME op = "open", at = "owned", ~row'.headPending PROVE ~db.headPending  OBVIOUS
    <3> QED  BY <1>6, <1>11 DEF RowNeed
  <2> QED  BY <1>2, <1>3, <1>7, <2>1 DEF RowsOpen
<1> QED  BY <1>8, <1>12, <1>13, <1>14, <1>15 DEF Rows

(* Who asks what.                                                          *)
LEMMA Askers ==
  ASSUME Shape, NEW s \in Calls
  PROVE  /\ Req(call[s]) = "lead" => s = "control" /\ CC.op = "lead" /\ CC.at = "led"
         /\ Req(call[s]) = "demote" => s = "control" /\ CC.op = "demote" /\ CC.at = "told"
         /\ Req(call[s]) = "ack" => s = "control" /\ CC.op = "open" /\ CC.at = "ack"
         /\ Req(call[s]) = "joining" => s = "join" /\ call[s].op = "begin" /\ call[s].at = "told"
         /\ Req(call[s]) = "joined" =>
              s = "control" /\ CC.op \in {"leave", "finish"} /\ CC.at = "told"
<1>1. Placed(s, call[s])  BY DEF Shape
<1>2. CASE call[s] = Idle  BY <1>2, IdleReq
<1>3. CASE call[s] # Idle
  <2> DEFINE op == call[s].op
             at == call[s].at
  <2>1. op \in MadeBy(s) /\ at \in Stages[op] /\ Req(call[s]) = Wanted(op, at)
    BY <1>1, <1>3 DEF Placed, Req
  <2> HIDE DEF op, at
  <2>2. CASE s = "control"
    <3>1. op \in {"lead", "open", "demote", "leave", "finish"}  BY <2>1, <2>2 DEF MadeBy
    <3>2. op = CC.op /\ at = CC.at  BY <2>2 DEF CC, op, at
    <3>3. \A x : Wanted(op, x) = "lead" <=> x = "led"  BY DEF Wanted
    <3>4. /\ at = "led" => op = "lead"
          /\ at = "ack" => op = "open"
          /\ at = "told" => op \in {"demote", "leave", "finish"}
      BY <2>1, <3>1 DEF Stages
    <3> QED  BY <2>1, <2>2, <3>1, <3>2, <3>4 DEF Wanted
  <2>3. CASE s # "control"
    <3>1. \/ s = "join" /\ op = "begin" /\ at \in {"hold", "told", "row", "owned"}
          \/ op = "lease" /\ at \in {"row", "owned", "hold"}
      BY <2>1, <2>3 DEF MadeBy, Stages
    <3>2. op = call[s].op /\ at = call[s].at  BY DEF op, at
    <3> QED  BY <2>1, <3>1, <3>2 DEF Wanted
  <2> QED  BY <2>2, <2>3
<1> QED  BY <1>2, <1>3

(* What the worker takes, and from whom.                                   *)
LEMMA TakenFrom ==
  ASSUME Base, NEW m \in Messages, Drained(m), m.op \in Asks
  PROVE  /\ m.from \in Calls /\ m.op = Req(call[m.from])
         /\ m.op = "lead" => m.from = "control" /\ CC.op = "lead" /\ CC.at = "led"
         /\ m.op = "demote" => m.from = "control" /\ CC.op = "demote" /\ CC.at = "told"
         /\ m.op = "ack" => m.from = "control" /\ CC.op = "open" /\ CC.at = "ack"
         /\ m.op = "joining" => m.from = "join" /\ call["join"].op = "begin" /\ call["join"].at = "told"
         /\ m.op = "joined" => m.from = "control" /\ CC.op \in {"leave", "finish"} /\ CC.at = "told"
         /\ m.from = "control" /\ Turning => m.op \in {"lead", "demote"}
<1>1. Mail /\ Shape  BY DEF Base
<1>2. wire[1] = m /\ 1 \in 1..Len(wire)  BY DEF Drained
<1>3. m.from \in Calls /\ m.op = Req(call[m.from])  BY <1>1, <1>2 DEF Mail, Asks
<1>4. m.from = "control" /\ Turning => m.op \in {"lead", "demote"}
  BY <1>3 DEF Turning, Req, Wanted, CC
<1> QED  BY <1>1, <1>3, <1>4, Askers

(* The worker's step changes the role only with a turning answer behind    *)
(* every older one.                                                        *)
LEMMA RowsWorker ==
  ASSUME Base, Rows, Worker
  PROVE  Rows'
<1>1. Types /\ Shape /\ Mail  BY DEF Base
<1>2. Mains  BY WorkerSteps
<1>3. PICK m \in Messages : Drained(m) /\ (Fences(m) \/ Answering(m) \/ Failing(m))  BY WorkerSteps
<1>4. CC' = CC /\ row' = row /\ Turning' = Turning /\ Behind' = Behind
  BY <1>2 DEF Mains, CC, Turning, Behind
<1>5. CASE Fences(m)
  <2>1. db' = db /\ back' = back  BY <1>5 DEF Fences
  <2> QED
    BY <1>4, <2>1 DEF Rows, RowsBack, RowsMain, RowsDemote, RowsOpen, Turned, Turn, Agrees
<1>6. ASSUME NEW a, Replied(a), a.from = m.from, m.op \in Asks, a.row = db',
             \/ /\ m.op \in {"lead", "demote"} /\ a.said # "failed"
                /\ m.op = "demote" => db'.role = "follower"
             \/ /\ db'.role = db.role /\ db'.tracking = db.tracking
                /\ db'.headPending => db.headPending
                /\ m.op = "ack" /\ a.said # "failed" => ~db'.headPending
                /\ m.op \notin {"lead", "demote"} \/ a.said = "failed"
      PROVE  Rows'
  <2>0. PICK n \in Nat : n = Len(back')  BY <1>6 DEF Replied
  <2>1. /\ Len(back) \in Nat /\ n = Len(back) + 1 /\ n \in 1..n /\ back'[n] = a
        /\ \A k \in 1..Len(back) : k \in 1..n /\ back'[k] = back[k]
        /\ \A k \in 1..n : k \in 1..Len(back) \/ k = n
    BY <1>6, <2>0 DEF Replied
  <2>2. \A k \in 1..Len(back) : Turn(k)' = Turn(k)  BY <1>4, <2>1 DEF Turn
  <2>3. /\ m.from = "control" /\ Turning => m.op \in {"lead", "demote"}
        /\ m.op \in {"lead", "demote"} => m.from = "control" /\ Turning
        /\ m.op = "demote" => CC.op = "demote"
        /\ m.op = "lead" => CC.op = "lead"
        /\ m.op = "ack" => CC.op = "open"
        /\ CC.op = "open" /\ CC.at = "ack" /\ m.from = "control" => m.op = "ack"
    <3>1. m.from = "control" => m.op = Req(CC)  BY <1>3, <1>6, TakenFrom DEF CC
    <3> QED  BY <1>3, <1>6, <3>1, TakenFrom DEF Turning, Req, Wanted
  <2>4. Turn(n)' <=> m.op \in {"lead", "demote"} /\ a.said # "failed"
    BY <1>4, <1>6, <2>1, <2>3 DEF Turn
  <2>5. CASE m.op \in {"lead", "demote"} /\ a.said # "failed" /\ (m.op = "demote" => db'.role = "follower")
    <3>1. Turn(n)'  BY <2>4, <2>5
    <3>2. Turned'  BY <2>0, <2>1, <3>1 DEF Turned
    <3>3. RowsBack'
      <4> SUFFICES ASSUME NEW k \in 1..Len(back'), \A j \in 1..Len(back') : j > k => ~Turn(j)'
                   PROVE  /\ back'[k].row.role = db'.role /\ back'[k].row.tracking = db'.tracking
                          /\ (~back'[k].row.headPending => ~db'.headPending)
        BY DEF RowsBack, Agrees
      <4>1. k = n  BY <2>0, <2>1, <3>1
      <4> QED  BY <1>6, <2>1, <4>1
    <3>4. RowsMain'  BY <3>2 DEF RowsMain
    <3>5. RowsDemote'  BY <1>4, <2>3, <2>5 DEF RowsDemote
    <3>6. RowsOpen'  BY <1>4, <2>3, <2>5 DEF RowsOpen
    <3> QED  BY <3>3, <3>4, <3>5, <3>6 DEF Rows
  <2>6. CASE /\ db'.role = db.role /\ db'.tracking = db.tracking
             /\ db'.headPending => db.headPending
             /\ m.op = "ack" /\ a.said # "failed" => ~db'.headPending
             /\ m.op \notin {"lead", "demote"} \/ a.said = "failed"
    <3>1. ~Turn(n)'  BY <2>4, <2>6
    <3>2. Turned' = Turned  BY <2>0, <2>1, <2>2, <3>1 DEF Turned
    <3>3. RowsBack'
      <4> SUFFICES ASSUME NEW k \in 1..Len(back'), \A j \in 1..Len(back') : j > k => ~Turn(j)'
                   PROVE  /\ back'[k].row.role = db'.role /\ back'[k].row.tracking = db'.tracking
                          /\ (~back'[k].row.headPending => ~db'.headPending)
        BY DEF RowsBack, Agrees
      <4>1. CASE k = n  BY <1>6, <2>1, <4>1
      <4>2. CASE k \in 1..Len(back)
        <5>1. \A j \in 1..Len(back) : j > k => ~Turn(j)  BY <2>0, <2>1, <2>2
        <5>2. Agrees(back[k].row) /\ (~back[k].row.headPending => ~db.headPending)
          BY <4>2, <5>1 DEF Rows, RowsBack
        <5> QED  BY <2>1, <2>6, <4>2, <5>2 DEF Agrees
      <4> QED  BY <2>0, <2>1, <4>1, <4>2
    <3>4. RowsMain'  BY <1>4, <2>6, <3>2 DEF Rows, RowsMain, Agrees
    <3>5. RowsDemote'  BY <1>4, <2>6, <3>2 DEF Rows, RowsDemote
    <3>6. RowsOpen'
      <4>1. CC.op = "open" /\ CC.at = "owned" /\ ~row.headPending => ~db'.headPending
        BY <2>6 DEF Rows, RowsOpen
      <4>2. CC.op = "open" /\ CC.at = "ack" => \A k \in 1..n :
              back'[k].from = "control" /\ back'[k].said # "failed" => ~db'.headPending
        <5> SUFFICES ASSUME CC.op = "open", CC.at = "ack", NEW k \in 1..n,
                            back'[k].from = "control", back'[k].said # "failed"
                     PROVE  ~db'.headPending
          OBVIOUS
        <5>1. CASE k \in 1..Len(back)  BY <2>1, <2>6, <5>1 DEF Rows, RowsOpen
        <5>2. CASE k = n  BY <1>6, <2>1, <2>3, <2>6, <5>2
        <5> QED  BY <2>1, <5>1, <5>2
      <4> QED  BY <1>4, <2>0, <4>1, <4>2 DEF RowsOpen
    <3> QED  BY <3>3, <3>4, <3>5, <3>6 DEF Rows
  <2> QED  BY <1>6, <2>5, <2>6
<1>7. db \in SyncStates  BY <1>1 DEF Types
<1>8. CASE Answering(m)
  <2> DEFINE a == [from |-> m.from, row |-> db',
                   said |-> IF m.op = "lead" THEN LeadSaid(db) ELSE "ok"]
  <2>1. a.from = m.from /\ a.row = db' /\ a.said # "failed"
    BY <1>7, RowAfterType DEF LeadSaid
  <2>2. Replied(a) /\ m.op \in Asks /\ db' = RowAfter(m.op, db)  BY <1>8 DEF Answering
  <2> HIDE DEF a
  <2>3. CASE m.op \in {"lead", "demote"}
    <3>1. m.op = "demote" => db'.role = "follower"
      BY <1>7, <2>2 DEF RowAfter, Demotion, SyncStates
    <3> QED  BY <1>6, <2>1, <2>2, <2>3, <3>1
  <2>4. CASE m.op \notin {"lead", "demote"}
    <3>1. /\ db'.role = db.role /\ db'.tracking = db.tracking
          /\ db'.headPending => db.headPending
          /\ m.op = "ack" => ~db'.headPending
      BY <1>7, <2>2, <2>4 DEF RowAfter, Asks, SyncStates
    <3> QED  BY <1>6, <2>1, <2>2, <2>4, <3>1
  <2> QED  BY <2>3, <2>4
<1>9. CASE Failing(m)
  <2> DEFINE a == [from |-> m.from, row |-> db, said |-> "failed"]
  <2>1. a.from = m.from /\ a.row = db /\ a.said = "failed"  OBVIOUS
  <2>2. Replied(a) /\ m.op \in Asks /\ db' = db  BY <1>9 DEF Failing, Asks
  <2> HIDE DEF a
  <2> QED  BY <1>6, <2>1, <2>2
<1> QED  BY <1>3, <1>5, <1>8, <1>9

(* A device that has started: the copy is the row.                         *)
LEMMA WokenRows == Woken => Rows /\ ~Turned /\ CC = Idle
<1> SUFFICES ASSUME Woken PROVE Rows /\ ~Turned /\ CC = Idle  OBVIOUS
<1>1. Len(back) = 0 /\ Agrees(row)  BY DEF Woken, Agrees
<1>2. CC = Idle  BY Names DEF Woken, CC
<1> QED  BY <1>1, <1>2, IdleReq DEF Rows, RowsBack, RowsMain, RowsDemote, RowsOpen, Turned

-----------------------------------------------------------------------------
(* A promotion, from its post to the acknowledged head.                    *)

\* A pending head: the device leads, both fences are up and none is lifted.
Pending ==
  db.headPending =>
    /\ db.role = "normal" /\ db.tracking /\ ~db.joining /\ wfenced /\ fenced
    /\ \A i \in 1..Len(wire) : wire[i].op # "unfence"
\* The promotion of a follower follows a fence post that nothing takes back.
Promoting ==
  \A i \in 1..Len(wire) : wire[i].op = "lead" /\ db.role = "follower" =>
    /\ fenced /\ (i = 1 => wfenced) /\ (i # 1 => wire[i - 1].op = "fence")
    /\ \A j \in 1..Len(wire) : j > i => wire[j].op # "unfence"
\* While one is under way, or its head is pending, no join is.
Leads(r) == r.role = "follower" \/ r.tracking
Gated == db.headPending \/ (CC.op = "lead" /\ db.role = "follower")
Guarded ==
  Gated => Leads(row) /\ call["join"] = Idle /\ \A k \in 1..Len(back) : Leads(back[k].row)
\* What a failed promotion reopens was a follower.
Undone == CC.op = "lead" /\ CC.at = "led" /\ CC.undo /\ ~Turned => db.role = "follower"
Pend == Pending /\ Promoting /\ Guarded /\ Undone

(* A move keeps the fences that a promotion and a pending head rest on.    *)
LEMMA PendWire ==
  ASSUME Types, Pending, Promoting, NEW s \in Calls, NEW op, NEW at, NEW took \in BOOLEAN,
         NEW posts \in BOOLEAN, NEW on \in BOOLEAN, NEW asks \in BOOLEAN,
         Moves(s, op, at, took, posts, on, asks),
         Fair(s, op, at, took, asks),
         posts /\ ~on => ~db.headPending /\ \A i \in 1..Len(wire) : wire[i].op # "lead",
         asks /\ at = "led" /\ db.role = "follower" => posts /\ on
  PROVE  Pending' /\ Promoting'
<1> DEFINE m == [op |-> Wanted(op, at), from |-> s]
<1>1. wire \in Seq(Messages)  BY DEF Types
<1>2. Put(wire, wire', posts, Post(on), asks, m) /\ db' = db /\ wfenced' = wfenced
      /\ fenced' = IF posts THEN on ELSE fenced
  BY DEF Moves
<1>3. m.op = Wanted(op, at)  OBVIOUS
<1>4. /\ Post(on).op \in {"fence", "unfence"} /\ (on => Post(on).op = "fence")
  BY DEF Post
<1>5. asks => m.op \in Asks  BY <1>3 DEF Fair
<1>6. Wanted(op, at) = "lead" => at = "led"  BY DEF Wanted
<1>7. "lead" \notin {"fence", "unfence"} /\ "unfence" \notin Asks  BY DEF Asks
<1> HIDE DEF m
<1>8. /\ Len(wire') \in Nat /\ Len(wire) \in Nat /\ Len(wire) =< Len(wire')
      /\ \A i \in 1..Len(wire) : i \in 1..Len(wire') /\ wire'[i] = wire[i]
      /\ posts => Len(wire) + 1 \in 1..Len(wire') /\ wire'[Len(wire) + 1] = Post(on)
      /\ posts /\ asks => Len(wire') = Len(wire) + 2
  BY <1>1, <1>2, PutItems
<1>9. \A i \in 1..Len(wire') :
        \/ i \in 1..Len(wire) /\ wire'[i] = wire[i]
        \/ posts /\ i = Len(wire) + 1 /\ wire'[i] = Post(on)
        \/ asks /\ i = Len(wire') /\ i > Len(wire) /\ wire'[i] = m
  BY <1>1, <1>2, PutItems
<1>10. Pending'
  <2> SUFFICES ASSUME db.headPending
               PROVE  /\ db.role = "normal" /\ db.tracking /\ ~db.joining /\ wfenced /\ fenced'
                      /\ \A i \in 1..Len(wire') : wire'[i].op # "unfence"
    BY <1>2 DEF Pending
  <2>1. posts => on  OBVIOUS
  <2>2. \A i \in 1..Len(wire') : wire'[i].op # "unfence"
    BY <1>4, <1>5, <1>7, <1>9, <2>1 DEF Pending
  <2> QED  BY <1>2, <2>1, <2>2 DEF Pending
<1>11. Promoting'
  <2> SUFFICES ASSUME NEW i \in 1..Len(wire'), wire'[i].op = "lead", db.role = "follower"
               PROVE  /\ fenced' /\ (i = 1 => wfenced) /\ (i # 1 => wire'[i - 1].op = "fence")
                      /\ \A j \in 1..Len(wire') : j > i => wire'[j].op # "unfence"
    BY <1>2 DEF Promoting
  <2>1. CASE i \in 1..Len(wire) /\ wire'[i] = wire[i]
    <3>1. /\ fenced /\ (i = 1 => wfenced) /\ (i # 1 => wire[i - 1].op = "fence")
          /\ \A j \in 1..Len(wire) : j > i => wire[j].op # "unfence"
      BY <2>1 DEF Promoting
    <3>2. posts => on  BY <2>1
    <3>3. i # 1 => i - 1 \in 1..Len(wire)  BY <1>8, <2>1
    <3>4. \A j \in 1..Len(wire') : j > i => wire'[j].op # "unfence"
      BY <1>4, <1>5, <1>7, <1>9, <3>1, <3>2
    <3> QED  BY <1>2, <1>8, <3>1, <3>2, <3>3, <3>4
  <2>2. CASE posts /\ i = Len(wire) + 1 /\ wire'[i] = Post(on)  BY <1>4, <1>7, <2>2
  <2>3. CASE asks /\ i = Len(wire') /\ i > Len(wire) /\ wire'[i] = m
    <3>1. posts /\ on  BY <1>3, <1>6, <2>3
    <3>2. Len(wire') = Len(wire) + 2 /\ wire'[Len(wire) + 1] = Post(on)
      BY <1>8, <2>3, <3>1
    <3>3. i - 1 = Len(wire) + 1 /\ i # 1  BY <1>8, <2>3, <3>2
    <3>4. \A j \in 1..Len(wire') : ~(j > i)  BY <1>8, <2>3
    <3> QED  BY <1>2, <1>4, <3>1, <3>2, <3>3, <3>4
  <2> QED  BY <1>9, <2>1, <2>2, <2>3
<1> QED  BY <1>10, <1>11

\* Another call may begin a join only where nothing is promoted.
JoinNeed(s) == s = "join" /\ call["join"] = Idle => ~Leads(row)

(* Another call moves.                                                     *)
LEMMA PendOther ==
  ASSUME Base, Pend, NEW s \in Calls, s # "control", NEW op, NEW at, NEW took \in BOOLEAN,
         NEW posts \in BOOLEAN, NEW on \in BOOLEAN, NEW asks \in BOOLEAN,
         Moves(s, op, at, took, posts, on, asks), Fair(s, op, at, took, asks),
         row' = row \/ (took /\ row' = Head(back).row),
         at # "led", posts => on, JoinNeed(s)
  PROVE  Pend'
<1>1. Types  BY DEF Base
<1>2. Pending' /\ Promoting'  BY <1>1, PendWire DEF Pend
<1>3. /\ CC'.op = CC.op /\ CC'.at = CC.at /\ CC'.undo = CC.undo
      /\ Turned' = Turned /\ db' = db
  BY ZenonT(60), <1>1, OtherTurns
<1>4. Undone'  BY <1>3 DEF Pend, Undone
<1>5. back \in Seq(Answers)  BY <1>1 DEF Types
<1>6. PICK d \in {0, 1} : Drops(d)
  <2>1. IF took THEN Took(s) ELSE back' = back  BY DEF Moves
  <2> QED  BY <1>5, <2>1, Backs
<1>7. Guarded'
  <2> SUFFICES ASSUME Gated
               PROVE  Leads(row') /\ call'["join"] = Idle
                      /\ \A k \in 1..Len(back') : Leads(back'[k].row)
    BY <1>3 DEF Guarded, Gated, Leads
  <2>1. Leads(row) /\ call["join"] = Idle /\ \A k \in 1..Len(back) : Leads(back[k].row)
    BY DEF Pend, Guarded
  <2>2. s # "join"  BY <2>1 DEF JoinNeed
  <2>3. call'["join"] = Idle  BY <2>1, <2>2, Names DEF Moves, Steps
  <2>4. \A k \in 1..Len(back') : Leads(back'[k].row)  BY <1>6, <2>1 DEF Drops
  <2>5. Leads(row')
    <3>1. CASE row' = row  BY <2>1, <3>1
    <3>2. CASE took /\ row' = Head(back).row
      <4>1. back # <<>>  BY <3>2 DEF Moves, Took
      <4>2. 1 \in 1..Len(back) /\ Head(back) = back[1]  BY <1>5, <4>1
      <4> QED  BY <2>1, <3>2, <4>2
    <3> QED  BY <3>1, <3>2
  <2> QED  BY <2>3, <2>4, <2>5
<1> QED  BY <1>2, <1>4, <1>7 DEF Pend

\* What a move of control needs: a lifted fence finds no pending head, and a
\* promotion of a follower follows a fence post.
PendNeed(op, at, posts, on) ==
  /\ posts /\ ~on => ~db.headPending
  /\ at = "led" /\ db.role = "follower" => posts /\ on
  /\ op = "lead" => CC.op = "lead" \/ (CC = Idle /\ call["join"] = Idle /\ row' = row)
  /\ op = "lead" /\ at = "led" /\ CC'.undo => db.role = "follower"
\* Main's copy stays, is acknowledged, or becomes the first answer.
RowStep(took) ==
  (row'.role = row.role /\ row'.tracking = row.tracking) \/ (took /\ row' = Head(back).row)

(* Control moves.                                                          *)
LEMMA PendControl ==
  ASSUME Base, Rows, Pend, NEW op, NEW at, NEW took \in BOOLEAN,
         NEW posts \in BOOLEAN, NEW on \in BOOLEAN, NEW asks \in BOOLEAN,
         Moves("control", op, at, took, posts, on, asks),
         Fair("control", op, at, took, asks),
         RowStep(took), PendNeed(op, at, posts, on)
  PROVE  Pend'
<1> DEFINE s == "control"
<1>1. Types /\ Mail /\ Shape /\ s \in Calls  BY Names DEF Base
<1>2. back \in Seq(Answers)  BY <1>1 DEF Types
<1>3. (IF took THEN Took(s) ELSE back' = back) /\ CC'.op = op /\ CC'.at = at /\ db' = db
  BY DEF Moves, Steps, CC
<1>4. \A i \in 1..Len(wire) : wire[i].op # "lead"
  <2> SUFFICES ASSUME NEW i \in 1..Len(wire), wire[i].op = "lead" PROVE FALSE  OBVIOUS
  <2>1. wire[i].from \in Calls /\ Req(call[wire[i].from]) = "lead"
    BY <1>1 DEF Mail
  <2>2. wire[i].from = s  BY <1>1, <2>1, Askers
  <2>3. NoneOf(s, wire, back')  BY <1>1, <1>3, MovesAlone DEF Fair
  <2> QED  BY <2>2, <2>3 DEF NoneOf
<1>5. Pending' /\ Promoting'
  <2>1. posts /\ ~on => ~db.headPending /\ \A i \in 1..Len(wire) : wire[i].op # "lead"
    BY <1>4 DEF PendNeed
  <2>2. asks /\ at = "led" /\ db.role = "follower" => posts /\ on  BY DEF PendNeed
  <2>3. Pending /\ Promoting  BY DEF Pend
  <2> QED  BY <1>1, <2>1, <2>2, <2>3, PendWire
<1>6. Undone'  BY <1>3 DEF Undone, PendNeed
<1>7. PICK d \in {0, 1} : Drops(d)
  BY <1>1, <1>2, <1>3, Backs
<1>8. Guarded'
  <2> SUFFICES ASSUME db.headPending \/ (op = "lead" /\ db.role = "follower")
               PROVE  Leads(row') /\ call'["join"] = Idle
                      /\ \A k \in 1..Len(back') : Leads(back'[k].row)
    BY <1>3 DEF Guarded, Gated, Leads
  <2>1. Leads(row) /\ call["join"] = Idle /\ \A k \in 1..Len(back) : Leads(back[k].row)
    <3>1. CASE Gated  BY <3>1 DEF Pend, Guarded
    <3>2. CASE ~Gated
      <4>1. op = "lead" /\ db.role = "follower" /\ CC = Idle /\ call["join"] = Idle
        BY <3>2 DEF Gated, PendNeed
      <4>2. ~Turning /\ ~Behind  BY <4>1, IdleReq DEF Turning, Behind
      <4>3. ~Turned /\ \A j \in 1..Len(back) : ~Turn(j)  BY <4>2 DEF Turned, Turn
      <4>4. Agrees(row) /\ \A k \in 1..Len(back) : Agrees(back[k].row)
        BY <4>2, <4>3 DEF Rows, RowsMain, RowsBack
      <4> QED  BY <4>1, <4>4 DEF Agrees, Leads
    <3> QED  BY <3>1, <3>2
  <2>2. call'["join"] = Idle  BY <2>1, Names DEF Moves, Steps
  <2>3. \A k \in 1..Len(back') : Leads(back'[k].row)  BY <1>7, <2>1 DEF Drops
  <2>4. Leads(row')
    <3>1. CASE row'.role = row.role /\ row'.tracking = row.tracking  BY <2>1, <3>1 DEF Leads
    <3>2. CASE took /\ row' = Head(back).row
      <4>1. back # <<>>  BY <1>3, <3>2 DEF Took
      <4>2. 1 \in 1..Len(back) /\ Head(back) = back[1]  BY <1>2, <4>1
      <4> QED  BY <2>1, <3>2, <4>2
    <3> QED  BY <3>1, <3>2 DEF RowStep
  <2> QED  BY <2>2, <2>3, <2>4
<1> QED  BY <1>5, <1>6, <1>8 DEF Pend

\* The worker's step, by what becomes of sync_state.
Quits(m) == db' = db \/ (m.op \in Asks /\ m.op # "lead" /\ db' = RowAfter(m.op, db))
(* The worker's step, seen from the answers.                               *)
LEMMA WorkerRow ==
  ASSUME Base, Worker
  PROVE  /\ Mains
         /\ \E m \in Messages :
              /\ Drained(m)
              /\ m.op \in {"fence", "unfence"} => wfenced' = (m.op = "fence") /\ db' = db /\ back' = back
              /\ m.op \notin {"fence", "unfence"} => wfenced' = wfenced /\ m.op \in Asks
              /\ \/ Quits(m)
                 \/ /\ m.op = "lead" /\ db' = LeadRow(db)
                    /\ \E a \in Answers : Replied(a) /\ a.from = m.from /\ a.said # "failed"
              /\ back' = back \/ \E a \in Answers : Replied(a) /\ a.from = m.from /\ a.row = db'
<1>1. PICK m \in Messages : Drained(m) /\ (Fences(m) \/ Answering(m) \/ Failing(m))  BY WorkerSteps
<1>2. Mains  BY WorkerSteps
<1>3. "fence" \notin Asks /\ "unfence" \notin Asks /\ "lead" \in Asks /\ "ack" \in Asks  BY DEF Asks
<1>4. CASE Fences(m)  BY <1>1, <1>2, <1>3, <1>4 DEF Fences, Quits
<1>5. CASE Answering(m)
  <2> DEFINE a == [from |-> m.from, row |-> db',
                   said |-> IF m.op = "lead" THEN LeadSaid(db) ELSE "ok"]
  <2>1. a.from = m.from /\ a.row = db' /\ a.said # "failed"  BY DEF LeadSaid
  <2>2. Replied(a) /\ m.op \in Asks /\ db' = RowAfter(m.op, db) /\ wfenced' = wfenced
    BY <1>5 DEF Answering
  <2> HIDE DEF a
  <2>3. a \in Answers  BY <2>2 DEF Replied
  <2>4. m.op = "lead" => db' = LeadRow(db)  BY <2>2 DEF RowAfter
  <2> QED  BY <1>1, <1>2, <1>3, <2>1, <2>2, <2>3, <2>4 DEF Quits
<1>6. CASE Failing(m)
  <2> DEFINE a == [from |-> m.from, row |-> db, said |-> "failed"]
  <2>1. a.from = m.from /\ a.row = db  OBVIOUS
  <2>2. Replied(a) /\ m.op \in Asks /\ db' = db /\ wfenced' = wfenced
    BY <1>3, <1>6 DEF Failing
  <2> HIDE DEF a
  <2>3. a \in Answers  BY <2>2 DEF Replied
  <2> QED  BY <1>1, <1>2, <1>3, <2>1, <2>2, <2>3 DEF Quits
<1> QED  BY <1>1, <1>4, <1>5, <1>6

(* The worker promotes behind the fence, and what it takes leaves it up.   *)
LEMMA PendWorker ==
  ASSUME Base, Pend, Worker
  PROVE  Pend'
<1>1. Types /\ Shape /\ Mail  BY DEF Base
<1>2. Mains  BY WorkerRow
<1>3. PICK m \in Messages :
        /\ Drained(m)
        /\ m.op \in {"fence", "unfence"} => wfenced' = (m.op = "fence") /\ db' = db /\ back' = back
        /\ m.op \notin {"fence", "unfence"} => wfenced' = wfenced /\ m.op \in Asks
        /\ \/ Quits(m)
           \/ /\ m.op = "lead" /\ db' = LeadRow(db)
              /\ \E a \in Answers : Replied(a) /\ a.from = m.from /\ a.said # "failed"
        /\ back' = back \/ \E a \in Answers : Replied(a) /\ a.from = m.from /\ a.row = db'
  BY WorkerRow
<1>4. db \in SyncStates  BY <1>1 DEF Types
<1>5. CC' = CC /\ row' = row /\ fenced' = fenced /\ call' = call  BY <1>2 DEF Mains, CC
<1>6. /\ wire[1] = m /\ Len(wire) \in Nat /\ Len(wire') = Len(wire) - 1 /\ 1 \in 1..Len(wire)
      /\ \A i \in 1..Len(wire') : i + 1 \in 2..Len(wire) /\ i + 1 \in 1..Len(wire) /\ wire'[i] = wire[i + 1]
  BY <1>3 DEF Drained
<1>7. m.op \in Asks =>
        /\ m.op = "lead" => m.from = "control" /\ CC.op = "lead" /\ CC.at = "led"
        /\ m.op = "demote" => CC.op = "demote"
        /\ m.op = "joining" => call["join"].op = "begin"
  BY <1>3, TakenFrom
<1>8. \/ db' = db
      \/ m.op = "lead" /\ db' = LeadRow(db)
      \/ m.op = "demote" /\ db' = Demotion(db)
      \/ m.op = "ack" /\ db' = [db EXCEPT !.headPending = FALSE]
      \/ m.op = "joining" /\ db' = [db EXCEPT !.joining = TRUE]
      \/ m.op = "joined" /\ db' = [db EXCEPT !.joining = FALSE]
  BY <1>3 DEF Quits, RowAfter, Asks
<1>9. /\ db'.role = "follower" => db.role = "follower" \/ m.op = "demote"
      /\ db'.headPending => db.headPending \/ (m.op = "lead" /\ db.role = "follower")
      /\ db'.headPending /\ m.op # "lead" => db' = db \/ m.op \in {"joining", "joined"}
      /\ m.op # "lead" => db'.role = db.role \/ m.op = "demote"
  BY <1>4, <1>8 DEF LeadRow, Demotion, SyncStates
<1>10. Promoting'
  <2> SUFFICES ASSUME NEW i \in 1..Len(wire'), wire'[i].op = "lead", db'.role = "follower"
               PROVE  /\ fenced /\ (i = 1 => wfenced') /\ (i # 1 => wire'[i - 1].op = "fence")
                      /\ \A j \in 1..Len(wire') : j > i => wire'[j].op # "unfence"
    BY <1>5 DEF Promoting
  <2>1. i + 1 \in 2..Len(wire) /\ i + 1 \in 1..Len(wire) /\ wire'[i] = wire[i + 1] /\ i + 1 # 1
    BY <1>6
  <2>2. CC.op = "lead"
    <3>1. wire[i + 1].from \in Calls /\ Req(call[wire[i + 1].from]) = "lead"
      BY <1>1, <2>1 DEF Mail
    <3> QED  BY <1>1, <3>1, Askers
  <2>3. m.op # "demote"  BY <1>3, <1>7, <2>2
  <2>4. db.role = "follower"  BY <1>9, <2>3
  <2>5. /\ fenced /\ wire[(i + 1) - 1].op = "fence"
        /\ \A j \in 1..Len(wire) : j > i + 1 => wire[j].op # "unfence"
    BY <2>1, <2>4 DEF Pend, Promoting
  <2>6. wire[i].op = "fence"  BY <2>5
  <2>7. i = 1 => wfenced'  BY <1>3, <1>6, <2>6
  <2>8. i # 1 => wire'[i - 1].op = "fence"
    <3> SUFFICES ASSUME i # 1 PROVE wire'[i - 1].op = "fence"  OBVIOUS
    <3>1. i - 1 \in 1..Len(wire') /\ (i - 1) + 1 = i  BY <1>6
    <3> QED  BY <1>6, <2>6, <3>1
  <2>9. \A j \in 1..Len(wire') : j > i => wire'[j].op # "unfence"
    <3> SUFFICES ASSUME NEW j \in 1..Len(wire'), j > i PROVE wire'[j].op # "unfence"  OBVIOUS
    <3>1. j + 1 > i + 1 /\ j + 1 \in 1..Len(wire) /\ wire'[j] = wire[j + 1]  BY <1>6
    <3> QED  BY <2>5, <3>1
  <2> QED  BY <2>5, <2>7, <2>8, <2>9
<1>11. Pending'
  <2> SUFFICES ASSUME db'.headPending
               PROVE  /\ db'.role = "normal" /\ db'.tracking /\ ~db'.joining /\ wfenced' /\ fenced
                      /\ \A i \in 1..Len(wire') : wire'[i].op # "unfence"
    BY <1>5 DEF Pending
  <2>1. CASE m.op = "lead" /\ db.role = "follower" /\ db' = LeadRow(db)
    <3>1. fenced /\ wfenced /\ \A j \in 1..Len(wire) : j > 1 => wire[j].op # "unfence"
      BY <1>6, <2>1 DEF Pend, Promoting
    <3>2. \A i \in 1..Len(wire') : wire'[i].op # "unfence"
      <4> TAKE i \in 1..Len(wire')
      <4>1. i + 1 > 1 /\ i + 1 \in 1..Len(wire) /\ wire'[i] = wire[i + 1]  BY <1>6
      <4> QED  BY <3>1, <4>1
    <3>3. wfenced' = wfenced  BY <1>3, <2>1
    <3> QED  BY <2>1, <3>1, <3>2, <3>3 DEF LeadRow
  <2>2. CASE db.headPending
    <3>1. /\ db.role = "normal" /\ db.tracking /\ ~db.joining /\ wfenced /\ fenced
          /\ \A i \in 1..Len(wire) : wire[i].op # "unfence"
      BY <2>2 DEF Pend, Pending
    <3>2. call["join"] = Idle  BY <2>2 DEF Pend, Guarded, Gated
    <3>3. m.op # "joining"  BY <1>3, <1>7, <3>2, IdleReq DEF Asks
    <3>4. m.op # "unfence" /\ (m.op = "fence" => wfenced')
      BY <1>3, <1>6, <3>1
    <3>5. wfenced'  BY <1>3, <3>1, <3>4
    <3>6. db'.role = "normal" /\ db'.tracking /\ ~db'.joining
      BY <1>4, <1>8, <3>1, <3>3 DEF LeadRow, Demotion, SyncStates
    <3>7. \A i \in 1..Len(wire') : wire'[i].op # "unfence"  BY <1>6, <3>1
    <3> QED  BY <3>1, <3>5, <3>6, <3>7
  <2>3. m.op = "lead" /\ db.role = "follower" => db' = LeadRow(db) \/ db' = db
    BY <1>8
  <2> QED  BY <1>9, <2>1, <2>2, <2>3
<1>12. Guarded'
  <2> SUFFICES ASSUME db'.headPending \/ (CC.op = "lead" /\ db'.role = "follower")
               PROVE  Leads(row) /\ call["join"] = Idle
                      /\ \A k \in 1..Len(back') : Leads(back'[k].row)
    BY <1>5 DEF Guarded, Gated, Leads
  <2>1. Gated
    <3>1. m.op = "demote" => CC.op = "demote"  BY <1>3, <1>7 DEF Asks
    <3>2. m.op = "lead" => CC.op = "lead"  BY <1>3, <1>7 DEF Asks
    <3> QED  BY <1>9, <3>1, <3>2 DEF Gated
  <2>2. Leads(row) /\ call["join"] = Idle /\ \A k \in 1..Len(back) : Leads(back[k].row)
    BY <2>1 DEF Pend, Guarded
  <2>3. Leads(db)'  BY <1>11 DEF Pending, Leads
  <2>4. CASE back' = back  BY <2>2, <2>4
  <2>5. CASE \E a \in Answers : Replied(a) /\ a.from = m.from /\ a.row = db'
    <3>1. PICK a \in Answers : Replied(a) /\ a.row = db'  BY <2>5
    <3>2. \A k \in 1..Len(back') : (k \in 1..Len(back) /\ back'[k] = back[k]) \/ back'[k] = a
      BY <3>1 DEF Replied
    <3> QED  BY <2>2, <2>3, <3>1, <3>2 DEF Leads
  <2> QED  BY <1>3, <2>2, <2>4, <2>5
<1>13. Undone'
  <2> SUFFICES ASSUME CC.op = "lead", CC.at = "led", CC.undo, ~Turned'
               PROVE  db'.role = "follower"
    BY <1>5 DEF Undone
  <2>1. Turning /\ Turning'  BY <1>5 DEF Turning
  <2>2. Turned => Turned'
    <3> SUFFICES ASSUME NEW k \in 1..Len(back), Turn(k) PROVE Turned'  BY DEF Turned
    <3>1. k \in 1..Len(back') /\ back'[k] = back[k]
      BY <1>3 DEF Replied
    <3>2. Turn(k)'  BY <2>1, <3>1 DEF Turn
    <3> QED  BY <3>1, <3>2 DEF Turned
  <2>3. db.role = "follower"  BY <2>2 DEF Pend, Undone
  <2>4. m.op # "demote"  BY <1>3, <1>7 DEF Asks
  <2>5. ~(\E a \in Answers : Replied(a) /\ a.from = "control" /\ a.said # "failed")
    <3> SUFFICES ASSUME NEW a \in Answers, Replied(a), a.from = "control", a.said # "failed"
                 PROVE  FALSE
      OBVIOUS
    <3>1. PICK n \in Nat : n = Len(back')  BY DEF Replied
    <3>2. n \in 1..Len(back') /\ back'[n] = a  BY <3>1 DEF Replied
    <3>3. Turn(n)'  BY <2>1, <3>2 DEF Turn
    <3> QED  BY <3>2, <3>3 DEF Turned
  <2>6. Quits(m)  BY <1>3, <1>7, <2>5 DEF Asks
  <2>7. m.op # "lead" \/ db' = db  BY <2>6 DEF Quits
  <2> QED  BY <1>9, <2>3, <2>4, <2>7
<1> QED  BY <1>10, <1>11, <1>12, <1>13 DEF Pend

(* A device that has started has a pending head only behind its fences.    *)
LEMMA WokenPend == Woken /\ (db.headPending => db.role = "normal" /\ db.tracking /\ ~db.joining) => Pend
<1> SUFFICES ASSUME Woken, db.headPending => db.role = "normal" /\ db.tracking /\ ~db.joining
             PROVE  Pend
  OBVIOUS
<1>1. Len(back) = 0 /\ Len(wire) = 0 /\ CC = Idle /\ call["join"] = Idle
  BY Names DEF Woken, CC
<1>2. Pending
  <2>1. fenced = BootFenced(db) /\ wfenced = BootFenced(db)  BY DEF Woken
  <2>2. db.headPending => BootFenced(db)  BY DEF BootFenced
  <2>3. db.headPending => fenced /\ wfenced  BY <2>1, <2>2
  <2> QED  BY <1>1, <2>3 DEF Pending
<1>3. Promoting  BY <1>1 DEF Promoting
<1>4. Guarded
  <2>1. Gated => db.headPending  BY <1>1, IdleReq DEF Gated
  <2> QED  BY <1>1, <2>1 DEF Guarded, Leads, Woken
<1>5. Undone  BY <1>1, IdleReq DEF Undone
<1> QED  BY <1>2, <1>3, <1>4, <1>5 DEF Pend

-----------------------------------------------------------------------------
(* What a reported loss leaves closed.                                     *)

LossLease == lost => lease = "lost"
\* Fenced, but for the part of a promotion in which the device may just have
\* begun to track.
LossShut ==
  lost /\ db.tracking /\ (\/ CC.op # "lead"
                          \/ CC.at \in {"row", "owned", "hold2"}
                          \/ CC.at = "led" /\ ~Turned)
  => fenced
\* There the promotion knows that a lease arrived.
LossLead == lost /\ CC.op = "lead" => fenced \/ CC.late
\* An opening that no close overtook finds no loss.
LossOpen ==
  CC.op = "open" /\ CC.at \in {"row", "owned", "ack"} /\ ~CC.late => ~lost \/ ~db.tracking
Loss == LossLease /\ LossShut /\ LossLead /\ LossOpen

(* Another call moves, but a report of the lease does not begin.           *)
LEMMA LossOther ==
  ASSUME Types, Loss, NEW s \in Calls, s # "control", NEW op, NEW at, NEW took \in BOOLEAN,
         NEW posts \in BOOLEAN, NEW on \in BOOLEAN, NEW asks \in BOOLEAN,
         Moves(s, op, at, took, posts, on, asks), posts => on,
         lease' = lease, lost' = lost
  PROVE  Loss'
<1>1. /\ CC'.op = CC.op /\ CC'.at = CC.at /\ (CC.late => CC'.late)
      /\ Turned' = Turned /\ db' = db
  BY ZenonT(60), OtherTurns
<1>2. fenced => fenced'  BY DEF Moves
<1> QED  BY <1>1, <1>2 DEF Loss, LossLease, LossShut, LossLead, LossOpen

(* A report begins: it closes a leader at once, and tells a promotion.     *)
LEMMA LossReport ==
  ASSUME Base, Follows, Rows, Loss, NEW s \in Reports, NEW master \in BOOLEAN, SetLease(s, master)
  PROVE  Loss'
<1>1. Types /\ s \in Calls /\ s # "control" /\ "control" \in Calls \ {s}  BY Names DEF Base
<1>2. /\ IF Closes(master) THEN Moves(s, "lease", "row", FALSE, TRUE, TRUE, TRUE)
         ELSE Moves(s, "lease", "row", FALSE, FALSE, FALSE, TRUE)
      /\ fenced' = (fenced \/ Closes(master)) /\ Reported(s, master)
  BY <1>1, SetLeaseMoves
<1>3. /\ CC'.op = CC.op /\ CC'.at = CC.at /\ (CC.late => CC'.late)
      /\ Turned' = Turned /\ db' = db
  <2>1. CASE Closes(master)  BY <1>1, <1>2, <2>1, OtherTurns
  <2>2. CASE ~Closes(master)  BY <1>1, <1>2, <2>2, OtherTurns
  <2> QED  BY <2>1, <2>2
<1>4. /\ CC.op = "lead" => CC'.late
      /\ CC.op = "open" /\ Closes(master) => CC'.late
  BY <1>1, <1>2 DEF Reported, CC
<1>5. /\ lease' = IF master THEN "master" ELSE "lost"
      /\ lost' = (~master /\ (lost \/ BootFenced(db) \/ CC.op = "lead"))
  BY DEF SetLease, CC
<1>6. CASE master
  <2>1. lost' = FALSE  BY <1>5, <1>6
  <2> QED  BY <2>1 DEF Loss, LossLease, LossShut, LossLead, LossOpen
<1>7. CASE ~master
  <2>1. LossLease'  BY <1>5, <1>7 DEF LossLease
  <2>2. db \in SyncStates  BY <1>1 DEF Types
  <2>3. db.tracking /\ ~Turned /\ ~Behind => Closes(master)
    <3> SUFFICES ASSUME db.tracking, ~Turned, ~Behind PROVE Closes(master)  OBVIOUS
    <3>1. db.role = "normal"  BY <2>2 DEF Follows, SyncStates
    <3>2. Agrees(row)  BY DEF Rows, RowsMain
    <3> QED  BY <1>7, <3>1, <3>2 DEF Closes, Agrees
  <2>4. LossShut'
    <3> SUFFICES ASSUME db.tracking, \/ CC.op # "lead"
                                     \/ CC.at \in {"row", "owned", "hold2"}
                                     \/ CC.at = "led" /\ ~Turned
                 PROVE  fenced'
      BY <1>3 DEF LossShut
    <3>1. CC.op = "demote" => ~Turned /\ CC.at = "told"
      BY <2>2 DEF Rows, RowsDemote, Follows, SyncStates
    <3>2. ~Turned
      BY <3>1 DEF Turned, Turn, Turning
    <3>3. ~Behind  BY <3>1 DEF Behind
    <3> QED  BY <1>2, <2>3, <3>2, <3>3
  <2>5. LossLead'  BY <1>3, <1>4 DEF LossLead
  <2>6. LossOpen'
    <3> SUFFICES ASSUME CC.op = "open", ~CC'.late, db.tracking PROVE FALSE
      BY <1>3 DEF LossOpen
    <3>1. ~Turned /\ ~Behind  BY DEF Turned, Turn, Turning, Behind
    <3> QED  BY <1>4, <2>3, <3>1
  <2> QED  BY <2>1, <2>4, <2>5, <2>6 DEF Loss
<1> QED  BY <1>6, <1>7

\* What a move of control needs of a loss.
LossNeed(op, at) ==
  /\ lease' = lease /\ (lost' => lost)
  /\ lost' /\ db.tracking /\ (op # "lead" \/ at \in {"row", "owned", "led", "hold2"}) => fenced'
  /\ lost' /\ op = "lead" => fenced' \/ CC'.late
  /\ op = "open" /\ at \in {"row", "owned", "ack"} /\ ~CC'.late => ~lost \/ ~db.tracking

\* The rows, a promotion and a loss.
Guard == Rows /\ Pend /\ Loss

(* A move of control that has what it needs.                               *)
LEMMA GuardControl ==
  ASSUME Base, Guard, NEW op, NEW at, NEW took \in BOOLEAN,
         NEW posts \in BOOLEAN, NEW on \in BOOLEAN, NEW asks \in BOOLEAN,
         Moves("control", op, at, took, posts, on, asks),
         Fair("control", op, at, took, asks),
         RowMove(op, at, took), RowNeed(op, at, took), PendNeed(op, at, posts, on), LossNeed(op, at)
  PROVE  Guard'
<1>1. Rows' /\ ~Turned'  BY RowsControl DEF Guard
<1>2. RowStep(took)  BY DEF RowMove, RowStep
<1>3. Pend'  BY <1>2, PendControl DEF Guard
<1>4. CC'.op = op /\ CC'.at = at /\ db' = db  BY DEF Moves, Steps, CC
<1>5. Loss'
  BY <1>4 DEF Guard, Loss, LossLease, LossShut, LossLead, LossOpen, LossNeed
<1> QED  BY <1>1, <1>3, <1>5 DEF Guard

\* A move of control to op, at that changes neither the fence nor the role.
Calm(op, at) ==
  /\ row'.role = row.role /\ row'.tracking = row.tracking
  /\ lease' = lease /\ lost' = lost /\ fenced' = fenced
  /\ ~Turning /\ ~Behind /\ (CC.op # "lead" \/ CC.at = "hold2")
  /\ \/ op \notin {"lead", "open", "demote"}
     \/ op = "demote" /\ CC.op = "demote"
     \/ /\ op = "open" /\ CC.op = "open" /\ at \notin {"row", "owned"}
        /\ at = "ack" => CC.at = "owned" /\ CC'.late = CC.late
  /\ at # "led"

(* It keeps all of it.                                                     *)
LEMMA GuardCalm ==
  ASSUME Base, Guard, NEW op, NEW at, NEW took \in BOOLEAN, NEW asks \in BOOLEAN,
         Moves("control", op, at, took, FALSE, FALSE, asks),
         Fair("control", op, at, took, asks), Calm(op, at)
  PROVE  Guard'
<1>1. RowMove(op, at, took)  BY DEF Calm, RowMove
<1>2. RowNeed(op, at, took)  BY DEF Calm, RowNeed
<1>3. PendNeed(op, at, FALSE, FALSE)  BY DEF Calm, PendNeed
<1>4. LossNeed(op, at)
  BY DEF Calm, LossNeed, Guard, Loss, LossShut, LossOpen
<1> QED  BY <1>1, <1>2, <1>3, <1>4, GuardControl

(* The worker's step keeps a loss closed.                                  *)
LEMMA LossWorker ==
  ASSUME Base, Loss, Worker
  PROVE  Loss'
<1>1. PICK m \in Messages :
        /\ Drained(m)
        /\ m.op \notin {"fence", "unfence"} => wfenced' = wfenced /\ m.op \in Asks
        /\ \/ Quits(m)
           \/ /\ m.op = "lead" /\ db' = LeadRow(db)
              /\ \E a \in Answers : Replied(a) /\ a.from = m.from /\ a.said # "failed"
        /\ back' = back \/ \E a \in Answers : Replied(a) /\ a.from = m.from /\ a.row = db'
  BY WorkerRow
<1>2. Mains  BY WorkerRow
<1>3. CC' = CC /\ lost' = lost /\ lease' = lease /\ fenced' = fenced /\ Turning' = Turning
  BY <1>2 DEF Mains, CC, Turning
<1>4. LossLease' /\ LossLead'  BY <1>3 DEF Loss, LossLease, LossLead
<1>5. db \in SyncStates  BY DEF Base, Types
<1>6. Turned => Turned'
  <2> SUFFICES ASSUME NEW k \in 1..Len(back), Turn(k) PROVE Turned'  BY DEF Turned
  <2>1. k \in 1..Len(back') /\ back'[k] = back[k]  BY <1>1 DEF Replied
  <2>2. Turn(k)'  BY <1>3, <2>1 DEF Turn
  <2> QED  BY <2>1, <2>2 DEF Turned
<1>7. CASE Quits(m)
  <2>1. db'.tracking => db.tracking
    BY <1>5, <1>7 DEF Quits, RowAfter, Demotion, Asks, SyncStates
  <2> QED  BY <1>3, <1>4, <1>6, <2>1 DEF Loss, LossShut, LossOpen
<1>8. CASE m.op = "lead" /\ \E a \in Answers : Replied(a) /\ a.from = m.from /\ a.said # "failed"
  <2>1. CC.op = "lead" /\ CC.at = "led" /\ m.from = "control"
    BY <1>1, <1>8, TakenFrom
  <2>2. PICK a \in Answers : Replied(a) /\ a.from = "control" /\ a.said # "failed"  BY <1>8, <2>1
  <2>3. PICK n \in Nat : n = Len(back')  BY <2>2 DEF Replied
  <2>4. n \in 1..Len(back') /\ back'[n] = a  BY <2>2, <2>3 DEF Replied
  <2>5. Turned'  BY <1>3, <2>1, <2>2, <2>4 DEF Turned, Turn, Turning
  <2> QED  BY <1>3, <1>4, <2>1, <2>5 DEF Loss, LossShut, LossOpen
<1> QED  BY <1>1, <1>7, <1>8

\* What a move of another call needs.
OtherNeed(s, at, took, posts, on) ==
  /\ row' = row \/ (took /\ row' = Head(back).row)
  /\ at # "led" /\ (posts => on) /\ JoinNeed(s)
  /\ lease' = lease /\ lost' = lost

(* A move of another call.                                                 *)
LEMMA GuardOther ==
  ASSUME Base, Guard, NEW s \in Calls, s # "control", NEW op, NEW at, NEW took \in BOOLEAN,
         NEW posts \in BOOLEAN, NEW on \in BOOLEAN, NEW asks \in BOOLEAN,
         Moves(s, op, at, took, posts, on, asks), Fair(s, op, at, took, asks),
         OtherNeed(s, at, took, posts, on)
  PROVE  Guard'
<1>1. Types  BY DEF Base
<1>2. /\ row' = row \/ (took /\ row' = Head(back).row)
      /\ at # "led" /\ (posts => on) /\ JoinNeed(s) /\ lease' = lease /\ lost' = lost
  BY DEF OtherNeed
<1>3. Rows'  BY <1>1, <1>2, RowsOther DEF Guard
<1>4. Pend'  BY <1>2, PendOther DEF Guard
<1>5. Loss'  BY <1>1, <1>2, LossOther DEF Guard
<1> QED  BY <1>3, <1>4, <1>5 DEF Guard

(* The steps of the reports and of the join.                               *)
LEMMA GuardOthers ==
  ASSUME Base, Follows, Guard, "leader" \notin Also,
         \/ \E s \in Calls : s # "control" /\ (TakeRow(s) \/ HoldEnds(s) \/ JoinTold(s) \/ JoinRead(s))
         \/ \E s \in Reports : LeaseRead(s) \/ \E master \in BOOLEAN : SetLease(s, master)
         \/ BeginJoin \/ JoinHeld
  PROVE  Guard'
<1>1. Types /\ Shape /\ Mail  BY DEF Base
<1>2. CASE \E s \in Reports, master \in BOOLEAN : SetLease(s, master)
  <2>1. PICK s \in Reports, master \in BOOLEAN : SetLease(s, master)  BY <1>2
  <2>2. Loss'  BY <2>1, LossReport DEF Guard
  <2>3. s \in Calls /\ s # "control" /\ s # "join"  BY Names
  <2>4. /\ call[s] = Idle
        /\ IF Closes(master) THEN Moves(s, "lease", "row", FALSE, TRUE, TRUE, TRUE)
           ELSE Moves(s, "lease", "row", FALSE, FALSE, FALSE, TRUE)
        /\ row' = row
    BY <1>1, <2>1, SetLeaseMoves
  <2>5. Fair(s, "lease", "row", FALSE, TRUE)  BY <2>4, IdleReq DEF Fair, Wanted, Asks
  <2>6. JoinNeed(s)  BY <2>3 DEF JoinNeed
  <2>7. CASE Closes(master)
    <3>1. Rows'  BY <1>1, <2>3, <2>4, <2>7, RowsOther DEF Guard
    <3>2. Pend'  BY <2>3, <2>4, <2>5, <2>6, <2>7, PendOther DEF Guard
    <3> QED  BY <2>2, <3>1, <3>2 DEF Guard
  <2>8. CASE ~Closes(master)
    <3>1. Rows'  BY <1>1, <2>3, <2>4, <2>8, RowsOther DEF Guard
    <3>2. Pend'  BY <2>3, <2>4, <2>5, <2>6, <2>8, PendOther DEF Guard
    <3> QED  BY <2>2, <3>1, <3>2 DEF Guard
  <2> QED  BY <2>7, <2>8
<1>3. CASE \E s \in Reports : LeaseRead(s)
  <2>1. PICK s \in Reports : LeaseRead(s)  BY <1>3
  <2>2. s \in Calls /\ s # "control" /\ s # "join"  BY Names
  <2>3. /\ UNCHANGED <<row, lease, work, lost>>
        /\ \/ Walks(s, "lease", "owned", "hold", TRUE, FALSE)
           \/ Moves(s, "lease", "hold", TRUE, TRUE, TRUE, FALSE)
           \/ Leaves(s, TRUE)
    BY <1>1, <2>1, LeaseReadMoves
  <2>4. Fair(s, "lease", "hold", TRUE, FALSE) /\ Fair(s, "none", "done", TRUE, FALSE)  BY DEF Fair
  <2>5. /\ OtherNeed(s, "hold", TRUE, FALSE, FALSE) /\ OtherNeed(s, "hold", TRUE, TRUE, TRUE)
        /\ OtherNeed(s, "done", TRUE, FALSE, FALSE)
    BY <2>2, <2>3 DEF OtherNeed, JoinNeed
  <2>6. \/ Moves(s, "lease", "hold", TRUE, FALSE, FALSE, FALSE)
        \/ Moves(s, "lease", "hold", TRUE, TRUE, TRUE, FALSE)
        \/ Moves(s, "none", "done", TRUE, FALSE, FALSE, FALSE)
    BY <2>3 DEF Walks, Leaves
  <2> QED  BY <2>2, <2>4, <2>5, <2>6, GuardOther
<1>4. CASE BeginJoin
  <2>1. /\ Moves("join", "begin", "hold", FALSE, FALSE, FALSE, FALSE) /\ call["join"] = Idle
        /\ row.role = "normal" /\ ~row.tracking /\ UNCHANGED <<row, lease, work, lost>>
    BY <1>1, <1>4, BeginJoinMoves DEF Begins
  <2>2. OtherNeed("join", "hold", FALSE, FALSE, FALSE)
    BY <2>1 DEF OtherNeed, JoinNeed, Leads
  <2>3. Fair("join", "begin", "hold", FALSE, FALSE)  BY <2>1, IdleReq DEF Fair
  <2> QED  BY <2>1, <2>2, <2>3, GuardOther, Names
<1>5. CASE JoinHeld
  <2>1. /\ call["join"].at = "hold" /\ UNCHANGED <<row, lease, gate, work, lost>>
        /\ \/ Leaves("join", FALSE)
           \/ Walks("join", "begin", "hold", "told", FALSE, TRUE)
    BY <1>1, <1>5, JoinHeldMoves DEF At
  <2>2. call["join"] # Idle  BY <2>1, IdleReq
  <2>3. Req(call["join"]) = "none"  BY <2>1, NoReq
  <2>4. Fair("join", "begin", "told", FALSE, TRUE) /\ Fair("join", "none", "done", FALSE, FALSE)
    BY <2>3 DEF Fair, Wanted, Asks
  <2>5. OtherNeed("join", "told", FALSE, FALSE, FALSE) /\ OtherNeed("join", "done", FALSE, FALSE, FALSE)
    BY <2>1, <2>2 DEF OtherNeed, JoinNeed
  <2>6. \/ Moves("join", "none", "done", FALSE, FALSE, FALSE, FALSE)
        \/ Moves("join", "begin", "told", FALSE, FALSE, FALSE, TRUE)
    BY <2>1 DEF Walks, Leaves
  <2> QED  BY <2>4, <2>5, <2>6, GuardOther, Names
<1>6. CASE \E s \in Calls : s # "control" /\ (TakeRow(s) \/ HoldEnds(s) \/ JoinTold(s) \/ JoinRead(s))
  <2>1. PICK s \in Calls : s # "control" /\ (TakeRow(s) \/ HoldEnds(s) \/ JoinTold(s) \/ JoinRead(s))
    BY <1>6
  <2>2. CASE TakeRow(s)
    <3>1. /\ \/ Moves(s, call[s].op, "owned", TRUE, FALSE, FALSE, TRUE)
             \/ Moves(s, call[s].op, "owned2", TRUE, FALSE, FALSE, TRUE)
          /\ row' = Head(back).row /\ UNCHANGED <<lease, gate, work, lost>>
          /\ call[s].at \in {"row", "row2"}
      BY <1>1, <2>2, TakeRowMoves DEF Walks, At
    <3>2. call[s] # Idle  BY <3>1, IdleReq
    <3>3. OtherNeed(s, "owned", TRUE, FALSE, FALSE) /\ OtherNeed(s, "owned2", TRUE, FALSE, FALSE)
      BY <3>1, <3>2 DEF OtherNeed, JoinNeed
    <3>4. Fair(s, call[s].op, "owned", TRUE, TRUE) /\ Fair(s, call[s].op, "owned2", TRUE, TRUE)
      BY DEF Fair, Wanted, Asks
    <3> QED  BY <2>1, <3>1, <3>3, <3>4, GuardOther
  <2>3. CASE HoldEnds(s)
    <3>1. /\ call[s].at \in {"hold", "hold2"} /\ Moves(s, "none", "done", FALSE, FALSE, FALSE, FALSE)
          /\ UNCHANGED <<row, lease, gate, work, lost>>
      BY <1>1, <2>3, HoldEndsMoves DEF Leaves, At
    <3>2. call[s] # Idle  BY <3>1, IdleReq
    <3>3. OtherNeed(s, "done", FALSE, FALSE, FALSE)  BY <3>1, <3>2 DEF OtherNeed, JoinNeed
    <3>4. Fair(s, "none", "done", FALSE, FALSE)  BY <3>1, NoReq DEF Fair
    <3> QED  BY <2>1, <3>1, <3>3, <3>4, GuardOther
  <2>4. CASE JoinTold(s)
    <3>1. /\ call[s].op \in {"begin", "leave", "finish"}
          /\ Moves(s, call[s].op, "row", TRUE, FALSE, FALSE, TRUE)
          /\ UNCHANGED <<row, lease, gate, work, lost>>
      BY <1>1, <2>4, JoinToldMoves DEF Walks
    <3>2. call[s] # Idle  BY <3>1, IdleReq
    <3>3. OtherNeed(s, "row", TRUE, FALSE, FALSE)  BY <3>1, <3>2 DEF OtherNeed, JoinNeed
    <3>4. Fair(s, call[s].op, "row", TRUE, TRUE)  BY DEF Fair, Wanted, Asks
    <3> QED  BY <2>1, <3>1, <3>3, <3>4, GuardOther
  <2>5. CASE JoinRead(s)
    <3>1. /\ call[s].op \in {"begin", "leave", "finish"}
          /\ \/ Moves(s, "leave", "paused", TRUE, FALSE, FALSE, TRUE)
             \/ Moves(s, "none", "done", TRUE, FALSE, FALSE, FALSE)
          /\ UNCHANGED <<row, lease, gate, work, lost>>
      BY <1>1, <2>5, JoinReadMoves DEF Walks, Leaves
    <3>2. call[s] # Idle  BY <3>1, IdleReq
    <3>3. OtherNeed(s, "paused", TRUE, FALSE, FALSE) /\ OtherNeed(s, "done", TRUE, FALSE, FALSE)
      BY <3>1, <3>2 DEF OtherNeed, JoinNeed
    <3>4. Fair(s, "leave", "paused", TRUE, TRUE) /\ Fair(s, "none", "done", TRUE, FALSE)
      BY DEF Fair, Wanted, Asks
    <3> QED  BY <2>1, <3>1, <3>3, <3>4, GuardOther
  <2> QED  BY <2>1, <2>2, <2>3, <2>4, <2>5
<1> QED  BY <1>2, <1>3, <1>4, <1>5, <1>6

(* The work is resumed for an opening or a leave.                          *)
LEMMA Resumes ==
  ASSUME Shape, CC.at \in {"release", "accounts", "attach"}
  PROVE  CC.op \in {"open", "leave"}
<1>1. Placed("control", call["control"])  BY Names DEF Shape
<1>2. CC # Idle  BY IdleReq
<1> QED  BY <1>1, <1>2 DEF Placed, CC, MadeBy, Stages

\* Nothing of the role is under way in a call of kind op that waits at at.
Plain(op, at) ==
  /\ op = "lead" => at = "hold2"
  /\ op = "demote" => at \in {"owned", "hold"}

(* A plain call of control ends.                                           *)
LEMMA GuardEnds ==
  ASSUME Base, Guard, NEW took \in BOOLEAN, Leaves("control", took), Plain(CC.op, CC.at),
         Fair("control", "none", "done", took, FALSE),
         row'.role = row.role, row'.tracking = row.tracking, lease' = lease, lost' = lost
  PROVE  Guard'
<1>1. Moves("control", "none", "done", took, FALSE, FALSE, FALSE) /\ fenced' = fenced
  BY DEF Leaves, Only
<1>2. Calm("none", "done")  BY <1>1 DEF Calm, Plain, Turning, Behind
<1> QED  BY <1>1, <1>2, GuardCalm

(* A plain call of control goes on, to a wait of no consequence.           *)
LEMMA GuardWalks ==
  ASSUME Base, Guard, NEW op, NEW from, NEW to, NEW took \in BOOLEAN, NEW asks \in BOOLEAN,
         Walks("control", op, from, to, took, asks), Plain(op, from),
         Fair("control", op, to, took, asks),
         op # "lead", to # "led", op = "open" => to \notin {"row", "owned"} /\ (to = "ack" => from = "owned"),
         row' = row, lease' = lease, lost' = lost
  PROVE  Guard'
<1>1. Moves("control", op, to, took, FALSE, FALSE, asks) /\ fenced' = fenced
      /\ CC.op = op /\ CC.at = from /\ CC' = [CC EXCEPT !.at = to]
  BY DEF Walks, Only, At, CC
<1>2. CC \in Flags  BY Names DEF Base, Types, CC
<1>3. CC'.late = CC.late  BY <1>1, <1>2 DEF Flags
<1>4. Calm(op, to)  BY <1>1, <1>3 DEF Calm, Plain, Turning, Behind
<1> QED  BY <1>1, <1>4, GuardCalm

(* The steps of control that change neither the fence nor the role.        *)
LEMMA GuardPasses ==
  ASSUME Base, Guard,
         \/ HoldEnds("control") \/ JoinTold("control") \/ JoinRead("control")
         \/ Seeded \/ ReleaseForRuns \/ RunAccounts \/ AttachHeld
         \/ DemoteHolds \/ LeaveJoin \/ FinishJoin \/ LeavePaused
  PROVE  Guard'
<1> DEFINE s == "control"
<1>1. Types /\ Shape /\ Mail /\ s \in Calls  BY Names DEF Base
<1>2. CC = call[s]  BY DEF CC
<1>3. CASE HoldEnds(s)
  <2>1. /\ Leaves(s, FALSE) /\ UNCHANGED <<row, lease, gate, work, lost>>
        /\ \/ CC.op \in {"lease", "demote"} /\ CC.at = "hold"
           \/ CC.op = "lead" /\ CC.at = "hold2"
    BY <1>1, <1>2, <1>3, HoldEndsMoves DEF At
  <2>2. Req(CC) = "none"  BY <2>1, NoReq
  <2>3. Fair(s, "none", "done", FALSE, FALSE)  BY <1>2, <2>2 DEF Fair
  <2>4. Plain(CC.op, CC.at)  BY <2>1 DEF Plain
  <2> QED  BY <2>1, <2>3, <2>4, GuardEnds
<1>4. CASE JoinTold(s)
  <2>1. /\ CC.op \in {"begin", "leave", "finish"} /\ UNCHANGED <<row, lease, gate, work, lost>>
        /\ Walks(s, CC.op, "told", "row", TRUE, TRUE)
    BY <1>1, <1>2, <1>4, JoinToldMoves
  <2>2. Plain(CC.op, "told") /\ Fair(s, CC.op, "row", TRUE, TRUE)
    BY <2>1 DEF Plain, Fair, Wanted, Asks
  <2> QED  BY <2>1, <2>2, GuardWalks
<1>5. CASE JoinRead(s)
  <2>1. /\ CC.op \in {"begin", "leave", "finish"} /\ UNCHANGED <<row, lease, gate, work, lost>>
        /\ Walks(s, "leave", "owned", "paused", TRUE, TRUE) \/ Leaves(s, TRUE)
    BY <1>1, <1>2, <1>5, JoinReadMoves
  <2>2. /\ Plain("leave", "owned") /\ Fair(s, "leave", "paused", TRUE, TRUE)
        /\ Plain(CC.op, CC.at) /\ Fair(s, "none", "done", TRUE, FALSE)
    BY <2>1 DEF Plain, Fair, Wanted, Asks
  <2> QED  BY <2>1, <2>2, GuardWalks, GuardEnds
<1>6. CASE Seeded
  <2>1. Walks(s, "open", "seed", "release", TRUE, FALSE) /\ UNCHANGED <<row, lease, gate, work, lost>>
    BY <1>1, <1>6, SeededMoves
  <2>2. Plain("open", "seed") /\ Fair(s, "open", "release", TRUE, FALSE)  BY DEF Plain, Fair
  <2> QED  BY <2>1, <2>2, GuardWalks
<1>7. CASE ReleaseForRuns
  <2>1. /\ Walks(s, CC.op, "release", "accounts", FALSE, TRUE) /\ CC.at = "release"
        /\ UNCHANGED <<row, lease, work, lost>>
    BY <1>1, <1>2, <1>7, ReleaseForRunsMoves DEF Walks, At
  <2>2. CC.op \in {"open", "leave"}  BY <1>1, <2>1, Resumes
  <2>3. Req(CC) = "none"  BY <2>1, NoReq
  <2>4. Plain(CC.op, "release") /\ Fair(s, CC.op, "accounts", FALSE, TRUE)
    BY <1>2, <2>2, <2>3 DEF Plain, Fair, Wanted, Asks
  <2> QED  BY <2>1, <2>2, <2>4, GuardWalks
<1>8. CASE RunAccounts
  <2>1. /\ Walks(s, CC.op, "accounts", "attach", TRUE, FALSE) /\ CC.at = "accounts"
        /\ UNCHANGED <<row, lease, gate, lost>>
    BY <1>1, <1>2, <1>8, RunAccountsMoves DEF Walks, At
  <2>2. CC.op \in {"open", "leave"}  BY <1>1, <2>1, Resumes
  <2>3. Plain(CC.op, "accounts") /\ Fair(s, CC.op, "attach", TRUE, FALSE)  BY <2>2 DEF Plain, Fair
  <2> QED  BY <2>1, <2>2, <2>3, GuardWalks
<1>9. CASE AttachHeld
  <2>1. /\ Leaves(s, FALSE) /\ CC.at = "attach" /\ UNCHANGED <<row, lease, lost>>
    BY <1>1, <1>2, <1>9, AttachHeldMoves
  <2>2. CC.op \in {"open", "leave"}  BY <1>1, <2>1, Resumes
  <2>3. Req(CC) = "none"  BY <2>1, NoReq
  <2>4. Plain(CC.op, CC.at) /\ Fair(s, "none", "done", FALSE, FALSE)
    BY <1>2, <2>2, <2>3 DEF Plain, Fair
  <2> QED  BY <2>1, <2>4, GuardEnds
<1>10. CASE DemoteHolds
  <2>1. Walks(s, "demote", "owned", "hold", TRUE, FALSE) /\ UNCHANGED <<row, lease, work, lost>>
    BY <1>1, <1>10, DemoteHoldsMoves
  <2>2. Plain("demote", "owned") /\ Fair(s, "demote", "hold", TRUE, FALSE)  BY DEF Plain, Fair
  <2> QED  BY <2>1, <2>2, GuardWalks
<1>11. CASE LeavePaused
  <2>1. Walks(s, "leave", "paused", "release", TRUE, FALSE)
        /\ UNCHANGED <<row, lease, gate, work, lost>>
    BY <1>1, <1>11, LeavePausedMoves
  <2>2. Plain("leave", "paused") /\ Fair(s, "leave", "release", TRUE, FALSE)  BY DEF Plain, Fair
  <2> QED  BY <2>1, <2>2, GuardWalks
<1>12. CASE LeaveJoin
  <2>1. /\ CC = Idle /\ Moves(s, "leave", "told", FALSE, FALSE, FALSE, TRUE) /\ fenced' = fenced
        /\ UNCHANGED <<row, lease, gate, work, lost>>
    BY <1>1, <1>2, <1>12, LeaveJoinMoves
  <2>2. Fair(s, "leave", "told", FALSE, TRUE)  BY <1>2, <2>1, IdleReq DEF Fair, Wanted, Asks
  <2>3. Calm("leave", "told")  BY <2>1, IdleReq DEF Calm, Turning, Behind
  <2> QED  BY <2>1, <2>2, <2>3, GuardCalm
<1>13. CASE FinishJoin
  <2>1. /\ CC = Idle /\ Moves(s, "finish", "told", FALSE, FALSE, FALSE, TRUE) /\ fenced' = fenced
        /\ UNCHANGED <<row, lease, gate, work, lost>>
    BY <1>1, <1>2, <1>13, FinishJoinMoves DEF Begins, Only
  <2>2. Fair(s, "finish", "told", FALSE, TRUE)  BY <1>2, <2>1, IdleReq DEF Fair, Wanted, Asks
  <2>3. Calm("finish", "told")  BY <2>1, IdleReq DEF Calm, Turning, Behind
  <2> QED  BY <2>1, <2>2, <2>3, GuardCalm
<1> QED  BY <1>3, <1>4, <1>5, <1>6, <1>7, <1>8, <1>9, <1>10, <1>11, <1>12, <1>13

(* A failed promotion has not turned the role.                             *)
LEMMA FailedAlone ==
  ASSUME Types, Mail, Took("control"), Head(back).said = "failed"
  PROVE  ~Turned
<1>1. back \in Seq(Answers) /\ back # <<>>  BY DEF Types, Took
<1>2. 1 \in 1..Len(back) /\ Head(back) = back[1] /\ back[1].from = "control"  BY <1>1 DEF Took
<1>3. \A j \in 1..Len(back) : back[j].from = "control" => j = 1  BY <1>2 DEF Mail
<1> QED  BY <1>2, <1>3 DEF Turned, Turn

(* The steps of a promotion.                                               *)
LEMMA GuardLead ==
  ASSUME Base, Follows, Guard,
         \/ \E newer \in BOOLEAN : Lead(newer)
         \/ LeadPosts \/ Led \/ LeadHeld \/ LeadEnds
  PROVE  Guard'
<1> DEFINE s == "control"
<1>1. Types /\ Shape /\ Mail /\ s \in Calls  BY Names DEF Base
<1>2. CC = call[s] /\ CC' = call'[s] /\ CC \in Flags  BY <1>1 DEF CC, Types
<1>3. Loss /\ Rows /\ Pend /\ (lost => lease = "lost")  BY DEF Guard, Loss, LossLease
<1>4. \A at \in Ats : [CC EXCEPT !.at = at].late = CC.late /\ [CC EXCEPT !.at = at].op = CC.op
                      /\ [CC EXCEPT !.at = at].undo = CC.undo
  BY <1>2 DEF Flags
<1>5. \A n : n.op = "lead" /\ Closing(s, n) => call'[s] = n /\ fenced' = TRUE  BY DEF Closing
<1>6. CASE \E newer \in BOOLEAN : Lead(newer)
  <2>1. PICK newer \in BOOLEAN : Lead(newer)  BY <1>6
  <2>2. /\ CC = Idle /\ call["join"] = Idle /\ Moves(s, "lead", "row", FALSE, FALSE, FALSE, TRUE)
        /\ fenced' = fenced
        /\ lost' = (lost /\ BootFenced(db)) /\ UNCHANGED <<row, lease, gate, work>>
    BY <1>1, <1>2, <2>1, LeadMoves DEF Begins, Only
  <2>3. Fair(s, "lead", "row", FALSE, TRUE)  BY <1>2, <2>2, IdleReq DEF Fair, Wanted, Asks
  <2>4. CC.op = "none" /\ ~Turning /\ ~Behind  BY <2>2, IdleReq DEF Turning, Behind
  <2>5. RowMove("lead", "row", FALSE) /\ RowNeed("lead", "row", FALSE)
        /\ PendNeed("lead", "row", FALSE, FALSE)
    BY <2>2, <2>4 DEF RowMove, RowNeed, PendNeed
  <2>6. lost' => lost /\ db.tracking  BY <2>2 DEF BootFenced
  <2>7. lost /\ db.tracking => fenced  BY <1>3, <2>4 DEF Loss, LossShut
  <2>8. LossNeed("lead", "row")  BY <2>2, <2>6, <2>7 DEF LossNeed
  <2> QED  BY <2>2, <2>3, <2>5, <2>8, GuardControl
<1>7. CASE LeadPosts
  <2>1. /\ At(s, "lead", "owned") /\ UNCHANGED <<row, lease, gate, work, lost>>
        /\ \/ /\ row.role = "normal" /\ Moves(s, "lead", "led", TRUE, FALSE, FALSE, TRUE)
              /\ Posted(FALSE) /\ fenced' = fenced
           \/ /\ row.role = "follower" /\ Moves(s, "lead", "led", TRUE, TRUE, TRUE, TRUE)
              /\ Posted(~fenced) /\ fenced' = TRUE
           \/ row.role = "follower" /\ Leaves(s, TRUE)
    BY <1>1, <1>7, LeadPostsMoves
  <2>2. CC.op = "lead" /\ CC.at = "owned" /\ ~Turning /\ ~Behind
    BY <1>2, <2>1 DEF At, Turning, Behind
  <2>3. Agrees(row)  BY <1>3, <2>2 DEF Rows, RowsMain, Turned, Turn
  <2>4. lost /\ db.tracking => fenced  BY <1>3, <2>2 DEF Loss, LossShut
  <2>5. lost => fenced \/ CC.late  BY <1>3, <2>2 DEF Loss, LossLead
  <2>6. Fair(s, "lead", "led", TRUE, TRUE) /\ Fair(s, "none", "done", TRUE, FALSE)
    BY DEF Fair, Wanted, Asks
  <2>7. /\ RowMove("lead", "led", TRUE) /\ RowNeed("lead", "led", TRUE)
        /\ RowMove("none", "done", TRUE) /\ RowNeed("none", "done", TRUE)
    BY <2>1, <2>2 DEF RowMove, RowNeed
  <2>8. CASE row.role = "normal" /\ Moves(s, "lead", "led", TRUE, FALSE, FALSE, TRUE)
             /\ Posted(FALSE) /\ fenced' = fenced
    <3>1. ~CC'.undo /\ CC'.late = CC.late  BY <1>2, <2>8 DEF Posted
    <3>2. PendNeed("lead", "led", FALSE, FALSE)  BY <2>2, <2>3, <2>8, <3>1 DEF PendNeed, Agrees
    <3>3. LossNeed("lead", "led")  BY <2>1, <2>4, <2>5, <2>8, <3>1 DEF LossNeed
    <3> QED  BY <2>6, <2>7, <2>8, <3>2, <3>3, GuardControl
  <2>9. CASE row.role = "follower" /\ Moves(s, "lead", "led", TRUE, TRUE, TRUE, TRUE) /\ fenced' = TRUE
    <3>1. PendNeed("lead", "led", TRUE, TRUE)  BY <2>2, <2>3, <2>9 DEF PendNeed, Agrees
    <3>2. LossNeed("lead", "led")  BY <2>1, <2>9 DEF LossNeed
    <3> QED  BY <2>6, <2>7, <2>9, <3>1, <3>2, GuardControl
  <2>10. CASE Leaves(s, TRUE)
    <3>1. Moves(s, "none", "done", TRUE, FALSE, FALSE, FALSE) /\ fenced' = fenced
      BY <2>10 DEF Leaves, Only
    <3>2. PendNeed("none", "done", FALSE, FALSE)  BY DEF PendNeed
    <3>3. LossNeed("none", "done")  BY <2>1, <2>4, <3>1 DEF LossNeed
    <3> QED  BY <2>6, <2>7, <3>1, <3>2, <3>3, GuardControl
  <2> QED  BY <2>1, <2>8, <2>9, <2>10
<1>8. CASE Led
  <2>1. /\ At(s, "lead", "led") /\ UNCHANGED <<row, lease, work, lost>>
        /\ \/ /\ Head(back).said = "failed" /\ call[s].undo
              /\ Moves(s, "none", "done", TRUE, TRUE, FALSE, FALSE)
           \/ Head(back).said = "failed" /\ Leaves(s, TRUE)
           \/ Shuts(s, "lead", "led", "row2", TRUE, TRUE)
           \/ Shuts(s, "lead", "led", "hold", TRUE, FALSE)
           \/ Walks(s, "lead", "led", "row2", TRUE, TRUE)
    BY <1>1, <1>8, LedMoves
  <2>2. CC.op = "lead" /\ CC.at = "led" /\ ~Behind  BY <1>2, <2>1 DEF At, Behind
  <2>3. lost => fenced \/ CC.late  BY <1>3, <2>2 DEF Loss, LossLead
  <2>4. /\ Fair(s, "none", "done", TRUE, FALSE) /\ Fair(s, "lead", "row2", TRUE, TRUE)
        /\ Fair(s, "lead", "hold", TRUE, FALSE)
    BY DEF Fair, Wanted, Asks
  <2>5. CASE /\ Head(back).said = "failed" /\ Took(s)
             /\ \/ CC.undo /\ Moves(s, "none", "done", TRUE, TRUE, FALSE, FALSE)
                \/ Leaves(s, TRUE)
    <3>1. ~Turned  BY <1>1, <2>5, FailedAlone
    <3>2. RowMove("none", "done", TRUE) /\ RowNeed("none", "done", TRUE)
      BY <2>1, <2>2, <2>5 DEF RowMove, RowNeed
    <3>3. CASE CC.undo /\ Moves(s, "none", "done", TRUE, TRUE, FALSE, FALSE)
      <4>1. db.role = "follower"  BY <1>3, <2>2, <3>1, <3>3 DEF Pend, Undone
      <4>2. ~db.headPending  BY <1>3, <4>1 DEF Pend, Pending
      <4>3. PendNeed("none", "done", TRUE, FALSE)  BY <4>2 DEF PendNeed
      <4>4. LossNeed("none", "done")  BY <2>1, <4>1 DEF LossNeed, Follows
      <4> QED  BY <2>4, <3>2, <3>3, <4>3, <4>4, GuardControl
    <3>4. CASE Leaves(s, TRUE)
      <4>1. Moves(s, "none", "done", TRUE, FALSE, FALSE, FALSE) /\ fenced' = fenced
        BY <3>4 DEF Leaves, Only
      <4>2. PendNeed("none", "done", FALSE, FALSE)  BY DEF PendNeed
      <4>3. LossNeed("none", "done")
        BY <1>3, <2>1, <2>2, <3>1, <4>1 DEF LossNeed, Loss, LossShut
      <4> QED  BY <2>4, <3>2, <4>1, <4>2, <4>3, GuardControl
    <3> QED  BY <2>5, <3>3, <3>4
  <2>6. CASE Shuts(s, "lead", "led", "row2", TRUE, TRUE)
    <3>1. Moves(s, "lead", "row2", TRUE, TRUE, TRUE, TRUE) /\ fenced' = TRUE
      BY <2>6 DEF Shuts, Closing
    <3>2. RowMove("lead", "row2", TRUE) /\ RowNeed("lead", "row2", TRUE)
          /\ PendNeed("lead", "row2", TRUE, TRUE)
      BY <2>1, <2>2 DEF RowMove, RowNeed, PendNeed
    <3>3. LossNeed("lead", "row2")  BY <2>1, <3>1 DEF LossNeed
    <3> QED  BY <2>4, <3>1, <3>2, <3>3, GuardControl
  <2>7. CASE Shuts(s, "lead", "led", "hold", TRUE, FALSE)
    <3>1. Moves(s, "lead", "hold", TRUE, TRUE, TRUE, FALSE) /\ fenced' = TRUE
      BY <2>7 DEF Shuts, Closing
    <3>2. RowMove("lead", "hold", TRUE) /\ RowNeed("lead", "hold", TRUE)
          /\ PendNeed("lead", "hold", TRUE, TRUE)
      BY <2>1, <2>2 DEF RowMove, RowNeed, PendNeed
    <3>3. LossNeed("lead", "hold")  BY <2>1, <3>1 DEF LossNeed
    <3> QED  BY <2>4, <3>1, <3>2, <3>3, GuardControl
  <2>8. CASE Walks(s, "lead", "led", "row2", TRUE, TRUE)
    <3>1. Moves(s, "lead", "row2", TRUE, FALSE, FALSE, TRUE) /\ fenced' = fenced
          /\ CC' = [CC EXCEPT !.at = "row2"]
      BY <1>2, <2>8 DEF Walks, Only
    <3>2. CC'.late = CC.late  BY <1>4, <3>1 DEF Ats
    <3>3. RowMove("lead", "row2", TRUE) /\ RowNeed("lead", "row2", TRUE)
          /\ PendNeed("lead", "row2", FALSE, FALSE)
      BY <2>1, <2>2 DEF RowMove, RowNeed, PendNeed
    <3>4. LossNeed("lead", "row2")  BY <2>1, <2>3, <3>1, <3>2 DEF LossNeed
    <3> QED  BY <2>4, <3>1, <3>3, <3>4, GuardControl
  <2>9. Moves(s, "none", "done", TRUE, TRUE, FALSE, FALSE) \/ Leaves(s, TRUE) => Took(s)
    BY DEF Moves, Leaves
  <2> QED  BY <1>2, <2>1, <2>5, <2>6, <2>7, <2>8, <2>9
<1>9. CASE LeadHeld
  <2>1. Walks(s, "lead", "hold", "row2", FALSE, TRUE) /\ UNCHANGED <<row, lease, gate, work, lost>>
    BY <1>1, <1>9, LeadHeldMoves
  <2>2. Moves(s, "lead", "row2", FALSE, FALSE, FALSE, TRUE) /\ fenced' = fenced
        /\ CC' = [CC EXCEPT !.at = "row2"] /\ CC.op = "lead" /\ CC.at = "hold"
    BY <1>2, <2>1 DEF Walks, Only, At
  <2>3. CC'.late = CC.late  BY <1>4, <2>2 DEF Ats
  <2>4. Req(CC) = "none"  BY <2>2, NoReq
  <2>5. Fair(s, "lead", "row2", FALSE, TRUE)  BY <1>2, <2>4 DEF Fair, Wanted, Asks
  <2>6. RowMove("lead", "row2", FALSE) /\ RowNeed("lead", "row2", FALSE)
        /\ PendNeed("lead", "row2", FALSE, FALSE)
    BY <2>1, <2>2 DEF RowMove, RowNeed, PendNeed
  <2>7. LossNeed("lead", "row2")
    BY <1>3, <2>1, <2>2, <2>3 DEF LossNeed, Loss, LossLead
  <2> QED  BY <2>2, <2>5, <2>6, <2>7, GuardControl
<1>10. CASE LeadEnds
  <2>1. /\ At(s, "lead", "owned2") /\ UNCHANGED <<row, lease, work, lost>>
        /\ \/ Shuts(s, "lead", "owned2", "hold2", TRUE, FALSE)
           \/ ~Overtaken(s, TRUE) /\ Leaves(s, TRUE)
    BY <1>1, <1>10, LeadEndsMoves
  <2>2. CC.op = "lead" /\ CC.at = "owned2" /\ ~Turning /\ ~Behind
    BY <1>2, <2>1 DEF At, Turning, Behind
  <2>3. Agrees(row)  BY <1>3, <2>2 DEF Rows, RowsMain, Turned, Turn
  <2>4. Fair(s, "lead", "hold2", TRUE, FALSE) /\ Fair(s, "none", "done", TRUE, FALSE)  BY DEF Fair
  <2>5. CASE Shuts(s, "lead", "owned2", "hold2", TRUE, FALSE)
    <3>1. Moves(s, "lead", "hold2", TRUE, TRUE, TRUE, FALSE) /\ fenced' = TRUE
      BY <2>5 DEF Shuts, Closing
    <3>2. RowMove("lead", "hold2", TRUE) /\ RowNeed("lead", "hold2", TRUE)
          /\ PendNeed("lead", "hold2", TRUE, TRUE)
      BY <2>1, <2>2 DEF RowMove, RowNeed, PendNeed
    <3>3. LossNeed("lead", "hold2")  BY <2>1, <3>1 DEF LossNeed
    <3> QED  BY <2>4, <3>1, <3>2, <3>3, GuardControl
  <2>6. CASE ~Overtaken(s, TRUE) /\ Leaves(s, TRUE)
    <3>1. Moves(s, "none", "done", TRUE, FALSE, FALSE, FALSE) /\ fenced' = fenced
      BY <2>6 DEF Leaves, Only
    <3>2. lost /\ db.tracking => fenced
      <4> SUFFICES ASSUME lost, db.tracking, ~fenced PROVE FALSE  OBVIOUS
      <4>1. CC.late /\ lease = "lost"  BY <1>3, <2>2 DEF Loss, LossLead
      <4>2. db \in SyncStates  BY <1>1 DEF Types
      <4>3. row.role = "normal" /\ row.tracking  BY <2>3, <4>2 DEF Agrees, Follows, SyncStates
      <4> QED  BY <1>2, <2>6, <4>1, <4>3 DEF Overtaken
    <3>3. RowMove("none", "done", TRUE) /\ RowNeed("none", "done", TRUE)
          /\ PendNeed("none", "done", FALSE, FALSE)
      BY <2>1, <2>2 DEF RowMove, RowNeed, PendNeed
    <3>4. LossNeed("none", "done")  BY <2>1, <3>1, <3>2 DEF LossNeed
    <3> QED  BY <2>4, <3>1, <3>3, <3>4, GuardControl
  <2> QED  BY <2>1, <2>5, <2>6
<1> QED  BY <1>6, <1>7, <1>8, <1>9, <1>10

(* Taking the row, an opening, and a demotion's step to a follower.        *)
LEMMA GuardTurns ==
  ASSUME Base, Follows, Guard,
         \/ TakeRow("control")
         \/ \E acked \in BOOLEAN : Open(acked)
         \/ OpenRead \/ Acked \/ Demote \/ Demoted
  PROVE  Guard'
<1> DEFINE s == "control"
<1>1. Types /\ Shape /\ Mail /\ s \in Calls  BY Names DEF Base
<1>2. CC = call[s] /\ CC' = call'[s] /\ CC \in Flags  BY <1>1 DEF CC, Types
<1>3. Loss /\ Rows /\ Pend /\ (lost => lease = "lost")  BY DEF Guard, Loss, LossLease
<1>4. \A at \in Ats : [CC EXCEPT !.at = at].late = CC.late
  BY <1>2 DEF Flags
<1>5. CASE TakeRow(s)
  <2>1. /\ \/ Walks(s, CC.op, "row", "owned", TRUE, TRUE)
           \/ Walks(s, CC.op, "row2", "owned2", TRUE, TRUE)
        /\ row' = Head(back).row /\ UNCHANGED <<lease, gate, work, lost>>
    BY <1>1, <1>2, <1>5, TakeRowMoves
  <2>2. ASSUME NEW from \in {"row", "row2"}, NEW to \in {"owned", "owned2"},
               from = "row" <=> to = "owned", Walks(s, CC.op, from, to, TRUE, TRUE)
        PROVE  Guard'
    <3>1. /\ Moves(s, CC.op, to, TRUE, FALSE, FALSE, TRUE) /\ fenced' = fenced
          /\ CC.at = from /\ CC' = [CC EXCEPT !.at = to]
      BY <1>2, <2>2 DEF Walks, Only, At
    <3>2. CC'.late = CC.late  BY <1>4, <3>1 DEF Ats
    <3>3. Fair(s, CC.op, to, TRUE, TRUE)  BY <2>2 DEF Fair, Wanted, Asks
    <3>4. ~Turning  BY <3>1, <2>2 DEF Turning
    <3>5. RowMove(CC.op, to, TRUE) /\ RowNeed(CC.op, to, TRUE) /\ PendNeed(CC.op, to, FALSE, FALSE)
      BY <2>1, <3>4 DEF RowMove, RowNeed, PendNeed
    <3>6. LossNeed(CC.op, to)
      <4>1. lost /\ db.tracking /\ (CC.op # "lead" \/ to = "owned") => fenced
        BY <1>3, <2>2, <3>1 DEF Loss, LossShut
      <4>2. lost /\ CC.op = "lead" => fenced \/ CC.late  BY <1>3 DEF Loss, LossLead
      <4>3. CC.op = "open" /\ to = "owned" /\ ~CC.late => ~lost \/ ~db.tracking
        BY <1>3, <2>2, <3>1 DEF Loss, LossOpen
      <4> QED  BY <2>1, <2>2, <3>1, <3>2, <4>1, <4>2, <4>3 DEF LossNeed
    <3> QED  BY <3>1, <3>3, <3>5, <3>6, GuardControl
  <2> QED  BY <2>1, <2>2
<1>6. CASE \E acked \in BOOLEAN : Open(acked)
  <2>1. PICK acked \in BOOLEAN : Open(acked)  BY <1>6
  <2>2. /\ CC = Idle /\ Moves(s, "open", "row", FALSE, FALSE, FALSE, TRUE) /\ fenced' = fenced
        /\ lease = "master" /\ UNCHANGED <<row, lease, gate, work, lost>>
    BY <1>1, <1>2, <2>1, OpenMoves DEF Begins, Only
  <2>3. Fair(s, "open", "row", FALSE, TRUE)  BY <1>2, <2>2, IdleReq DEF Fair, Wanted, Asks
  <2>4. ~Turning /\ ~Behind  BY <2>2, IdleReq DEF Turning, Behind
  <2>5. RowMove("open", "row", FALSE) /\ RowNeed("open", "row", FALSE)
        /\ PendNeed("open", "row", FALSE, FALSE)
    BY <2>2, <2>4 DEF RowMove, RowNeed, PendNeed
  <2>6. LossNeed("open", "row")  BY <1>3, <2>2 DEF LossNeed
  <2> QED  BY <2>2, <2>3, <2>5, <2>6, GuardControl
<1>7. ASSUME NEW from \in {"owned", "ack"}, Lifts(s, "open", from, "seed", TRUE),
             row'.role = row.role, row'.tracking = row.tracking, ~CC.late, ~db.headPending,
             UNCHANGED <<lease, lost>>
      PROVE  Guard'
  <2>1. Moves(s, "open", "seed", TRUE, TRUE, FALSE, TRUE) /\ CC.op = "open" /\ CC.at = from
    BY <1>2, <1>7 DEF Lifts, At
  <2>2. Fair(s, "open", "seed", TRUE, TRUE)  BY DEF Fair, Wanted, Asks
  <2>3. RowMove("open", "seed", TRUE) /\ RowNeed("open", "seed", TRUE)
        /\ PendNeed("open", "seed", TRUE, FALSE)
    BY <1>7, <2>1 DEF RowMove, RowNeed, PendNeed, Behind, Turning
  <2>4. ~lost \/ ~db.tracking  BY <1>3, <1>7, <2>1 DEF Loss, LossOpen
  <2>5. LossNeed("open", "seed")  BY <1>7, <2>4 DEF LossNeed
  <2> QED  BY <2>1, <2>2, <2>3, <2>5, GuardControl
<1>8. ASSUME CC.op = "open", Leaves(s, TRUE), row'.role = row.role, row'.tracking = row.tracking,
             UNCHANGED <<lease, lost>>
      PROVE  Guard'
  <2>1. Plain(CC.op, CC.at) /\ Fair(s, "none", "done", TRUE, FALSE)  BY <1>8 DEF Plain, Fair
  <2> QED  BY <1>8, <2>1, GuardEnds
<1>9. CASE OpenRead
  <2>1. /\ CC.op = "open" /\ CC.at = "owned" /\ UNCHANGED <<row, lease, gate, work, lost>>
        /\ \/ Leaves(s, TRUE)
           \/ ~Refused /\ Walks(s, "open", "owned", "ack", TRUE, TRUE)
           \/ /\ ~Refused /\ ~CC.arg /\ Lifts(s, "open", "owned", "seed", TRUE)
    BY <1>1, <1>2, <1>9, OpenReadMoves DEF At
  <2>2. CASE Leaves(s, TRUE)  BY <1>8, <2>1, <2>2
  <2>3. CASE Walks(s, "open", "owned", "ack", TRUE, TRUE)
    <3>1. Plain("open", "owned") /\ Fair(s, "open", "ack", TRUE, TRUE)
      BY DEF Plain, Fair, Wanted, Asks
    <3> QED  BY <2>1, <2>3, <3>1, GuardWalks
  <2>4. CASE ~Refused /\ ~CC.arg /\ Lifts(s, "open", "owned", "seed", TRUE)
    <3>1. ~CC.late /\ ~row.headPending  BY <1>2, <2>4 DEF Refused
    <3>2. ~db.headPending  BY <1>3, <2>1, <3>1 DEF Rows, RowsOpen
    <3> QED  BY <1>7, <2>1, <2>4, <3>1, <3>2
  <2> QED  BY <2>1, <2>2, <2>3, <2>4
<1>10. CASE Acked
  <2>1. /\ CC.op = "open" /\ CC.at = "ack" /\ UNCHANGED <<lease, gate, work, lost>>
        /\ \/ row' = row /\ Leaves(s, TRUE)
           \/ /\ Head(back).said # "failed" /\ row' = [row EXCEPT !.headPending = FALSE]
              /\ Leaves(s, TRUE)
           \/ /\ Head(back).said # "failed" /\ row' = [row EXCEPT !.headPending = FALSE]
              /\ ~CC.late /\ Lifts(s, "open", "ack", "seed", TRUE)
    BY <1>1, <1>2, <1>10, AckedMoves DEF At
  <2>2. row \in SyncStates  BY <1>1 DEF Types
  <2>3. row'.role = row.role /\ row'.tracking = row.tracking  BY <2>1, <2>2 DEF SyncStates
  <2>4. CASE Leaves(s, TRUE)  BY <1>8, <2>1, <2>3, <2>4
  <2>5. CASE Head(back).said # "failed" /\ ~CC.late /\ Lifts(s, "open", "ack", "seed", TRUE)
    <3>1. Took(s)  BY <2>5 DEF Lifts, Moves
    <3>2. back \in Seq(Answers) /\ back # <<>>  BY <1>1, <3>1 DEF Types, Took
    <3>3. 1 \in 1..Len(back) /\ Head(back) = back[1] /\ back[1].from = s
      BY <3>1, <3>2 DEF Took
    <3>4. ~db.headPending  BY <1>3, <2>1, <2>5, <3>3 DEF Rows, RowsOpen
    <3> QED  BY <1>7, <2>1, <2>3, <2>5, <3>4
  <2> QED  BY <2>1, <2>4, <2>5
<1>11. CASE Demote
  <2>1. /\ CC = Idle /\ Moves(s, "demote", "told", FALSE, TRUE, TRUE, TRUE) /\ fenced' = TRUE
        /\ UNCHANGED <<row, lease, gate, work, lost>>
    BY <1>1, <1>2, <1>11, DemoteMoves DEF Closing
  <2>2. Fair(s, "demote", "told", FALSE, TRUE)  BY <1>2, <2>1, IdleReq DEF Fair, Wanted, Asks
  <2>3. ~Turning /\ ~Behind  BY <2>1, IdleReq DEF Turning, Behind
  <2>4. RowMove("demote", "told", FALSE) /\ RowNeed("demote", "told", FALSE)
        /\ PendNeed("demote", "told", TRUE, TRUE)
    BY <2>1, <2>3 DEF RowMove, RowNeed, PendNeed
  <2>5. LossNeed("demote", "told")  BY <2>1 DEF LossNeed
  <2> QED  BY <2>1, <2>2, <2>4, <2>5, GuardControl
<1>12. CASE Demoted
  <2>1. /\ CC.op = "demote" /\ CC.at = "told" /\ fenced' = fenced
        /\ Moves(s, "demote", "row", TRUE, FALSE, FALSE, TRUE)
        /\ UNCHANGED <<row, lease, gate, work, lost>>
    BY <1>1, <1>2, <1>12, DemotedMoves DEF Walks, At, Only
  <2>2. Fair(s, "demote", "row", TRUE, TRUE)  BY DEF Fair, Wanted, Asks
  <2>3. RowMove("demote", "row", TRUE) /\ RowNeed("demote", "row", TRUE)
        /\ PendNeed("demote", "row", FALSE, FALSE)
    BY <2>1 DEF RowMove, RowNeed, PendNeed
  <2>4. LossNeed("demote", "row")  BY <1>3, <2>1 DEF LossNeed, Loss, LossShut
  <2> QED  BY <2>1, <2>2, <2>3, <2>4, GuardControl
<1> QED  BY <1>5, <1>6, <1>9, <1>10, <1>11, <1>12

(* Every step of main keeps the guard.                                     *)
LEMMA GuardMain ==
  ASSUME Base, Follows, Guard, "leader" \notin Also, Main
  PROVE  Guard'
<1>1. CASE Stopped
  <2>1. UNCHANGED <<db, wfenced, wire, back, row, fenced, lease, call, lost>>
    BY <1>1 DEF Stopped
  <2>2. /\ CC' = CC /\ Turning' = Turning /\ Behind' = Behind /\ Gated' = Gated
        /\ \A k \in 1..Len(back) : Turn(k)' = Turn(k)
    BY <2>1 DEF CC, Turning, Behind, Gated, Turn
  <2>3. Turned' = Turned  BY <2>1, <2>2 DEF Turned
  <2>4. Rows'
    BY <2>1, <2>2, <2>3 DEF Guard, Rows, RowsBack, RowsMain, RowsDemote, RowsOpen, Agrees
  <2>5. Pend'
    BY <2>1, <2>2, <2>3 DEF Guard, Pend, Pending, Promoting, Guarded, Undone, Leads
  <2>6. Loss'
    BY <2>1, <2>2, <2>3 DEF Guard, Loss, LossLease, LossShut, LossLead, LossOpen
  <2> QED  BY <2>4, <2>5, <2>6 DEF Guard
<1>2. CASE \E s \in Calls : TakeRow(s) \/ HoldEnds(s) \/ JoinTold(s) \/ JoinRead(s)
  <2>1. PICK s \in Calls : TakeRow(s) \/ HoldEnds(s) \/ JoinTold(s) \/ JoinRead(s)  BY <1>2
  <2>2. CASE s = "control"  BY <2>1, <2>2, GuardTurns, GuardPasses
  <2>3. CASE s # "control"  BY <2>1, <2>3, GuardOthers
  <2> QED  BY <2>2, <2>3
<1>3. CASE \/ \E s \in Reports : LeaseRead(s)
           \/ \E s \in Reports, master \in BOOLEAN : SetLease(s, master)
  BY <1>3, GuardOthers
<1>4. CASE \/ \E newer \in BOOLEAN : Lead(newer)
           \/ LeadPosts \/ Led \/ LeadHeld \/ LeadEnds
           \/ \E acked \in BOOLEAN : Open(acked)
           \/ OpenRead \/ Acked \/ Seeded \/ ReleaseForRuns \/ RunAccounts \/ AttachHeld
  <2>1. CASE \/ \E newer \in BOOLEAN : Lead(newer)
             \/ LeadPosts \/ Led \/ LeadHeld \/ LeadEnds
    BY <2>1, GuardLead
  <2>2. CASE (\E acked \in BOOLEAN : Open(acked)) \/ OpenRead \/ Acked  BY <2>2, GuardTurns
  <2>3. CASE Seeded \/ ReleaseForRuns \/ RunAccounts \/ AttachHeld  BY <2>3, GuardPasses
  <2> QED  BY <1>4, <2>1, <2>2, <2>3
<1>5. CASE Demote \/ Demoted  BY <1>5, GuardTurns
<1>6. CASE DemoteHolds \/ LeaveJoin \/ FinishJoin \/ LeavePaused  BY <1>6, GuardPasses
<1>7. CASE BeginJoin \/ JoinHeld  BY <1>7, GuardOthers
<1> QED  BY <1>1, <1>2, <1>3, <1>4, <1>5, <1>6, <1>7 DEF Main

-----------------------------------------------------------------------------
(* A device that must not write says so.                                   *)

(* A device starts behind its fences, with no loss reported.               *)
LEMMA WokenGuard ==
  Woken /\ (db.headPending => db.role = "normal" /\ db.tracking /\ ~db.joining) => Guard
<1> SUFFICES ASSUME Woken, db.headPending => db.role = "normal" /\ db.tracking /\ ~db.joining
             PROVE  Guard
  OBVIOUS
<1>1. Rows /\ CC = Idle  BY WokenRows
<1>2. Pend  BY WokenPend
<1>3. ~lost  BY DEF Woken
<1>4. Loss  BY <1>3 DEF Loss, LossLease, LossShut, LossLead, LossOpen
<1> QED  BY <1>1, <1>2, <1>4 DEF Guard

(* A restart keeps a pending head behind the fences: a joining device,     *)
(* which may find a snapshot in place of its file, has none.               *)
LEMMA GuardRestart ==
  ASSUME Base, Follows, Guard, Restart
  PROVE  Guard'
<1>1. Woken'  BY RestartWoken
<1>2. db \in SyncStates  BY DEF Base, Types
<1>3. db.headPending => db.role = "normal" /\ db.tracking /\ ~db.joining
  BY DEF Guard, Pend, Pending
<1>4. db'.headPending => db'.role = "normal" /\ db'.tracking /\ ~db'.joining
  <2>1. CASE Boots(db)  BY <1>3, <2>1 DEF Boots
  <2>2. CASE db.joining /\ Boots([db EXCEPT !.role = "follower", !.tracking = FALSE, !.joining = FALSE])
    <3>1. ~db'.headPending  BY <1>2, <1>3, <2>2 DEF Boots, SyncStates
    <3> QED  BY <3>1
  <2> QED  BY <2>1, <2>2 DEF Restart
<1>5. Woken' /\ (db.headPending => db.role = "normal" /\ db.tracking /\ ~db.joining)' => Guard'
  BY WokenGuard, PTL
<1> QED  BY <1>1, <1>4, <1>5

\* The inductive invariant of the closed device.
ClosedInv == TypeInv /\ Guard

(* Every step keeps it.                                                    *)
LEMMA ClosedInvStep ==
  ASSUME "leader" \notin Also, ClosedInv, [Next]_vars
  PROVE  ClosedInv'
<1>1. TypeInv /\ Base /\ Follows /\ Guard  BY DEF ClosedInv, TypeInv
<1>2. TypeInv'  BY <1>1, TypeInvStep
<1>3. CASE Worker
  <2>1. Rows' /\ Pend' /\ Loss'
    BY <1>1, <1>3, RowsWorker, PendWorker, LossWorker DEF Guard
  <2> QED  BY <1>2, <2>1 DEF ClosedInv, Guard
<1>4. CASE Main  BY <1>1, <1>2, <1>4, GuardMain DEF ClosedInv
<1>5. CASE Restart  BY <1>1, <1>2, <1>5, GuardRestart DEF ClosedInv
<1>6. CASE UNCHANGED vars
  <2>1. UNCHANGED <<db, wfenced, wire, back, row, fenced, lease, call, lost>>
    BY <1>6 DEF vars
  <2>2. /\ CC' = CC /\ Turning' = Turning /\ Behind' = Behind /\ Gated' = Gated
        /\ \A k \in 1..Len(back) : Turn(k)' = Turn(k)
    BY <2>1 DEF CC, Turning, Behind, Gated, Turn
  <2>3. Turned' = Turned  BY <2>1, <2>2 DEF Turned
  <2>4. Rows'
    BY <1>1, <2>1, <2>2, <2>3 DEF Guard, Rows, RowsBack, RowsMain, RowsDemote, RowsOpen, Agrees
  <2>5. Pend'
    BY <1>1, <2>1, <2>2, <2>3 DEF Guard, Pend, Pending, Promoting, Guarded, Undone, Leads
  <2>6. Loss'
    BY <1>1, <2>1, <2>2, <2>3 DEF Guard, Loss, LossLease, LossShut, LossLead, LossOpen
  <2> QED  BY <1>2, <2>4, <2>5, <2>6 DEF ClosedInv, Guard
<1> QED  BY <1>3, <1>4, <1>5, <1>6, NextIs

(* Where a loss was reported, main's copy tracks as the row does, or the   *)
(* device is a follower.                                                   *)
LEMMA ClosedInvCloses == ASSUME ClosedInv PROVE StaysClosed
<1>1. Types /\ Follows /\ Rows /\ Pend /\ Loss  BY DEF ClosedInv, TypeInv, Base, Guard
<1>2. PendingStaysClosed  BY <1>1 DEF PendingStaysClosed, Pend, Pending, Refuses
<1>3. LossCloses
  <2> SUFFICES ASSUME lost, db.tracking, CC.op # "lead" PROVE Closed
    BY DEF LossCloses, CC
  <2>1. fenced  BY <1>1 DEF Loss, LossShut
  <2>2. db.role # "follower"  BY <1>1 DEF Follows
  <2>3. ~Turned /\ ~Behind  BY <1>1, <2>2 DEF Rows, RowsDemote, Turned, Turn, Turning, Behind
  <2>4. row.tracking  BY <1>1, <2>3 DEF Rows, RowsMain, Agrees
  <2> QED  BY <2>1, <2>4 DEF Closed, ReadOnly
<1> QED  BY <1>2, <1>3 DEF StaysClosed

(* A promoted device whose head no one acknowledged refuses writes, and a  *)
(* device whose lease was reported lost answers read-only, for any number  *)
(* of reports, calls, failures and restarts, also where a join overlaps a  *)
(* leave or an opening (promote.ts, setLease, fenceGen, overtakenSeed).    *)
(* It is a lone device or a follower that joins, not a tracking leader.    *)
THEOREM DeviceStaysClosed == "leader" \notin Also => (Spec => []StaysClosed)
<1> SUFFICES ASSUME "leader" \notin Also PROVE Spec => []StaysClosed  OBVIOUS
<1>1. Init => ClosedInv
  <2> SUFFICES ASSUME Init PROVE ClosedInv  OBVIOUS
  <2>1. Woken  BY InitWoken
  <2>2. ~db.headPending  BY DEF Init, Fresh
  <2>3. Base /\ Follows  BY <2>1, WokenBase DEF Woken
  <2> QED  BY <2>1, <2>2, <2>3, WokenGuard DEF ClosedInv, TypeInv
<1>2. ClosedInv /\ [Next]_vars => ClosedInv'  BY ClosedInvStep
<1>3. ClosedInv => StaysClosed  BY ClosedInvCloses
<1> QED  BY <1>1, <1>2, <1>3, PTL DEF Spec

-----------------------------------------------------------------------------
(* What a request does, and what the older rows have left behind.          *)

JJ == call["join"]
OnWire(op) == \E i \in 1..Len(wire) : wire[i].op = op

\* The worker took m and answered a: what became of sync_state.
Does(m, a) ==
  /\ m.op \in Asks /\ m.from \in Calls /\ wfenced' = wfenced
  /\ Replied(a) /\ a.from = m.from /\ a.row = db' /\ db' \in SyncStates
  /\ db'.joining <=> m.op = "joining" \/ (db.joining /\ m.op # "joined" /\ a.said # "promoted")
  /\ a.said = "promoted" => m.op = "lead"
  /\ \/ /\ a.said = "promoted" /\ db.role = "follower"
        /\ db'.role = "normal" /\ db'.tracking /\ db'.headPending
     \/ /\ m.op = "lead" /\ a.said \in {"seeded", "noop"} /\ db.role = "normal"
        /\ db'.role = db.role /\ db'.tracking /\ db'.headPending = db.headPending
     \/ /\ m.op = "demote" /\ a.said = "ok"
        /\ db'.role = "follower" /\ ~db'.tracking /\ ~db'.headPending
     \/ /\ m.op = "ack" /\ a.said \in {"ok", "failed"}
        /\ db'.role = db.role /\ db'.tracking = db.tracking
     \/ /\ m.op = "lead" /\ a.said = "failed"
        /\ db'.role = db.role /\ db'.tracking = db.tracking /\ db'.headPending = db.headPending
     \/ /\ m.op \in {"read", "joining", "joined"} /\ a.said = "ok"
        /\ db'.role = db.role /\ db'.tracking = db.tracking /\ db'.headPending = db.headPending

(* The worker's step: a post, or a request with what it does.              *)
LEMMA WorkerDoes ==
  ASSUME Base, Follows, Worker
  PROVE  Mains /\ \E m \in Messages : Drained(m) /\ (Fences(m) \/ \E a \in Answers : Does(m, a))
<1>1. Mains  BY WorkerSteps
<1>2. PICK m \in Messages : Drained(m) /\ (Fences(m) \/ Answering(m) \/ Failing(m))  BY WorkerSteps
<1>3. db \in SyncStates  BY DEF Base, Types
<1>4. CASE Answering(m)
  <2> DEFINE a == [from |-> m.from, row |-> db',
                   said |-> IF m.op = "lead" THEN LeadSaid(db) ELSE "ok"]
  <2>1. /\ a.from = m.from /\ a.row = db'
        /\ m.op = "lead" => a.said = LeadSaid(db)
        /\ m.op # "lead" => a.said = "ok"
    OBVIOUS
  <2>2. Replied(a) /\ m.op \in Asks /\ m.from \in Calls /\ db' = RowAfter(m.op, db) /\ wfenced' = wfenced
    BY <1>4 DEF Answering
  <2> HIDE DEF a
  <2>3. a \in Answers /\ db' \in SyncStates  BY <1>3, <2>2, RowAfterType DEF Replied
  <2>4. CASE m.op = "lead" /\ db.role = "follower"
    <3>0. RowAfter("lead", db) = LeadRow(db)  BY DEF RowAfter
    <3>1. db' = [role |-> "normal", tracking |-> TRUE, joining |-> FALSE, headPending |-> TRUE]
      BY <2>2, <2>4, <3>0 DEF LeadRow
    <3>2. a.said = "promoted"  BY <1>3, <2>1, <2>4 DEF LeadSaid, Follows, SyncStates
    <3>3. db'.role = "normal" /\ db'.tracking /\ db'.headPending /\ ~db'.joining  BY <3>1
    <3>4. Does(m, a)  BY <2>1, <2>2, <2>3, <2>4, <3>2, <3>3 DEF Does
    <3> QED  BY <1>1, <1>2, <2>3, <3>4
  <2>5. CASE m.op = "lead" /\ db.role # "follower"
    <3>1. db' = [db EXCEPT !.tracking = TRUE] /\ a.said \in {"seeded", "noop"}
      BY <2>1, <2>2, <2>5 DEF RowAfter, LeadRow, LeadSaid
    <3>2. db'.role = db.role /\ db'.tracking /\ db'.headPending = db.headPending
          /\ db'.joining = db.joining /\ db.role = "normal" /\ db.joining \in BOOLEAN
      BY <1>3, <2>5, <3>1 DEF SyncStates
    <3> QED  BY <1>2, <1>1, <2>1, <2>2, <2>3, <2>5, <3>1, <3>2 DEF Does
  <2>6. CASE m.op = "demote"
    <3>1. db' = [db EXCEPT !.role = "follower", !.tracking = FALSE, !.headPending = FALSE]
      BY <2>2, <2>6 DEF RowAfter, Demotion
    <3>2. db'.role = "follower" /\ ~db'.tracking /\ ~db'.headPending
          /\ db'.joining = db.joining /\ db.joining \in BOOLEAN
      BY <1>3, <3>1 DEF SyncStates
    <3> QED  BY <1>2, <1>1, <2>1, <2>2, <2>3, <2>6, <3>2 DEF Does
  <2>7. CASE m.op = "ack"
    <3>1. db' = [db EXCEPT !.headPending = FALSE]  BY <2>2, <2>7 DEF RowAfter
    <3>2. db'.role = db.role /\ db'.tracking = db.tracking
          /\ db'.joining = db.joining /\ db.joining \in BOOLEAN
      BY <1>3, <3>1 DEF SyncStates
    <3> QED  BY <1>2, <1>1, <2>1, <2>2, <2>3, <2>7, <3>2 DEF Does
  <2>8. CASE m.op \in {"read", "joining", "joined"}
    <3>1. /\ db'.role = db.role /\ db'.tracking = db.tracking /\ db'.headPending = db.headPending
          /\ db'.joining = (m.op = "joining" \/ (db.joining /\ m.op # "joined"))
          /\ db.joining \in BOOLEAN
      BY <1>3, <2>2, <2>8 DEF RowAfter, SyncStates
    <3> QED  BY <1>2, <1>1, <2>1, <2>2, <2>3, <2>8, <3>1 DEF Does
  <2> QED  BY <2>2, <2>4, <2>5, <2>6, <2>7, <2>8 DEF Asks
<1>5. CASE Failing(m)
  <2> DEFINE a == [from |-> m.from, row |-> db, said |-> "failed"]
  <2>1. a.from = m.from /\ a.row = db /\ a.said = "failed"  OBVIOUS
  <2>2. Replied(a) /\ m.op \in {"lead", "ack"} /\ m.from \in Calls /\ db' = db /\ wfenced' = wfenced
    BY <1>5 DEF Failing
  <2> HIDE DEF a
  <2>3. a \in Answers /\ db.joining \in BOOLEAN  BY <1>3, <2>2 DEF Replied, SyncStates
  <2> QED  BY <1>1, <1>2, <1>3, <2>1, <2>2, <2>3 DEF Does, Asks
<1> QED  BY <1>1, <1>2, <1>4, <1>5

-----------------------------------------------------------------------------
(* How the rows on their way follow each other.                            *)

\* A row that has left S has not come back: main's copy is the oldest, then
\* the answers, then sync_state.
Ordered(S) ==
  /\ db \in S => row \in S
  /\ \A k \in 1..Len(back) :
       /\ back[k].row \in S => row \in S
       /\ db \in S => back[k].row \in S
       /\ \A i \in 1..Len(back) : i < k /\ back[k].row \in S => back[i].row \in S
\* A lone device; a follower.
Lones == {r \in SyncStates : r.role = "normal" /\ ~r.tracking}
Followers == {r \in SyncStates : r.role = "follower"}

(* Main takes the oldest answer, or none.                                  *)
LEMMA OrderedMain ==
  ASSUME Types, NEW S, Ordered(S), db' = db, NEW d \in {0, 1}, Drops(d),
         (row' \in S <=> row \in S) \/ (d = 1 /\ row' = back[1].row)
  PROVE  Ordered(S)'
<1>1. back \in Seq(Answers) /\ Len(back) \in Nat  BY DEF Types
<1>2. Len(back') = Len(back) - d /\ \A k \in 1..Len(back') : k + d \in 1..Len(back) /\ back'[k] = back[k + d]
  BY DEF Drops
<1>3. db' \in S => row' \in S
  <2>1. CASE row' \in S <=> row \in S  BY <2>1 DEF Ordered
  <2>2. CASE d = 1 /\ row' = back[1].row
    <3>1. Len(back') \in Nat  BY DEF Drops
    <3>2. 1 \in 1..Len(back)  BY <1>1, <1>2, <2>2, <3>1
    <3> QED  BY <2>2, <3>2 DEF Ordered
  <2> QED  BY <2>1, <2>2
<1>4. ASSUME NEW k \in 1..Len(back')
      PROVE  /\ back'[k].row \in S => row' \in S
             /\ db' \in S => back'[k].row \in S
             /\ \A i \in 1..Len(back') : i < k /\ back'[k].row \in S => back'[i].row \in S
  <2>1. k + d \in 1..Len(back) /\ back'[k] = back[k + d]  BY <1>2
  <2>2. back'[k].row \in S => row' \in S
    <3>1. CASE row' \in S <=> row \in S  BY <2>1, <3>1 DEF Ordered
    <3>2. CASE d = 1 /\ row' = back[1].row
      <4>1. 1 \in 1..Len(back) /\ 1 < k + d  BY <1>1, <2>1, <3>2
      <4> QED  BY <2>1, <3>2, <4>1 DEF Ordered
    <3> QED  BY <3>1, <3>2
  <2>3. db' \in S => back'[k].row \in S  BY <2>1 DEF Ordered
  <2>4. ASSUME NEW i \in 1..Len(back'), i < k, back'[k].row \in S PROVE back'[i].row \in S
    <3>1. i + d \in 1..Len(back) /\ back'[i] = back[i + d] /\ i + d < k + d  BY <1>2, <2>4
    <3> QED  BY <2>1, <2>4, <3>1 DEF Ordered
  <2> QED  BY <2>2, <2>3, <2>4
<1> QED  BY <1>3, <1>4 DEF Ordered

(* The worker appends what it leaves in sync_state.                        *)
LEMMA OrderedWorker ==
  ASSUME Types, NEW S, Ordered(S), row' = row, db' \in S => db \in S,
         back' = back \/ \E a \in Answers : Replied(a) /\ a.row = db'
  PROVE  Ordered(S)'
<1>1. CASE back' = back
  <2>1. \A k \in 1..Len(back) : db' \in S => back[k].row \in S  BY DEF Ordered
  <2> QED  BY <1>1, <2>1 DEF Ordered
<1>2. CASE \E a \in Answers : Replied(a) /\ a.row = db'
  <2>1. PICK a : a \in Answers /\ Replied(a) /\ a.row = db'  BY <1>2
  <2>2. PICK n \in Nat : n = Len(back')  BY <2>1 DEF Replied
  <2>3. /\ Len(back) \in Nat /\ n = Len(back) + 1 /\ n \in 1..n /\ back'[n] = a
        /\ \A k \in 1..Len(back) : k \in 1..n /\ back'[k] = back[k]
        /\ \A k \in 1..n : k \in 1..Len(back) \/ k = n
    BY <2>1, <2>2 DEF Replied
  <2>4. db' \in S => row' \in S  BY DEF Ordered
  <2>5. ASSUME NEW k \in 1..n
        PROVE  /\ back'[k].row \in S => row' \in S
               /\ db' \in S => back'[k].row \in S
               /\ \A i \in 1..n : i < k /\ back'[k].row \in S => back'[i].row \in S
    <3>1. CASE k \in 1..Len(back)
      <4>1. ASSUME NEW i \in 1..n, i < k PROVE i \in 1..Len(back)  BY <2>3, <3>1, <4>1
      <4> QED  BY <2>3, <3>1, <4>1 DEF Ordered
    <3>2. CASE k = n
      <4>1. ASSUME NEW i \in 1..n, i < k PROVE i \in 1..Len(back)  BY <2>3, <3>2, <4>1
      <4> QED  BY <2>1, <2>3, <2>4, <3>2, <4>1 DEF Ordered
    <3> QED  BY <2>3, <3>1, <3>2
  <2> QED  BY <2>2, <2>4, <2>5 DEF Ordered
<1> QED  BY <1>1, <1>2

-----------------------------------------------------------------------------
(* What main's moves do to the answers, and the rows of a promotion.       *)

\* Main takes the first d answers, of call s.
Taking(s, took, d) ==
  /\ Drops(d) /\ (took <=> d = 1) /\ Len(back') = Len(back) - d /\ Len(back') \in Nat
  /\ \A k \in 1..Len(back') : k + d \in 1..Len(back) /\ back'[k] = back[k + d]
  /\ took => 1 \in 1..Len(back) /\ Head(back) = back[1] /\ back[1].from = s
             /\ back[1] \in Answers

(* Main takes the first answer of the call that moves, or none.            *)
LEMMA MovesDrops ==
  ASSUME Types, NEW s \in Calls, NEW op, NEW at, NEW took \in BOOLEAN,
         NEW posts \in BOOLEAN, NEW on \in BOOLEAN, NEW asks \in BOOLEAN,
         Moves(s, op, at, took, posts, on, asks)
  PROVE  /\ db' = db /\ wfenced' = wfenced /\ back \in Seq(Answers) /\ Len(back) \in Nat
         /\ \E d \in {0, 1} : Taking(s, took, d)
         /\ call'[s].op = op /\ call'[s].at = at
         /\ \A t \in Calls \ {s} : call'[t].op = call[t].op /\ call'[t].at = call[t].at
<1>1. back \in Seq(Answers) /\ Len(back) \in Nat  BY DEF Types
<1>2. IF took THEN Took(s) ELSE back' = back  BY DEF Moves
<1>3. /\ Drops(IF took THEN 1 ELSE 0)
      /\ took => 1 \in 1..Len(back) /\ Head(back) = back[1] /\ back[1].from = s
                 /\ back[1] \in Answers
  BY <1>1, <1>2, Backs
<1>4. PICK d \in {0, 1} : Drops(d) /\ (took <=> d = 1)
  <2>1. CASE took  BY <1>3, <2>1
  <2>2. CASE ~took  BY <1>3, <2>2
  <2> QED  BY <2>1, <2>2
<1>5. Len(back') = Len(back) - d /\ Len(back') \in Nat
      /\ \A k \in 1..Len(back') : k + d \in 1..Len(back) /\ back'[k] = back[k + d]
  BY <1>4 DEF Drops
<1>6. /\ call'[s].op = op /\ call'[s].at = at
      /\ \A t \in Calls \ {s} : call'[t].op = call[t].op /\ call'[t].at = call[t].at
  BY DEF Moves, Steps
<1>7. Taking(s, took, d)  BY <1>3, <1>4, <1>5 DEF Taking
<1> QED  BY <1>1, <1>6, <1>7 DEF Moves

\* While a promotion runs: followers come first; a device that no longer is
\* one, but was when the promotion began, has its head pending; and a
\* promotion that was answered left a row that tracks.
Leading ==
  CC.op = "lead" =>
    /\ Ordered(Followers)
    /\ db.role # "follower" /\ ~db.headPending =>
         row.role # "follower" /\ \A k \in 1..Len(back) : back[k].row.role # "follower"
    /\ CC.at \in {"hold", "row2", "owned2", "hold2"} => db.tracking
    /\ CC.at = "led" => \A k \in 1..Len(back) : back[k].from = "control" =>
         (back[k].said # "failed" => db.tracking) /\ (back[k].said = "promoted" => db.headPending)
\* A join is finished by a follower.
Finishing == CC.op = "finish" => row.role = "follower"

\* Main's copy stays as it was, or is the answer that was taken.
RowTakes(took) == took /\ row' = Head(back).row
RowKeeps == row'.role = row.role /\ row'.tracking = row.tracking /\ row'.joining = row.joining
\* What they need of a move.
LeadNeed(s, op, at, took) ==
  s = "control" =>
    /\ op = "lead" =>
         \/ CC.op = "none" /\ at = "row"
         \/ /\ CC.op = "lead"
            /\ at \in {"hold", "row2", "owned2", "hold2"} =>
                 CC.at \in {"hold", "row2", "owned2"}
                   \/ (CC.at = "led" /\ took /\ Head(back).said # "failed")
    /\ op = "finish" => row.role = "follower" /\ (CC.op = "finish" \/ row' = row)

(* Nothing turns the role: main's copy and the answers agree with it.      *)
LEMMA AllAgree ==
  ASSUME Rows, ~Turned, ~Behind
  PROVE  Agrees(row) /\ \A k \in 1..Len(back) : Agrees(back[k].row)
BY DEF Rows, RowsMain, RowsBack, Turned

(* Rows of one role and of one tracking are in the same of both sets.      *)
LEMMA SameSets ==
  ASSUME NEW r \in SyncStates, NEW q \in SyncStates, r.role = q.role, r.tracking = q.tracking
  PROVE  (r \in Followers <=> q \in Followers) /\ (r \in Lones <=> q \in Lones)
BY DEF Followers, Lones

(* Who is in them.                                                         *)
LEMMA InSets ==
  ASSUME NEW r \in SyncStates
  PROVE  /\ r \in Followers <=> r.role = "follower"
         /\ r \in Lones <=> r.role = "normal" /\ ~r.tracking
BY DEF Followers, Lones

(* Main's moves keep them.                                                 *)
LEMMA LeadingMoves ==
  ASSUME Base, Rows, Leading, Finishing, Ordered(Lones),
         NEW s \in Calls, NEW op, NEW at, NEW took \in BOOLEAN,
         NEW posts \in BOOLEAN, NEW on \in BOOLEAN, NEW asks \in BOOLEAN,
         Moves(s, op, at, took, posts, on, asks), Fair(s, op, at, took, asks),
         RowKeeps \/ RowTakes(took), row' \in SyncStates, LeadNeed(s, op, at, took)
  PROVE  Leading' /\ Finishing' /\ Ordered(Lones)'
<1>1. Types /\ Mail /\ "control" \in Calls  BY Names DEF Base
<1>2. /\ db' = db /\ back \in Seq(Answers) /\ Len(back) \in Nat
      /\ call'[s].op = op /\ call'[s].at = at
      /\ \A t \in Calls \ {s} : call'[t].op = call[t].op /\ call'[t].at = call[t].at
  BY <1>1, MovesDrops
<1>11. PICK d \in {0, 1} : Taking(s, took, d)  BY <1>1, MovesDrops
<1>3. /\ Drops(d) /\ (took <=> d = 1) /\ Len(back') = Len(back) - d /\ Len(back') \in Nat
      /\ \A k \in 1..Len(back') : k + d \in 1..Len(back) /\ back'[k] = back[k + d]
      /\ took => 1 \in 1..Len(back) /\ Head(back) = back[1] /\ back[1].from = s
                 /\ back[1] \in Answers
  BY <1>11 DEF Taking
<1>4. row \in SyncStates /\ db \in SyncStates /\ \A k \in 1..Len(back) : back[k].row \in SyncStates
  <2>1. \A k \in 1..Len(back) : back[k] \in Answers  BY <1>2
  <2> QED  BY <1>1, <2>1 DEF Types, Answers
<1>5. \/ (row' \in Lones <=> row \in Lones) /\ (row' \in Followers <=> row \in Followers)
         /\ row'.role = row.role
      \/ d = 1 /\ row' = back[1].row
  BY <1>3, <1>4, SameSets DEF RowKeeps, RowTakes
<1>6. Ordered(Lones)'  BY <1>1, <1>2, <1>3, <1>5, OrderedMain
<1>7. s # "control" => CC'.op = CC.op /\ CC'.at = CC.at  BY <1>1, <1>2 DEF CC
<1>8. s = "control" => CC'.op = op /\ CC'.at = at /\ \A k \in 1..Len(back') : back'[k].from # "control"
  <2> SUFFICES ASSUME s = "control"
               PROVE  CC'.op = op /\ CC'.at = at /\ \A k \in 1..Len(back') : back'[k].from # "control"
    OBVIOUS
  <2>1. NoneOf(s, wire, back')  BY <1>1, MovesAlone DEF Fair, Moves
  <2> QED  BY <1>2, <2>1 DEF NoneOf, CC
<1>9. Leading'
  <2> SUFFICES ASSUME CC'.op = "lead"
               PROVE  /\ Ordered(Followers)'
                      /\ db.role # "follower" /\ ~db.headPending =>
                           row'.role # "follower" /\ \A k \in 1..Len(back') : back'[k].row.role # "follower"
                      /\ CC'.at \in {"hold", "row2", "owned2", "hold2"} => db.tracking
                      /\ CC'.at = "led" => \A k \in 1..Len(back') : back'[k].from = "control" =>
                           (back'[k].said # "failed" => db.tracking)
                           /\ (back'[k].said = "promoted" => db.headPending)
    BY <1>2 DEF Leading
  <2>1. /\ Ordered(Followers)
        /\ db.role # "follower" /\ ~db.headPending =>
             row.role # "follower" /\ \A k \in 1..Len(back) : back[k].row.role # "follower"
    <3>1. CASE CC.op = "lead"  BY <3>1 DEF Leading
    <3>2. CASE CC.op = "none"
      <4>1. Agrees(row) /\ \A k \in 1..Len(back) : Agrees(back[k].row)
        BY <3>2, AllAgree DEF Turned, Turn, Turning, Behind
      <4>2. (db \in Followers <=> row \in Followers)
            /\ \A k \in 1..Len(back) : back[k].row \in Followers <=> row \in Followers
        BY <1>4, <4>1, SameSets DEF Agrees
      <4> QED  BY <4>1, <4>2 DEF Ordered, Agrees
    <3> QED  BY <1>7, <1>8, <3>1, <3>2 DEF LeadNeed
  <2>2. Ordered(Followers)'  BY <1>1, <1>2, <1>3, <1>5, <2>1, OrderedMain
  <2>3. db.role # "follower" /\ ~db.headPending =>
          row'.role # "follower" /\ \A k \in 1..Len(back') : back'[k].row.role # "follower"
    BY <1>3, <1>5, <2>1
  <2>4. CASE s # "control"
    <3>1. CC.op = "lead" /\ CC'.at = CC.at  BY <1>7, <2>4
    <3> QED  BY <1>3, <2>2, <2>3, <3>1 DEF Leading
  <2>5. CASE s = "control"
    <3>1. CC'.at \in {"hold", "row2", "owned2", "hold2"} => db.tracking
      <4> SUFFICES ASSUME CC'.at \in {"hold", "row2", "owned2", "hold2"} PROVE db.tracking  OBVIOUS
      <4>1. CC.op = "lead"
            /\ (\/ CC.at \in {"hold", "row2", "owned2"}
                \/ CC.at = "led" /\ took /\ Head(back).said # "failed")
        BY <1>8, <2>5 DEF LeadNeed
      <4> QED  BY <1>3, <2>5, <4>1 DEF Leading
    <3> QED  BY <1>8, <2>2, <2>3, <2>5, <3>1
  <2> QED  BY <2>4, <2>5
<1>10. Finishing'
  <2> SUFFICES ASSUME CC'.op = "finish" PROVE row'.role = "follower"  BY DEF Finishing
  <2>1. CASE row' = row
    BY <1>7, <1>8, <2>1 DEF Finishing, LeadNeed
  <2>2. CASE row'.role = row.role
    BY <1>7, <1>8, <2>2 DEF Finishing, LeadNeed
  <2>3. CASE RowTakes(took) /\ row' # row
    <3>1. CC.op = "finish" /\ row.role = "follower"
      BY <1>7, <1>8, <2>3 DEF Finishing, LeadNeed
    <3>2. Agrees(row) /\ \A k \in 1..Len(back) : Agrees(back[k].row)
      BY <3>1, AllAgree DEF Turned, Turn, Turning, Behind
    <3> QED  BY <1>3, <2>3, <3>1, <3>2 DEF RowTakes, Agrees
  <2> QED  BY <2>1, <2>2, <2>3 DEF RowKeeps
<1> QED  BY <1>6, <1>9, <1>10

(* The worker's step keeps them.                                           *)
LEMMA LeadingWorker ==
  ASSUME Base, Follows, Leading, Finishing, Ordered(Lones), Worker,
         CC.op = "lead" => JJ = Idle
  PROVE  Leading' /\ Finishing' /\ Ordered(Lones)'
<1>1. Types  BY DEF Base
<1>2. Mains  BY WorkerSteps
<1>3. PICK m \in Messages : Drained(m) /\ (Fences(m) \/ \E a \in Answers : Does(m, a))
  BY WorkerDoes
<1>4. row' = row /\ CC' = CC  BY <1>2 DEF Mains, CC
<1>5. Finishing'  BY <1>4 DEF Finishing
<1>6. CASE Fences(m)
  <2>1. db' = db /\ back' = back  BY <1>6 DEF Fences
  <2>2. Ordered(Lones)'  BY <1>4, <2>1 DEF Ordered
  <2>3. Leading'  BY <1>4, <2>1 DEF Leading, Ordered
  <2> QED  BY <1>5, <2>2, <2>3
<1>7. CASE \E a \in Answers : Does(m, a)
  <2>1. PICK a : a \in Answers /\ Does(m, a)  BY <1>7
  <2>2. db \in SyncStates /\ db' \in SyncStates /\ Replied(a) /\ a.row = db' /\ a.from = m.from
    BY <1>1, <2>1 DEF Types, Does
  <2>3. /\ m.op \in Asks /\ m.op = Req(call[m.from])
        /\ m.op = "demote" => CC.op = "demote"
        /\ m.op = "ack" => CC.op = "open"
        /\ m.op = "lead" => m.from = "control" /\ CC.at = "led"
    BY <1>3, <2>1, TakenFrom DEF Does
  <2>4. db' \in Lones => db \in Lones
    BY <2>1, <2>2, InSets DEF Does
  <2>0. \E b \in Answers : Replied(b) /\ b.row = db'  BY <2>1, <2>2
  <2>5. Ordered(Lones)'
    <3> DEFINE S == Lones
    <3>1. Ordered(S) /\ (db' \in S => db \in S)  BY <2>4
    <3> HIDE DEF S
    <3>2. Ordered(S)'  BY <1>1, <1>4, <2>0, <3>1, OrderedWorker
    <3> QED  BY <3>2 DEF S
  <2>6. Leading'
    <3> SUFFICES ASSUME CC.op = "lead"
                 PROVE  /\ Ordered(Followers)'
                        /\ db'.role # "follower" /\ ~db'.headPending =>
                             row.role # "follower" /\ \A k \in 1..Len(back') : back'[k].row.role # "follower"
                        /\ CC.at \in {"hold", "row2", "owned2", "hold2"} => db'.tracking
                        /\ CC.at = "led" => \A k \in 1..Len(back') : back'[k].from = "control" =>
                             (back'[k].said # "failed" => db'.tracking)
                             /\ (back'[k].said = "promoted" => db'.headPending)
      BY <1>4 DEF Leading
    <3>1. m.op \notin {"demote", "ack"}  BY <2>3
    <3>2. /\ db'.role = "follower" => db.role = "follower"
          /\ db.tracking => db'.tracking
          /\ db'.role # "follower" /\ ~db'.headPending => db.role # "follower" /\ ~db.headPending
          /\ m.op = "lead" /\ a.said # "failed" => db'.tracking
          /\ a.said = "promoted" => db'.headPending
          /\ db.headPending => db'.headPending
      BY <2>1, <2>2, <3>1 DEF Does, Follows
    <3>3. Ordered(Followers)'
      <4>1. db' \in Followers => db \in Followers  BY <2>2, <3>2, InSets
      <4>2. Ordered(Followers)  BY DEF Leading
      <4> QED  BY <1>1, <1>4, <2>0, <4>1, <4>2, OrderedWorker
    <3>4. PICK n \in Nat : n = Len(back')  BY <2>2 DEF Replied
    <3>5. /\ Len(back) \in Nat /\ n = Len(back) + 1 /\ n \in 1..n /\ back'[n] = a
          /\ \A k \in 1..Len(back) : k \in 1..n /\ back'[k] = back[k]
          /\ \A k \in 1..n : k \in 1..Len(back) \/ k = n
      BY <2>2, <3>4 DEF Replied
    <3>6. db'.role # "follower" /\ ~db'.headPending =>
            row.role # "follower" /\ \A k \in 1..n : back'[k].row.role # "follower"
      BY <2>2, <3>2, <3>5 DEF Leading
    <3>7. CC.at \in {"hold", "row2", "owned2", "hold2"} => db'.tracking
      BY <3>2 DEF Leading
    <3>8. CC.at = "led" => \A k \in 1..n : back'[k].from = "control" =>
            (back'[k].said # "failed" => db'.tracking) /\ (back'[k].said = "promoted" => db'.headPending)
      <4> SUFFICES ASSUME CC.at = "led", NEW k \in 1..n, back'[k].from = "control"
                   PROVE  (back'[k].said # "failed" => db'.tracking)
                          /\ (back'[k].said = "promoted" => db'.headPending)
        OBVIOUS
      <4>1. CASE k \in 1..Len(back)  BY <3>2, <3>5, <4>1 DEF Leading
      <4>2. CASE k = n
        <5>1. m.from = "control" /\ m.op = "lead"
          BY <2>2, <2>3, <3>5, <4>2 DEF Req, Wanted, CC
        <5> QED  BY <3>2, <3>5, <4>2, <5>1
      <4> QED  BY <3>5, <4>1, <4>2
    <3> QED  BY <3>3, <3>4, <3>6, <3>7, <3>8
  <2> QED  BY <1>5, <2>5, <2>6
<1> QED  BY <1>3, <1>6, <1>7

-----------------------------------------------------------------------------
(* Joins: one at a time, and what main knows of the joining bit.           *)

\* Answer k is the one that may have changed the joining bit.
Joining(c) == c.op \in {"begin", "leave", "finish"} /\ c.at = "told"
JoinTurn(k) ==
  \/ Joining(call[back[k].from])
  \/ /\ call[back[k].from].op = "lead" /\ call[back[k].from].at = "led"
     /\ back[k].said = "promoted"
JoinTurned == \E k \in 1..Len(back) : JoinTurn(k)
\* Main took that answer and has not read the row again.
JoinBehind ==
  \/ CC.op \in {"leave", "finish"} /\ CC.at = "row"
  \/ JJ.at = "row"
  \/ CC.op = "lead" /\ CC.at = "row2" /\ db.headPending

\* Answer k and main's copy have the bit of sync_state unless it changes later.
JoinBack ==
  \A k \in 1..Len(back) : (\A j \in 1..Len(back) : j > k => ~JoinTurn(j)) =>
    back[k].row.joining = db.joining
JoinMain == ~JoinTurned /\ ~JoinBehind => row.joining = db.joining

\* While a join is under way, control is idle or leaves it, and a leave tells
\* a join that has not begun to send.
Exclusive ==
  /\ JJ.op # "none" => CC.op \in {"none", "leave"}
  /\ CC.op = "leave" /\ JJ.at = "hold" => JJ.late
\* A join that no leave overtook joins, or what it found was not joining.
Unjoined ==
  CC.op # "leave" /\ JJ.at \in {"told", "row"} /\ ~OnWire("joining") /\ ~db.joining =>
    ~row.joining /\ \A k \in 1..Len(back) : ~back[k].row.joining
\* A leave speaks last of the join, and once it was answered no join is left.
LeaveTold ==
  CC.op = "leave" /\ CC.at = "told" =>
    /\ \A i, j \in 1..Len(wire) : wire[i].op = "joined" /\ i < j => wire[j].op # "joining"
    /\ \A k \in 1..Len(back) : back[k].from = "control" =>
         /\ ~db.joining /\ ~OnWire("joining")
         /\ \A i \in 1..Len(back) : k =< i => ~back[i].row.joining
LeaveGone ==
  CC.op = "leave" /\ CC.at # "told" =>
    /\ ~db.joining /\ ~OnWire("joining")
    /\ \A k \in 1..Len(back) : ~back[k].row.joining
    /\ CC.at # "row" => ~row.joining
\* An opening that goes on is of a device that does not join.
OpenClear == CC.op = "open" /\ CC.at \notin {"row", "owned"} => ~row.joining
Joins == JoinBack /\ JoinMain /\ Exclusive /\ Unjoined /\ LeaveTold /\ LeaveGone /\ OpenClear

\* What they need of a move.
BitNeed(s, op, at, took, asks) ==
  /\ \/ RowTakes(took)
     \/ RowKeeps /\ call[s].at \notin {"row", "row2"} /\ (took /\ JoinTurn(1) => JoinBehind')
  /\ asks /\ Wanted(op, at) = "joining" => s = "join" /\ CC.op # "leave"
  /\ s = "join" /\ at \in {"told", "row"} => JJ.at \in {"told", "row"} \/ (at = "told" /\ op = "begin" /\ asks)
  /\ s = "control" /\ CC.op = "leave" /\ op # "leave" => CC.at = "attach"
  /\ s = "control" /\ op = "leave" =>
       \/ CC.op = "none" /\ at = "told"
       \/ /\ CC.op = "leave" /\ at # "told"
          /\ CC.at = "told" => at = "row" /\ took
          /\ CC.at = "row" => RowTakes(took)
  /\ s = "control" /\ op = "open" /\ at \notin {"row", "owned"} =>
       ~row.joining /\ RowKeeps

(* What an answer holds.                                                   *)
LEMMA AnswerTypes ==
  ASSUME Types
  PROVE  /\ Len(back) \in Nat
         /\ \A k \in 1..Len(back) :
              back[k] \in Answers /\ back[k].from \in Calls /\ back[k].row \in SyncStates
<1>1. \A k \in 1..Len(back) : back[k] \in Answers  BY DEF Types
<1>2. Len(back) \in Nat  BY DEF Types
<1> QED  BY <1>1, <1>2 DEF Answers

(* A call that is of no kind is idle.                                      *)
LEMMA IdleOp ==
  ASSUME Shape, NEW s \in Calls
  PROVE  /\ call[s] = Idle <=> call[s].op = "none"
         /\ call[s] = Idle => call[s].at = "done"
<1>1. Placed(s, call[s])  BY DEF Shape
<1>2. "none" \notin MadeBy(s)  BY DEF MadeBy
<1> QED  BY <1>1, <1>2, IdleReq DEF Placed

(* While no join or leave is under way the bit agrees everywhere.          *)
LEMMA AllJoin ==
  ASSUME JoinBack, JoinMain, ~JoinTurned, ~JoinBehind
  PROVE  /\ row.joining = db.joining
         /\ \A k \in 1..Len(back) : back[k].row.joining = db.joining
BY DEF JoinBack, JoinMain, JoinTurned

(* In an opening nothing changes the bit.                                  *)
LEMMA OpenJoin ==
  ASSUME Base, Joins, CC.op = "open"
  PROVE  /\ JJ = Idle /\ ~OnWire("joining") /\ row.joining = db.joining
         /\ \A k \in 1..Len(back) : back[k].row.joining = db.joining
<1>1. Shape /\ Mail /\ "join" \in Calls /\ "control" \in Calls  BY Names DEF Base
<1>2. JJ = Idle /\ JJ.at = "done" /\ JJ.op = "none"  BY <1>1, IdleOp DEF Joins, Exclusive, JJ
<1>3. \A k \in 1..Len(back) : back[k].from \in Calls  BY AnswerTypes DEF Base
<1>4. ~JoinTurned
  <2> SUFFICES ASSUME NEW k \in 1..Len(back), JoinTurn(k) PROVE FALSE  BY DEF JoinTurned
  <2>1. Placed(back[k].from, call[back[k].from])  BY <1>1, <1>3 DEF Shape
  <2>2. back[k].from # "control" /\ back[k].from # "join"  BY <1>2 DEF JoinTurn, Joining, CC, JJ
  <2>3. call[back[k].from].op \in {"none", "lease"}  BY <2>1, <2>2, IdleReq DEF Placed, MadeBy
  <2> QED  BY <2>3 DEF JoinTurn, Joining
<1>5. ~JoinBehind  BY <1>2 DEF JoinBehind
<1>6. ~OnWire("joining")
  <2> SUFFICES ASSUME NEW i \in 1..Len(wire), wire[i].op = "joining" PROVE FALSE  BY DEF OnWire
  <2>1. wire[i].from \in Calls /\ Req(call[wire[i].from]) = "joining"  BY <1>1 DEF Mail
  <2> QED  BY <1>1, <1>2, <2>1, Askers DEF JJ
<1> QED  BY <1>2, <1>4, <1>5, <1>6, AllJoin DEF Joins

(* A move's answers turn what they turned.                                 *)
LEMMA JoinTurns ==
  ASSUME Base, NEW s \in Calls, NEW op, NEW at, NEW took \in BOOLEAN,
         NEW posts \in BOOLEAN, NEW on \in BOOLEAN, NEW asks \in BOOLEAN,
         Moves(s, op, at, took, posts, on, asks), Fair(s, op, at, took, asks)
  PROVE  \E d \in {0, 1} :
           /\ Taking(s, took, d)
           /\ \A k \in 1..Len(back') : JoinTurn(k)' = JoinTurn(k + d)
<1>1. Types /\ Mail  BY DEF Base
<1>2. PICK d \in {0, 1} : Taking(s, took, d)  BY <1>1, MovesDrops
<1>3. \A t \in Calls \ {s} : call'[t].op = call[t].op /\ call'[t].at = call[t].at
  BY <1>1, MovesDrops
<1>4. \A k \in 1..Len(back) : back[k].from \in Calls  BY <1>1, AnswerTypes
<1>5. \A k \in 1..Len(back') : back'[k].from # s
  <2>1. NoneOf(s, wire, back')  BY <1>1, MovesAlone DEF Fair, Moves
  <2> QED  BY <2>1 DEF NoneOf
<1>6. \A k \in 1..Len(back') : JoinTurn(k)' = JoinTurn(k + d)
  <2> SUFFICES ASSUME NEW k \in 1..Len(back') PROVE JoinTurn(k)' = JoinTurn(k + d)  OBVIOUS
  <2>1. back'[k].from \in Calls \ {s} /\ back'[k] = back[k + d]  BY <1>2, <1>4, <1>5 DEF Taking
  <2> QED  BY <1>3, <2>1 DEF JoinTurn, Joining
<1> QED  BY <1>2, <1>6

(* Main's moves keep the bit.                                              *)
LEMMA JoinRowsMoves ==
  ASSUME Base, JoinBack, JoinMain, NEW s \in Calls, NEW op, NEW at, NEW took \in BOOLEAN,
         NEW posts \in BOOLEAN, NEW on \in BOOLEAN, NEW asks \in BOOLEAN,
         Moves(s, op, at, took, posts, on, asks), Fair(s, op, at, took, asks),
         BitNeed(s, op, at, took, asks)
  PROVE  JoinBack' /\ JoinMain'
<1>1. Types /\ Mail /\ "control" \in Calls /\ "join" \in Calls  BY Names DEF Base
<1>2. /\ db' = db /\ back \in Seq(Answers) /\ Len(back) \in Nat
      /\ call'[s].op = op /\ call'[s].at = at
      /\ \A t \in Calls \ {s} : call'[t].op = call[t].op /\ call'[t].at = call[t].at
  BY <1>1, MovesDrops
<1>7. PICK d \in {0, 1} :
         /\ Taking(s, took, d)
         /\ \A k \in 1..Len(back') : JoinTurn(k)' = JoinTurn(k + d)
  BY JoinTurns
<1>3. /\ Drops(d) /\ (took <=> d = 1) /\ Len(back') = Len(back) - d /\ Len(back') \in Nat
      /\ \A k \in 1..Len(back') : k + d \in 1..Len(back) /\ back'[k] = back[k + d]
      /\ took => 1 \in 1..Len(back) /\ Head(back) = back[1] /\ back[1].from = s
                 /\ back[1] \in Answers
  BY <1>7 DEF Taking
<1>4. \A k \in 1..Len(back') : JoinTurn(k)' = JoinTurn(k + d)  BY <1>7
<1>5. JoinBack'
  <2> SUFFICES ASSUME NEW k \in 1..Len(back'), \A j \in 1..Len(back') : j > k => ~JoinTurn(j)'
               PROVE  back'[k].row.joining = db.joining
    BY <1>2 DEF JoinBack
  <2>1. k + d \in 1..Len(back) /\ back'[k] = back[k + d]  BY <1>3
  <2>2. \A j \in 1..Len(back) : j > k + d => ~JoinTurn(j)
    <3> SUFFICES ASSUME NEW j \in 1..Len(back), j > k + d PROVE ~JoinTurn(j)  OBVIOUS
    <3>1. j - d \in 1..Len(back') /\ j - d > k /\ (j - d) + d = j  BY <1>2, <1>3
    <3> QED  BY <1>4, <3>1
  <2> QED  BY <2>1, <2>2 DEF JoinBack
<1>6. JoinMain'
  <2> SUFFICES ASSUME ~JoinTurned', ~JoinBehind' PROVE row'.joining = db.joining
    BY <1>2 DEF JoinMain
  <2>1. \A j \in 1..Len(back) : j > d => ~JoinTurn(j)
    <3> SUFFICES ASSUME NEW j \in 1..Len(back), j > d PROVE ~JoinTurn(j)  OBVIOUS
    <3>1. j - d \in 1..Len(back') /\ (j - d) + d = j  BY <1>2, <1>3
    <3>2. ~JoinTurn(j - d)'  BY <3>1 DEF JoinTurned
    <3> QED  BY <1>4, <3>1, <3>2
  <2>2. CASE RowTakes(took)
    <3>1. back[1].row.joining = db.joining  BY <1>3, <2>1, <2>2 DEF JoinBack, RowTakes
    <3> QED  BY <1>3, <2>2, <3>1 DEF RowTakes
  <2>3. CASE RowKeeps /\ call[s].at \notin {"row", "row2"} /\ (took /\ JoinTurn(1) => JoinBehind')
    <3>1. ~JoinTurned
      <4> SUFFICES ASSUME NEW j \in 1..Len(back), JoinTurn(j) PROVE FALSE  BY DEF JoinTurned
      <4>1. d = 1 /\ j = 1  BY <1>2, <2>1
      <4> QED  BY <1>3, <2>3, <4>1
    <3>2. ~JoinBehind
      <4>1. s # "control" => CC'.op = CC.op /\ CC'.at = CC.at  BY <1>1, <1>2 DEF CC
      <4>2. s # "join" => JJ'.at = JJ.at  BY <1>1, <1>2 DEF JJ
      <4>3. s = "control" => CC.at \notin {"row", "row2"}  BY <2>3 DEF CC
      <4>4. s = "join" => JJ.at # "row"  BY <2>3 DEF JJ
      <4> QED  BY <1>2, <4>1, <4>2, <4>3, <4>4 DEF JoinBehind
    <3> QED  BY <2>3, <3>1, <3>2 DEF JoinMain, RowKeeps
  <2> QED  BY <2>2, <2>3 DEF BitNeed
<1> QED  BY <1>5, <1>6

\* What a move leaves and puts on the wire: a request is never a fence.
Wiring(op, at, posts, on, asks) ==
  /\ Len(wire) \in Nat /\ Len(wire') \in Nat /\ Len(wire) =< Len(wire')
  /\ \A i \in 1..Len(wire) : i \in 1..Len(wire') /\ wire'[i] = wire[i]
  /\ asks => Len(wire') > Len(wire) /\ wire'[Len(wire')].op = Wanted(op, at)
  /\ posts => Len(wire) + 1 \in 1..Len(wire') /\ wire'[Len(wire) + 1] = Post(on)
  /\ posts /\ asks => Len(wire') = Len(wire) + 2
  /\ posts /\ ~asks => Len(wire') = Len(wire) + 1
  /\ ~posts /\ asks => Len(wire') = Len(wire) + 1
  /\ \A i \in 1..Len(wire') :
       \/ i \in 1..Len(wire) /\ wire'[i] = wire[i]
       \/ posts /\ i = Len(wire) + 1 /\ wire'[i] = Post(on)
       \/ /\ asks /\ i = Len(wire') /\ i > Len(wire)
          /\ wire'[i].op = Wanted(op, at)
  /\ \A o \in Asks : OnWire(o)' <=> OnWire(o) \/ (asks /\ Wanted(op, at) = o)

(* A move leaves what is on the wire and adds its post and its request.    *)
LEMMA WireMoves ==
  ASSUME Types, NEW s \in Calls, NEW op, NEW at, NEW took \in BOOLEAN,
         NEW posts \in BOOLEAN, NEW on \in BOOLEAN, NEW asks \in BOOLEAN,
         Moves(s, op, at, took, posts, on, asks)
  PROVE  Wiring(op, at, posts, on, asks)
<1> DEFINE m == [op |-> Wanted(op, at), from |-> s]
<1>1. Put(wire, wire', posts, Post(on), asks, m)  BY DEF Moves
<1>2. m.op = Wanted(op, at) /\ m.from = s  OBVIOUS
<1>3. wire \in Seq(Messages)  BY DEF Types
<1> HIDE DEF m
<1>4. /\ Len(wire) \in Nat /\ Len(wire') \in Nat /\ Len(wire) =< Len(wire')
      /\ \A i \in 1..Len(wire) : i \in 1..Len(wire') /\ wire'[i] = wire[i]
      /\ asks => Len(wire') > Len(wire) /\ wire'[Len(wire')] = m
      /\ \A i \in 1..Len(wire') :
           \/ i \in 1..Len(wire) /\ wire'[i] = wire[i]
           \/ posts /\ i = Len(wire) + 1 /\ wire'[i] = Post(on)
           \/ asks /\ i = Len(wire') /\ i > Len(wire) /\ wire'[i] = m
  BY <1>1, <1>3, PutItems
<1>6. /\ posts => Len(wire) + 1 \in 1..Len(wire') /\ wire'[Len(wire) + 1] = Post(on)
      /\ posts /\ asks => Len(wire') = Len(wire) + 2
      /\ posts /\ ~asks => Len(wire') = Len(wire) + 1
      /\ ~posts /\ asks => Len(wire') = Len(wire) + 1
  BY <1>1, <1>3, PutItems
<1>5. ASSUME NEW o \in Asks PROVE OnWire(o)' <=> OnWire(o) \/ (asks /\ Wanted(op, at) = o)
  <2>1. Post(on).op # o  BY DEF Post, Asks
  <2>2. asks => Len(wire') \in 1..Len(wire')  BY <1>4
  <2>3. ASSUME OnWire(o)' PROVE OnWire(o) \/ (asks /\ Wanted(op, at) = o)
    <3>1. PICK i : i \in 1..Len(wire') /\ wire'[i].op = o  BY <2>3 DEF OnWire
    <3> QED  BY <1>2, <1>4, <2>1, <3>1 DEF OnWire
  <2>4. ASSUME OnWire(o) \/ (asks /\ Wanted(op, at) = o) PROVE OnWire(o)'
    BY <1>2, <1>4, <2>2, <2>4 DEF OnWire
  <2> QED  BY <2>3, <2>4
<1> QED  BY <1>2, <1>4, <1>5, <1>6 DEF Wiring

(* Main's moves keep what is known of the joins.                           *)
LEMMA JoinsMoves ==
  ASSUME Base, Joins, NEW s \in Calls, NEW op, NEW at, NEW took \in BOOLEAN,
         NEW posts \in BOOLEAN, NEW on \in BOOLEAN, NEW asks \in BOOLEAN,
         Moves(s, op, at, took, posts, on, asks), Fair(s, op, at, took, asks),
         BitNeed(s, op, at, took, asks), Exclusive'
  PROVE  Joins'
<1>1. Types /\ Mail /\ Shape /\ "control" \in Calls /\ "join" \in Calls  BY Names DEF Base
<1>2. /\ db' = db /\ back \in Seq(Answers) /\ Len(back) \in Nat
      /\ call'[s].op = op /\ call'[s].at = at
      /\ \A t \in Calls \ {s} : call'[t].op = call[t].op /\ call'[t].at = call[t].at
  BY <1>1, MovesDrops
<1>17. PICK d \in {0, 1} : Taking(s, took, d)  BY <1>1, MovesDrops
<1>3. /\ (took <=> d = 1) /\ Len(back') = Len(back) - d /\ Len(back') \in Nat
      /\ \A k \in 1..Len(back') : k + d \in 1..Len(back) /\ back'[k] = back[k + d]
      /\ took => 1 \in 1..Len(back) /\ Head(back) = back[1] /\ back[1].from = s
  BY <1>17 DEF Taking
<1>4. \A k \in 1..Len(back') : back'[k].from # s
  <2>1. NoneOf(s, wire, back')  BY <1>1, MovesAlone DEF Fair, Moves
  <2> QED  BY <2>1 DEF NoneOf
<1>5. s # "control" => CC'.op = CC.op /\ CC'.at = CC.at  BY <1>1, <1>2 DEF CC
<1>6. s # "join" => JJ'.op = JJ.op /\ JJ'.at = JJ.at  BY <1>1, <1>2 DEF JJ
<1>7. s = "control" => CC'.op = op /\ CC'.at = at  BY <1>2 DEF CC
<1>8. s = "join" => JJ'.op = op /\ JJ'.at = at  BY <1>2 DEF JJ
<1>9. "joining" \in Asks /\ "joined" \in Asks  BY DEF Asks
<1>18. Wiring(op, at, posts, on, asks)  BY <1>1, WireMoves
<1>10. OnWire("joining")' <=> OnWire("joining") \/ (asks /\ Wanted(op, at) = "joining")
  BY <1>9, <1>18 DEF Wiring
<1>11. row'.joining = row.joining \/ (took /\ row' = back[1].row)
  BY <1>3 DEF BitNeed, RowKeeps, RowTakes
<1>12. JoinBack' /\ JoinMain'  BY JoinRowsMoves DEF Joins
<1>13. Unjoined'
  <2> SUFFICES ASSUME CC'.op # "leave", JJ'.at \in {"told", "row"}, ~OnWire("joining")', ~db.joining
               PROVE  ~row'.joining /\ \A k \in 1..Len(back') : ~back'[k].row.joining
    BY <1>2 DEF Unjoined
  <2>1. ~OnWire("joining")  BY <1>10
  <2>2. JJ.at \in {"told", "row"}
    <3>1. CASE s # "join"  BY <1>6, <3>1
    <3>2. CASE s = "join"
      <4>1. Wanted("begin", "told") = "joining"  BY DEF Wanted
      <4> QED  BY <1>8, <1>10, <3>2, <4>1 DEF BitNeed
    <3> QED  BY <3>1, <3>2
  <2>3. ~row.joining /\ \A k \in 1..Len(back) : ~back[k].row.joining
    <3>1. CASE CC.op # "leave"  BY <2>1, <2>2, <3>1 DEF Joins, Unjoined
    <3>2. CASE CC.op = "leave"
      <4>1. CC.at = "attach"  BY <1>5, <1>7, <3>2 DEF BitNeed
      <4> QED  BY <3>2, <4>1 DEF Joins, LeaveGone
    <3> QED  BY <3>1, <3>2
  <2> QED  BY <1>3, <1>11, <2>3
<1>14. LeaveTold'
  <2> SUFFICES ASSUME CC'.op = "leave", CC'.at = "told"
               PROVE  /\ \A i, j \in 1..Len(wire') : wire'[i].op = "joined" /\ i < j => wire'[j].op # "joining"
                      /\ \A k \in 1..Len(back') : back'[k].from = "control" =>
                           /\ ~db.joining /\ ~OnWire("joining")'
                           /\ \A i \in 1..Len(back') : k =< i => ~back'[i].row.joining
    BY <1>2 DEF LeaveTold
  <2>1. \/ s # "control" /\ CC.op = "leave" /\ CC.at = "told"
        \/ s = "control" /\ CC.op = "none" /\ at = "told" /\ op = "leave"
    BY <1>5, <1>7 DEF BitNeed
  <2>2. ~(asks /\ Wanted(op, at) = "joining")
    BY <2>1 DEF BitNeed
  <2>3. /\ Len(wire) \in Nat /\ Len(wire') \in Nat
        /\ \A i \in 1..Len(wire') :
              \/ i \in 1..Len(wire) /\ wire'[i] = wire[i]
              \/ posts /\ i = Len(wire) + 1 /\ wire'[i] = Post(on)
              \/ /\ asks /\ i = Len(wire') /\ i > Len(wire)
                 /\ wire'[i].op = Wanted(op, at)
    BY <1>18 DEF Wiring
  <2>4. Post(on).op \notin {"joining", "joined"}  BY DEF Post
  <2>5. ASSUME NEW i \in 1..Len(wire'), NEW j \in 1..Len(wire'), wire'[i].op = "joined", i < j,
               wire'[j].op = "joining"
        PROVE  FALSE
    <3>1. j \in 1..Len(wire) /\ wire[j].op = "joining"  BY <2>2, <2>3, <2>4, <2>5
    <3>2. i \in 1..Len(wire) /\ wire[i].op = "joined"  BY <2>3, <2>4, <2>5, <3>1
    <3>3. CASE s # "control"
      <4>1. CC.op = "leave" /\ CC.at = "told"  BY <2>1, <3>3
      <4> QED  BY <2>5, <3>1, <3>2, <4>1 DEF Joins, LeaveTold
    <3>4. CASE s = "control"
      <4>1. wire[i].from \in Calls /\ Req(call[wire[i].from]) = "joined"
        BY <1>1, <3>2 DEF Mail
      <4>2. CC.op \in {"leave", "finish"}  BY <1>1, <4>1, Askers
      <4> QED  BY <2>1, <3>4, <4>2
    <3> QED  BY <3>3, <3>4
  <2>6. ASSUME NEW k \in 1..Len(back'), back'[k].from = "control"
        PROVE  /\ ~db.joining /\ ~OnWire("joining")'
               /\ \A i \in 1..Len(back') : k =< i => ~back'[i].row.joining
    <3>1. CC.op = "leave" /\ CC.at = "told"  BY <1>4, <2>1, <2>6
    <3>2. k + d \in 1..Len(back) /\ back[k + d].from = "control"  BY <1>3, <2>6
    <3>3. /\ ~db.joining /\ ~OnWire("joining")
          /\ \A i \in 1..Len(back) : k + d =< i => ~back[i].row.joining
      BY <3>1, <3>2 DEF Joins, LeaveTold
    <3>4. ASSUME NEW i \in 1..Len(back'), k =< i PROVE ~back'[i].row.joining
      <4>1. i + d \in 1..Len(back) /\ back'[i] = back[i + d]  BY <1>3
      <4>2. k + d =< i + d
        <5>1. k \in Nat /\ i \in Nat /\ d \in Nat  BY <1>3
        <5> QED  BY <3>4, <5>1
      <4> QED  BY <3>3, <4>1, <4>2
    <3> QED  BY <1>10, <2>2, <3>3, <3>4
  <2> QED  BY <2>5, <2>6
<1>15. LeaveGone'
  <2> SUFFICES ASSUME CC'.op = "leave", CC'.at # "told"
               PROVE  /\ ~db.joining /\ ~OnWire("joining")'
                      /\ \A k \in 1..Len(back') : ~back'[k].row.joining
                      /\ CC'.at # "row" => ~row'.joining
    BY <1>2 DEF LeaveGone
  <2>1. CC.op = "leave"  BY <1>5, <1>7 DEF BitNeed
  <2>2. ~(asks /\ Wanted(op, at) = "joining")  BY <2>1 DEF BitNeed
  <2>3. CASE CC.at # "told"
    <3>1. /\ ~db.joining /\ ~OnWire("joining")
          /\ \A k \in 1..Len(back) : ~back[k].row.joining
          /\ CC.at # "row" => ~row.joining
      BY <2>1, <2>3 DEF Joins, LeaveGone
    <3>2. CC'.at # "row" => ~row'.joining
      <4>1. CASE CC.at # "row"  BY <1>3, <1>11, <3>1, <4>1
      <4>2. CASE CC.at = "row" /\ CC'.at # "row"
        <5>1. RowTakes(took)  BY <1>5, <1>7, <2>1, <4>2 DEF BitNeed
        <5> QED  BY <1>3, <3>1, <5>1 DEF RowTakes
      <4> QED  BY <4>1, <4>2
    <3> QED  BY <1>3, <1>10, <2>2, <3>1, <3>2
  <2>4. CASE CC.at = "told"
    <3>1. s = "control" /\ at = "row" /\ took /\ CC'.at = "row"  BY <1>5, <1>7, <2>1, <2>4 DEF BitNeed
    <3>2. 1 \in 1..Len(back) /\ back[1].from = "control"  BY <1>3, <3>1
    <3>3. /\ ~db.joining /\ ~OnWire("joining")
          /\ \A i \in 1..Len(back) : 1 =< i => ~back[i].row.joining
      BY <2>1, <2>4, <3>2 DEF Joins, LeaveTold
    <3> QED  BY <1>3, <1>10, <2>2, <3>1, <3>3
  <2> QED  BY <2>3, <2>4
<1>16. OpenClear'
  <2> SUFFICES ASSUME CC'.op = "open", CC'.at \notin {"row", "owned"} PROVE ~row'.joining
    BY DEF OpenClear
  <2>1. CASE s = "control"  BY <1>7, <2>1 DEF BitNeed, RowKeeps
  <2>2. CASE s # "control"
    <3>1. CC.op = "open" /\ CC.at \notin {"row", "owned"}  BY <1>5, <2>2
    <3>2. row.joining = db.joining /\ \A k \in 1..Len(back) : back[k].row.joining = db.joining
      BY <3>1, OpenJoin
    <3>3. ~row.joining  BY <3>1 DEF Joins, OpenClear
    <3> QED  BY <1>3, <1>11, <3>2, <3>3
  <2> QED  BY <2>1, <2>2
<1> QED  BY <1>12, <1>13, <1>14, <1>15, <1>16 DEF Joins

(* The worker's step keeps it.                                             *)
LEMMA JoinsWorker ==
  ASSUME Base, Follows, Joins, Worker
  PROVE  Joins'
<1>1. Types /\ Mail /\ Shape /\ "control" \in Calls /\ "join" \in Calls  BY Names DEF Base
<1>2. row' = row /\ CC' = CC /\ JJ' = JJ /\ call' = call  BY WorkerSteps DEF Mains, CC, JJ
<1>3. PICK m \in Messages : Drained(m) /\ (Fences(m) \/ \E a \in Answers : Does(m, a))
  BY WorkerDoes
<1>4. /\ Len(wire) \in Nat /\ Len(wire') = Len(wire) - 1 /\ 1 \in 1..Len(wire) /\ wire[1] = m
      /\ \A i \in 1..Len(wire') : i + 1 \in 1..Len(wire) /\ wire'[i] = wire[i + 1]
  BY <1>3 DEF Drained
<1>5. /\ \A o : OnWire(o)' => OnWire(o)
      /\ \A o : OnWire(o) => OnWire(o)' \/ m.op = o
  <2>1. ASSUME NEW o, OnWire(o)' PROVE OnWire(o)
    <3>1. PICK i : i \in 1..Len(wire') /\ wire'[i].op = o  BY <2>1 DEF OnWire
    <3> QED  BY <1>4, <3>1 DEF OnWire
  <2>2. ASSUME NEW o, OnWire(o) PROVE OnWire(o)' \/ m.op = o
    <3>1. PICK i : i \in 1..Len(wire) /\ wire[i].op = o  BY <2>2 DEF OnWire
    <3>2. CASE i = 1  BY <1>4, <3>1, <3>2
    <3>3. CASE i # 1
      <4>1. i - 1 \in 1..Len(wire') /\ (i - 1) + 1 = i  BY <1>4, <3>1, <3>3
      <4> QED  BY <1>4, <3>1, <4>1 DEF OnWire
    <3> QED  BY <3>2, <3>3
  <2> QED  BY <2>1, <2>2
<1>6. Exclusive' /\ OpenClear'  BY <1>2 DEF Joins, Exclusive, OpenClear
<1>7. LeaveTold => \A i, j \in 1..Len(wire') : CC.op = "leave" /\ CC.at = "told" =>
                     (wire'[i].op = "joined" /\ i < j => wire'[j].op # "joining")
  <2> SUFFICES ASSUME LeaveTold, NEW i \in 1..Len(wire'), NEW j \in 1..Len(wire'),
                      CC.op = "leave", CC.at = "told", wire'[i].op = "joined", i < j
               PROVE  wire'[j].op # "joining"
    OBVIOUS
  <2>1. i + 1 \in 1..Len(wire) /\ j + 1 \in 1..Len(wire) /\ i + 1 < j + 1
        /\ wire'[i] = wire[i + 1] /\ wire'[j] = wire[j + 1]
    BY <1>4
  <2> QED  BY <2>1 DEF LeaveTold
<1>8. CASE Fences(m)
  <2>1. db' = db /\ back' = back /\ m.op \notin Asks  BY <1>8 DEF Fences, Asks
  <2>2. OnWire("joining")' <=> OnWire("joining")  BY <1>5, <2>1 DEF Asks
  <2>3. JoinBack' /\ JoinMain'
    BY <1>2, <2>1 DEF Joins, JoinBack, JoinMain, JoinTurned, JoinTurn, Joining, JoinBehind
  <2>4. Unjoined' /\ LeaveGone'  BY <1>2, <2>1, <2>2 DEF Joins, Unjoined, LeaveGone
  <2>5. LeaveTold'  BY <1>2, <1>7, <2>1, <2>2 DEF Joins, LeaveTold
  <2> QED  BY <1>6, <2>3, <2>4, <2>5 DEF Joins
<1>9. CASE \E a \in Answers : Does(m, a)
  <2>1. PICK a : a \in Answers /\ Does(m, a)  BY <1>9
  <2>2. db \in SyncStates /\ db' \in SyncStates /\ Replied(a) /\ a.row = db' /\ a.from = m.from
    BY <1>1, <2>1 DEF Types, Does
  <2>3. PICK n \in Nat : n = Len(back')  BY <2>2 DEF Replied
  <2>4. /\ Len(back) \in Nat /\ n = Len(back) + 1 /\ n \in 1..n /\ back'[n] = a
        /\ \A k \in 1..Len(back) : k \in 1..n /\ back'[k] = back[k]
        /\ \A k \in 1..n : k \in 1..Len(back) \/ k = n
    BY <2>2, <2>3 DEF Replied
  <2>5. /\ m.op \in Asks /\ m.op = Req(call[m.from])
        /\ m.op = "lead" => m.from = "control" /\ CC.op = "lead" /\ CC.at = "led"
        /\ m.op = "demote" => CC.op = "demote"
        /\ m.op = "ack" => CC.op = "open"
        /\ m.op = "joining" => m.from = "join" /\ JJ.op = "begin" /\ JJ.at = "told"
        /\ m.op = "joined" => m.from = "control" /\ CC.op \in {"leave", "finish"} /\ CC.at = "told"
    BY <1>3, <2>1, TakenFrom DEF Does, JJ
  <2>6. \A k \in 1..Len(back) : JoinTurn(k)' = JoinTurn(k)
    BY <1>2, <2>4 DEF JoinTurn, Joining
  <2>7. m.op \in {"joining", "joined"} \/ a.said = "promoted" => JoinTurn(n)'
    <3>1. m.op \in {"joining", "joined"} => JoinTurn(n)'
      BY <1>2, <2>2, <2>4, <2>5 DEF JoinTurn, Joining, JJ, CC
    <3>2. a.said = "promoted" => m.op = "lead"  BY <2>1 DEF Does
    <3>3. a.said = "promoted" => JoinTurn(n)'
      BY <1>2, <2>2, <2>4, <2>5, <3>2 DEF JoinTurn, Joining, CC
    <3> QED  BY <3>1, <3>3
  <2>8. db'.joining # db.joining => m.op \in {"joining", "joined"} \/ a.said = "promoted"
    BY <2>1, <2>2 DEF Does, SyncStates
  <2>9. JoinBack'
    <3> SUFFICES ASSUME NEW k \in 1..n, \A j \in 1..n : j > k => ~JoinTurn(j)'
                 PROVE  back'[k].row.joining = db'.joining
      BY <2>3 DEF JoinBack
    <3>1. CASE k = n  BY <2>2, <2>4, <3>1
    <3>2. CASE k \in 1..Len(back)
      <4>1. ~JoinTurn(n)'  BY <2>4, <3>2
      <4>2. db'.joining = db.joining  BY <2>7, <2>8, <4>1
      <4>3. \A j \in 1..Len(back) : j > k => ~JoinTurn(j)  BY <2>4, <2>6
      <4> QED  BY <2>4, <3>2, <4>2, <4>3 DEF Joins, JoinBack
    <3> QED  BY <2>4, <3>1, <3>2
  <2>10. JoinMain'
    <3> SUFFICES ASSUME ~JoinTurned', ~JoinBehind' PROVE row.joining = db'.joining
      BY <1>2 DEF JoinMain
    <3>1. \A k \in 1..n : ~JoinTurn(k)'  BY <2>3 DEF JoinTurned
    <3>2. db'.joining = db.joining  BY <2>4, <2>7, <2>8, <3>1
    <3>3. ~JoinTurned  BY <2>4, <2>6, <3>1 DEF JoinTurned
    <3>4. ~JoinBehind
      <4>1. CC.op = "lead" /\ CC.at = "row2" => db'.headPending = db.headPending
        BY <2>1, <2>2, <2>5 DEF Does
      <4> QED  BY <1>2, <4>1 DEF JoinBehind
    <3> QED  BY <3>2, <3>3, <3>4 DEF Joins, JoinMain
  <2>11. Unjoined'
    <3> SUFFICES ASSUME CC.op # "leave", JJ.at \in {"told", "row"}, ~OnWire("joining")', ~db'.joining
                 PROVE  ~row.joining /\ \A k \in 1..n : ~back'[k].row.joining
      BY <1>2, <2>3 DEF Unjoined
    <3>1. JJ.op # "none"  BY <1>1, IdleOp DEF JJ
    <3>2. CC.op = "none"  BY <3>1 DEF Joins, Exclusive
    <3>3. m.op # "joined" /\ m.op # "lead" /\ m.op # "joining"
      <4>1. m.op # "joining"  BY <2>1 DEF Does
      <4> QED  BY <2>5, <3>2, <4>1
    <3>4. ~db.joining /\ ~OnWire("joining")
      <4>1. a.said # "promoted"  BY <2>1, <3>3 DEF Does
      <4> QED  BY <1>5, <2>1, <3>3, <4>1 DEF Does
    <3> QED  BY <2>2, <2>4, <3>2, <3>4 DEF Joins, Unjoined
  <2>12. ~db.joining /\ m.op # "joining" => ~db'.joining  BY <2>1 DEF Does
  <2>13. m.op = "joining" => OnWire("joining")  BY <1>4 DEF OnWire
  <2>14. LeaveGone'
    <3> SUFFICES ASSUME CC.op = "leave", CC.at # "told"
                 PROVE  /\ ~db'.joining /\ ~OnWire("joining")'
                        /\ \A k \in 1..n : ~back'[k].row.joining
                        /\ CC.at # "row" => ~row.joining
      BY <1>2, <2>3 DEF LeaveGone
    <3> QED  BY <1>5, <2>2, <2>4, <2>12, <2>13 DEF Joins, LeaveGone
  <2>15. LeaveTold'
    <3> SUFFICES ASSUME CC.op = "leave", CC.at = "told"
                 PROVE  \A k \in 1..n : back'[k].from = "control" =>
                          /\ ~db'.joining /\ ~OnWire("joining")'
                          /\ \A i \in 1..n : k =< i => ~back'[i].row.joining
      BY <1>2, <1>7, <2>3 DEF LeaveTold, Joins
    <3> SUFFICES ASSUME NEW k \in 1..n, back'[k].from = "control"
                 PROVE  /\ ~db'.joining /\ ~OnWire("joining")'
                        /\ \A i \in 1..n : k =< i => ~back'[i].row.joining
      OBVIOUS
    <3>1. CASE k \in 1..Len(back)
      <4>1. /\ ~db.joining /\ ~OnWire("joining")
            /\ \A i \in 1..Len(back) : k =< i => ~back[i].row.joining
        BY <2>4, <3>1 DEF Joins, LeaveTold
      <4> QED  BY <1>5, <2>2, <2>4, <2>12, <2>13, <4>1
    <3>2. CASE k = n
      <4>1. m.op = "joined"  BY <2>2, <2>4, <2>5, <3>2 DEF Req, Wanted, CC
      <4>2. ~db'.joining  BY <2>1, <4>1 DEF Does
      <4>3. ~OnWire("joining")'
        <5> SUFFICES ASSUME NEW i \in 1..Len(wire'), wire'[i].op = "joining" PROVE FALSE
          BY DEF OnWire
        <5>1. i + 1 \in 1..Len(wire) /\ 1 < i + 1 /\ wire[i + 1].op = "joining"  BY <1>4
        <5> QED  BY <1>4, <4>1, <5>1 DEF Joins, LeaveTold
      <4>4. \A i \in 1..n : k =< i => i = n  BY <2>4, <3>2
      <4> QED  BY <2>2, <2>4, <4>2, <4>3, <4>4
    <3> QED  BY <2>4, <3>1, <3>2
  <2> QED  BY <1>6, <2>9, <2>10, <2>11, <2>14, <2>15 DEF Joins
<1> QED  BY <1>3, <1>8, <1>9

\* What a move needs so that joins stay apart.
Apart(s, op, at) ==
  /\ s = "control" =>
       \/ op = "none" \/ op = CC.op \/ JJ.op = "none"
       \/ op = "leave" /\ (JJ'.at = "hold" => JJ'.late)
  /\ s = "join" => (at # "hold" /\ (op = "none" \/ op = JJ.op)) \/ CC.op = "none"

(* A join has control idle or leaving it.                                  *)
LEMMA ApartMoves ==
  ASSUME Base, Exclusive, NEW s \in Calls, NEW op, NEW at, NEW took \in BOOLEAN,
         NEW posts \in BOOLEAN, NEW on \in BOOLEAN, NEW asks \in BOOLEAN,
         Moves(s, op, at, took, posts, on, asks), Apart(s, op, at)
  PROVE  Exclusive'
<1>1. Shape /\ "control" \in Calls /\ "join" \in Calls  BY Names DEF Base
<1>2. /\ call'[s].op = op /\ call'[s].at = at
      /\ \A t \in Calls \ {s} : /\ call'[t].op = call[t].op /\ call'[t].at = call[t].at
                                /\ call[t].late => call'[t].late
  BY DEF Moves, Steps
<1>3. JJ.op = "none" => JJ.at = "done"  BY <1>1, IdleOp DEF JJ
<1>4. CASE s = "control"
  <2>1. /\ JJ'.op = JJ.op /\ JJ'.at = JJ.at /\ (JJ.late => JJ'.late)
        /\ CC'.op = op /\ CC'.at = at
    BY <1>1, <1>2, <1>4 DEF JJ, CC
  <2> QED  BY <1>3, <1>4, <2>1 DEF Exclusive, Apart
<1>5. CASE s = "join"
  <2>1. CC'.op = CC.op /\ JJ'.op = op /\ JJ'.at = at  BY <1>1, <1>2, <1>5 DEF JJ, CC
  <2> QED  BY <1>5, <2>1 DEF Exclusive, Apart
<1>6. CASE s # "control" /\ s # "join"
  <2>1. /\ JJ'.op = JJ.op /\ JJ'.at = JJ.at /\ (JJ.late => JJ'.late)
        /\ CC'.op = CC.op /\ CC'.at = CC.at
    BY <1>1, <1>2, <1>6 DEF JJ, CC
  <2> QED  BY <2>1 DEF Exclusive
<1> QED  BY <1>4, <1>5, <1>6

\* The fence posts on the wire leave the worker's fence as main's is.
Fencings == {"fence", "unfence"}
FenceSent ==
  /\ (\A i \in 1..Len(wire) : wire[i].op \notin Fencings) => (fenced <=> wfenced)
  /\ \A i \in 1..Len(wire) :
       wire[i].op \in Fencings /\ (\A j \in 1..Len(wire) : j > i => wire[j].op \notin Fencings) =>
         (fenced <=> wire[i].op = "fence")

(* Main posts every change of its fence, in order (setFence).              *)
LEMMA FenceMoves ==
  ASSUME Base, FenceSent, NEW s \in Calls, NEW op, NEW at, NEW took \in BOOLEAN,
         NEW posts \in BOOLEAN, NEW on \in BOOLEAN, NEW asks \in BOOLEAN,
         Moves(s, op, at, took, posts, on, asks), Fair(s, op, at, took, asks)
  PROVE  FenceSent'
<1>1. Wiring(op, at, posts, on, asks)  BY WireMoves DEF Base
<1>2. /\ Len(wire) \in Nat /\ Len(wire') \in Nat
      /\ \A i \in 1..Len(wire) : i \in 1..Len(wire') /\ wire'[i] = wire[i]
      /\ posts => Len(wire) + 1 \in 1..Len(wire') /\ wire'[Len(wire) + 1] = Post(on)
      /\ \A i \in 1..Len(wire') :
           \/ i \in 1..Len(wire) /\ wire'[i] = wire[i]
           \/ posts /\ i = Len(wire) + 1 /\ wire'[i] = Post(on)
           \/ asks /\ i = Len(wire') /\ i > Len(wire) /\ wire'[i].op = Wanted(op, at)
  BY <1>1 DEF Wiring
<1>3. asks => Wanted(op, at) \notin Fencings  BY DEF Fair, Asks, Fencings
<1>4. fenced' = (IF posts THEN on ELSE fenced) /\ wfenced' = wfenced  BY DEF Moves
<1>5. Post(on).op \in Fencings /\ (Post(on).op = "fence" <=> on)  BY DEF Post, Fencings
<1>6. CASE posts
  <2>1. ASSUME NEW i \in 1..Len(wire'), wire'[i].op \in Fencings,
               \A j \in 1..Len(wire') : j > i => wire'[j].op \notin Fencings
        PROVE  fenced' <=> wire'[i].op = "fence"
    <3>1. ~(i \in 1..Len(wire))  BY <1>2, <1>5, <1>6, <2>1
    <3>2. wire'[i] = Post(on)  BY <1>2, <1>3, <2>1, <3>1
    <3> QED  BY <1>4, <1>5, <1>6, <3>2
  <2>2. ~ \A i \in 1..Len(wire') : wire'[i].op \notin Fencings  BY <1>2, <1>5, <1>6
  <2> QED  BY <2>1, <2>2 DEF FenceSent
<1>7. CASE ~posts
  <2>1. (\A i \in 1..Len(wire') : wire'[i].op \notin Fencings) => (fenced' <=> wfenced')
    BY <1>2, <1>4, <1>7 DEF FenceSent
  <2>2. ASSUME NEW i \in 1..Len(wire'), wire'[i].op \in Fencings,
               \A j \in 1..Len(wire') : j > i => wire'[j].op \notin Fencings
        PROVE  fenced' <=> wire'[i].op = "fence"
    <3>1. i \in 1..Len(wire) /\ wire'[i] = wire[i]  BY <1>2, <1>3, <1>7, <2>2
    <3>2. \A j \in 1..Len(wire) : j > i => wire[j].op \notin Fencings  BY <1>2, <2>2
    <3> QED  BY <1>4, <1>7, <2>2, <3>1, <3>2 DEF FenceSent
  <2> QED  BY <2>1, <2>2 DEF FenceSent
<1> QED  BY <1>6, <1>7

(* The worker takes them in that order.                                    *)
LEMMA FenceWorker ==
  ASSUME Base, Follows, FenceSent, Worker
  PROVE  FenceSent'
<1>1. fenced' = fenced  BY WorkerSteps DEF Base, Mains
<1>2. PICK m \in Messages : Drained(m) /\ (Fences(m) \/ \E a \in Answers : Does(m, a))
  BY WorkerDoes
<1>3. /\ Len(wire) \in Nat /\ Len(wire') = Len(wire) - 1 /\ 1 \in 1..Len(wire) /\ wire[1] = m
      /\ \A i \in 1..Len(wire') : i + 1 \in 1..Len(wire) /\ wire'[i] = wire[i + 1]
  BY <1>2 DEF Drained
<1>4. \A j \in 1..Len(wire) : j > 1 => j - 1 \in 1..Len(wire') /\ wire'[j - 1] = wire[j]
  <2> SUFFICES ASSUME NEW j \in 1..Len(wire), j > 1
               PROVE  j - 1 \in 1..Len(wire') /\ wire'[j - 1] = wire[j]
    OBVIOUS
  <2>1. j - 1 \in 1..Len(wire') /\ (j - 1) + 1 = j  BY <1>3
  <2> QED  BY <1>3, <2>1
<1>5. ASSUME NEW i \in 1..Len(wire'), wire'[i].op \in Fencings,
             \A j \in 1..Len(wire') : j > i => wire'[j].op \notin Fencings
      PROVE  fenced' <=> wire'[i].op = "fence"
  <2>1. i + 1 \in 1..Len(wire) /\ wire'[i] = wire[i + 1]  BY <1>3
  <2>2. ASSUME NEW j \in 1..Len(wire), j > i + 1 PROVE wire[j].op \notin Fencings
    <3>1. j - 1 > i /\ j > 1  BY <1>3, <2>2
    <3>2. j - 1 \in 1..Len(wire') /\ wire'[j - 1] = wire[j]  BY <1>4, <3>1
    <3> QED  BY <1>5, <3>1, <3>2
  <2> QED  BY <1>1, <1>5, <2>1, <2>2 DEF FenceSent
<1>6. ASSUME \A i \in 1..Len(wire') : wire'[i].op \notin Fencings
      PROVE  fenced' <=> wfenced'
  <2>1. \A j \in 1..Len(wire) : j > 1 => wire[j].op \notin Fencings  BY <1>4, <1>6
  <2>2. CASE Fences(m)
    <3>1. m.op \in Fencings /\ wfenced' = (m.op = "fence")  BY <2>2 DEF Fences, Fencings
    <3>2. fenced <=> m.op = "fence"  BY <1>3, <2>1, <3>1 DEF FenceSent
    <3> QED  BY <1>1, <3>1, <3>2
  <2>3. CASE \E a \in Answers : Does(m, a)
    <3>1. m.op \notin Fencings /\ wfenced' = wfenced  BY <2>3 DEF Does, Asks, Fencings
    <3>2. \A j \in 1..Len(wire) : wire[j].op \notin Fencings
      <4> SUFFICES ASSUME NEW j \in 1..Len(wire) PROVE wire[j].op \notin Fencings  OBVIOUS
      <4>1. j = 1 \/ j > 1  BY <1>3
      <4> QED  BY <1>3, <2>1, <3>1, <4>1
    <3> QED  BY <1>1, <3>1, <3>2 DEF FenceSent
  <2> QED  BY <1>2, <2>2, <2>3
<1> QED  BY <1>5, <1>6 DEF FenceSent

\* What main and the worker know of each other.
Known == FenceSent /\ Leading /\ Finishing /\ Ordered(Lones) /\ Joins
\* What it needs of a move.
Tells(s, op, at, took, asks) ==
  /\ row' \in SyncStates /\ Fair(s, op, at, took, asks) /\ Apart(s, op, at)
  /\ LeadNeed(s, op, at, took) /\ BitNeed(s, op, at, took, asks)

(* Main's moves keep it.                                                   *)
LEMMA KnownMoves ==
  ASSUME Base, Rows, Known, NEW s \in Calls, NEW op, NEW at, NEW took \in BOOLEAN,
         NEW posts \in BOOLEAN, NEW on \in BOOLEAN, NEW asks \in BOOLEAN,
         Moves(s, op, at, took, posts, on, asks), Tells(s, op, at, took, asks)
  PROVE  Known'
<1>1. /\ row' \in SyncStates /\ Fair(s, op, at, took, asks) /\ Apart(s, op, at)
      /\ LeadNeed(s, op, at, took) /\ BitNeed(s, op, at, took, asks)
  BY DEF Tells
<1>2. RowKeeps \/ RowTakes(took)  BY <1>1 DEF BitNeed
<1>3. /\ FenceSent /\ Leading /\ Finishing /\ Ordered(Lones) /\ Joins /\ Exclusive
  BY DEF Known, Joins
<1>4. FenceSent'  BY <1>1, <1>3, FenceMoves
<1>5. Leading' /\ Finishing' /\ Ordered(Lones)'  BY <1>1, <1>2, <1>3, LeadingMoves
<1>6. Exclusive'  BY <1>1, <1>3, ApartMoves
<1>7. Joins'  BY <1>1, <1>3, <1>6, JoinsMoves
<1> QED  BY <1>4, <1>5, <1>7 DEF Known

(* The worker's step keeps it.                                             *)
LEMMA KnownWorker ==
  ASSUME Base, Follows, Known, Worker
  PROVE  Known'
<1>1. FenceSent /\ Leading /\ Finishing /\ Ordered(Lones) /\ Joins /\ Exclusive
  BY DEF Known, Joins
<1>2. Shape /\ "join" \in Calls  BY Names DEF Base
<1>3. CC.op = "lead" => JJ = Idle  BY <1>1, <1>2, IdleOp DEF Exclusive, JJ
<1>4. FenceSent'  BY <1>1, FenceWorker
<1>5. Leading' /\ Finishing' /\ Ordered(Lones)'  BY <1>1, <1>3, LeadingWorker
<1>6. Joins'  BY <1>1, JoinsWorker
<1> QED  BY <1>4, <1>5, <1>6 DEF Known

(* The answer main takes.                                                  *)
LEMMA TookHead ==
  ASSUME Types, NEW s \in Calls, Took(s)
  PROVE  /\ Head(back) = back[1] /\ back[1].from = s /\ 1 \in 1..Len(back)
         /\ Head(back).row \in SyncStates
<1>1. back \in Seq(Answers) /\ back # <<>>  BY DEF Types, Took
<1>2. Head(back) = back[1] /\ 1 \in 1..Len(back) /\ back[1] \in Answers  BY <1>1
<1> QED  BY <1>2 DEF Took, Answers

(* An answer that changes the joining bit is that of a call that asked it. *)
LEMMA NoJoinTurn ==
  ASSUME Types, NEW s \in Calls, NEW took \in BOOLEAN, took => Took(s), call[s].at # "told",
         call[s].at = "led" => Head(back).said # "promoted"
  PROVE  ~(took /\ JoinTurn(1))
<1> SUFFICES ASSUME took, JoinTurn(1) PROVE FALSE  OBVIOUS
<1>1. Head(back) = back[1] /\ back[1].from = s  BY TookHead
<1> QED  BY <1>1 DEF JoinTurn, Joining

(* A call ends.                                                            *)
LEMMA KnownEnds ==
  ASSUME Base, Rows, Known, NEW s \in Calls, NEW took \in BOOLEAN, NEW posts \in BOOLEAN, NEW on \in BOOLEAN,
         Moves(s, "none", "done", took, posts, on, FALSE), took \/ Req(call[s]) = "none",
         RowKeeps, row' \in SyncStates, call[s].at \notin {"row", "row2", "told"},
         call[s].at = "led" => Head(back).said # "promoted",
         s = "control" /\ CC.op = "leave" => CC.at = "attach"
  PROVE  Known'
<1>1. Types  BY DEF Base
<1>2. Fair(s, "none", "done", took, FALSE)  BY DEF Fair
<1>3. Apart(s, "none", "done") /\ LeadNeed(s, "none", "done", took)  BY DEF Apart, LeadNeed
<1>4. ~(took /\ JoinTurn(1))  BY <1>1, NoJoinTurn DEF Moves
<1>5. BitNeed(s, "none", "done", took, FALSE)  BY <1>4 DEF BitNeed
<1> QED  BY <1>2, <1>3, <1>5, KnownMoves DEF Tells

\* A call goes on to at, leaving main's copy and what it knows of the joins.
Onward(s, op, at) ==
  /\ call[s].op = op /\ call[s].at \notin {"row", "row2", "told"} /\ at # "row"
  /\ call[s].at = "led" => Head(back).said # "promoted"
  /\ at = "told" => s = "join" /\ op = "begin" /\ CC.op # "leave"
  /\ s = "control" /\ op = "lead" =>
       \/ at = "led" \/ call[s].at \in {"hold", "row2", "owned2"}
       \/ call[s].at = "led" /\ Head(back).said # "failed"
  /\ op = "open" /\ call[s].at = "owned" => ~row.joining
  /\ s = "join" => at # "hold"

(* A call goes on.                                                         *)
LEMMA KnownOn ==
  ASSUME Base, Rows, Known, NEW s \in Calls, NEW op, NEW at, NEW took \in BOOLEAN,
         NEW posts \in BOOLEAN, NEW on \in BOOLEAN, NEW asks \in BOOLEAN,
         Moves(s, op, at, took, posts, on, asks), Fair(s, op, at, took, asks),
         RowKeeps, row' \in SyncStates, Onward(s, op, at), at = "told" => asks,
         call[s].at = "led" => took
  PROVE  Known'
<1>1. Types  BY DEF Base
<1>2. s = "control" => CC = call[s]  BY DEF CC
<1>3. s = "join" => JJ = call[s]  BY DEF JJ
<1>4. ~(took /\ JoinTurn(1))  BY <1>1, NoJoinTurn DEF Moves, Onward
<1>5. Apart(s, op, at)  BY <1>2, <1>3 DEF Apart, Onward
<1>6. LeadNeed(s, op, at, took)
  BY <1>2 DEF LeadNeed, Onward, Known, Finishing
<1>7. Wanted(op, at) = "joining" => at = "told"  BY DEF Wanted
<1>8. CC.op = "open" /\ CC.at \notin {"row", "owned"} => ~row.joining
  BY DEF Known, Joins, OpenClear
<1>9. BitNeed(s, op, at, took, asks)
  BY <1>2, <1>3, <1>4, <1>7, <1>8 DEF BitNeed, Onward
<1> QED  BY <1>5, <1>6, <1>9, KnownMoves DEF Tells

(* A report of the lease moves.                                            *)
LEMMA KnownReports ==
  ASSUME Base, Rows, Known, NEW s \in Reports,
         LeaseRead(s) \/ \E master \in BOOLEAN : SetLease(s, master)
  PROVE  Known'
<1>1. Types /\ Shape /\ s \in Calls /\ s # "control" /\ s # "join"  BY Names DEF Base
<1>2. CASE \E master \in BOOLEAN : SetLease(s, master)
  <2>1. PICK master \in BOOLEAN : SetLease(s, master)  BY <1>2
  <2>2. /\ call[s] = Idle /\ row' = row
        /\ \/ Moves(s, "lease", "row", FALSE, TRUE, TRUE, TRUE)
           \/ Moves(s, "lease", "row", FALSE, FALSE, FALSE, TRUE)
    BY <1>1, <2>1, SetLeaseMoves
  <2>3. Fair(s, "lease", "row", FALSE, TRUE)  BY <2>2, IdleReq DEF Fair, Wanted, Asks
  <2>4. Apart(s, "lease", "row") /\ LeadNeed(s, "lease", "row", FALSE)
    BY <1>1 DEF Apart, LeadNeed
  <2>5. BitNeed(s, "lease", "row", FALSE, TRUE)
    BY <1>1, <2>2, IdleReq DEF BitNeed, RowKeeps, Wanted
  <2>6. row' \in SyncStates  BY <1>1, <2>2 DEF Types
  <2>7. Tells(s, "lease", "row", FALSE, TRUE)  BY <2>3, <2>4, <2>5, <2>6 DEF Tells
  <2> QED  BY <1>1, <2>2, <2>7, KnownMoves
<1>3. CASE LeaseRead(s)
  <2>1. /\ call[s].op = "lease" /\ call[s].at = "owned" /\ row' = row
        /\ \/ Moves(s, "lease", "hold", TRUE, FALSE, FALSE, FALSE)
           \/ Moves(s, "lease", "hold", TRUE, TRUE, TRUE, FALSE)
           \/ Moves(s, "none", "done", TRUE, FALSE, FALSE, FALSE)
    BY <1>1, <1>3, LeaseReadMoves DEF At, Walks, Leaves
  <2>2. RowKeeps /\ row' \in SyncStates  BY <1>1, <2>1 DEF RowKeeps, Types
  <2>3. Fair(s, "lease", "hold", TRUE, FALSE)  BY DEF Fair
  <2>4. Onward(s, "lease", "hold")  BY <1>1, <2>1 DEF Onward
  <2> QED  BY <1>1, <2>1, <2>2, <2>3, <2>4, KnownOn, KnownEnds
<1> QED  BY <1>2, <1>3

(* The row is read and taken.                                              *)
LEMMA KnownTakes ==
  ASSUME Base, Rows, Known, NEW s \in Calls, TakeRow(s)
  PROVE  Known'
<1>1. Types /\ Shape  BY DEF Base
<1>2. /\ row' = Head(back).row
      /\ \/ Walks(s, call[s].op, "row", "owned", TRUE, TRUE)
         \/ Walks(s, call[s].op, "row2", "owned2", TRUE, TRUE)
  BY <1>1, TakeRowMoves
<1>3. ASSUME NEW from \in {"row", "row2"}, NEW to \in {"owned", "owned2"},
             from = "row" <=> to = "owned", Walks(s, call[s].op, from, to, TRUE, TRUE)
      PROVE  Known'
  <2> DEFINE op == call[s].op
  <2>1. Moves(s, op, to, TRUE, FALSE, FALSE, TRUE) /\ call[s].at = from /\ Took(s)
    BY <1>3 DEF Walks, At, Moves
  <2>2. Head(back).row \in SyncStates  BY <1>1, <2>1, TookHead
  <2>3. Fair(s, op, to, TRUE, TRUE)  BY DEF Fair, Wanted, Asks
  <2>4. s = "control" => CC = call[s]  BY DEF CC
  <2>5. s = "join" => JJ = call[s]  BY DEF JJ
  <2>6. Apart(s, op, to)  BY <2>4, <2>5 DEF Apart
  <2>7. LeadNeed(s, op, to, TRUE)  BY <1>3, <2>1, <2>4 DEF LeadNeed, Known, Finishing
  <2>8. op = "open" => from = "row"
    <3>1. Placed(s, call[s]) /\ call[s].at = from  BY <1>1, <2>1 DEF Shape
    <3>2. op = "open" => call[s] # Idle  BY IdleReq
    <3> QED  BY <3>1, <3>2, <1>3 DEF Placed, Stages
  <2>9. BitNeed(s, op, to, TRUE, TRUE)
    BY <1>2, <1>3, <2>1, <2>4, <2>5, <2>8 DEF BitNeed, RowTakes, Wanted
  <2> QED  BY <1>2, <2>1, <2>2, <2>3, <2>6, <2>7, <2>9, KnownMoves DEF Tells
<1> QED  BY <1>2, <1>3

(* The calls that walk on, and those that end after a hold.                *)
LEMMA KnownPasses ==
  ASSUME Base, Rows, Known,
         \/ \E s \in Calls : HoldEnds(s) \/ JoinRead(s)
         \/ Seeded \/ ReleaseForRuns \/ RunAccounts \/ AttachHeld \/ DemoteHolds \/ JoinHeld
         \/ LeavePaused \/ LeadHeld
  PROVE  Known'
<1> DEFINE c == "control"
<1>1. Types /\ Shape /\ c \in Calls /\ "join" \in Calls /\ row \in SyncStates
  BY Names DEF Base, Types
<1>2. CC = call[c] /\ JJ = call["join"]  BY DEF CC, JJ
<1>3. row' = row => RowKeeps /\ row' \in SyncStates  BY <1>1 DEF RowKeeps
<1>4. CASE \E s \in Calls : HoldEnds(s)
  <2>1. PICK s \in Calls : HoldEnds(s)  BY <1>4
  <2>2. /\ Moves(s, "none", "done", FALSE, FALSE, FALSE, FALSE) /\ row' = row
        /\ call[s].op \in {"lease", "demote", "lead"} /\ call[s].at \in {"hold", "hold2"}
    BY <1>1, <2>1, HoldEndsMoves DEF Leaves, At
  <2>3. Req(call[s]) = "none"  BY <2>2, NoReq
  <2> QED  BY <1>2, <1>3, <2>2, <2>3, KnownEnds
<1>5. CASE \E s \in Calls : JoinRead(s)
  <2>1. PICK s \in Calls : JoinRead(s)  BY <1>5
  <2>2. /\ call[s].at = "owned" /\ row' = row
        /\ \/ Walks(s, "leave", "owned", "paused", TRUE, TRUE)
           \/ call[s].op # "leave" /\ Leaves(s, TRUE)
    BY <1>1, <2>1, JoinReadMoves
  <2>3. CASE Walks(s, "leave", "owned", "paused", TRUE, TRUE)
    <3>1. Moves(s, "leave", "paused", TRUE, FALSE, FALSE, TRUE) /\ call[s].op = "leave"
      BY <2>3 DEF Walks, At
    <3>2. Onward(s, "leave", "paused") /\ Fair(s, "leave", "paused", TRUE, TRUE)
      BY <2>2, <3>1 DEF Onward, Fair, Wanted, Asks
    <3> QED  BY <1>3, <2>2, <3>1, <3>2, KnownOn
  <2>4. CASE call[s].op # "leave" /\ Leaves(s, TRUE)
    <3>1. Moves(s, "none", "done", TRUE, FALSE, FALSE, FALSE)  BY <2>4 DEF Leaves
    <3> QED  BY <1>2, <1>3, <2>2, <2>4, <3>1, KnownEnds
  <2> QED  BY <2>2, <2>3, <2>4
<1>6. CASE Seeded
  <2>1. /\ Moves(c, "open", "release", TRUE, FALSE, FALSE, FALSE) /\ row' = row
        /\ call[c].op = "open" /\ call[c].at = "seed"
    BY <1>1, <1>6, SeededMoves DEF Walks, At
  <2>2. Onward(c, "open", "release") /\ Fair(c, "open", "release", TRUE, FALSE)
    BY <2>1 DEF Onward, Fair
  <2> QED  BY <1>1, <1>3, <2>1, <2>2, KnownOn
<1>7. CASE ReleaseForRuns
  <2>1. /\ Moves(c, CC.op, "accounts", FALSE, FALSE, FALSE, TRUE) /\ row' = row
        /\ call[c].op = CC.op /\ call[c].at = "release" /\ CC.at = "release"
    BY <1>1, <1>2, <1>7, ReleaseForRunsMoves DEF Walks, At
  <2>2. CC.op \in {"open", "leave"}  BY <1>1, <2>1, Resumes
  <2>3. Req(call[c]) = "none"  BY <2>1, NoReq
  <2>4. Onward(c, CC.op, "accounts") /\ Fair(c, CC.op, "accounts", FALSE, TRUE)
    BY <2>1, <2>2, <2>3 DEF Onward, Fair, Wanted, Asks
  <2> QED  BY <1>1, <1>3, <2>1, <2>4, KnownOn
<1>8. CASE RunAccounts
  <2>1. /\ Moves(c, CC.op, "attach", TRUE, FALSE, FALSE, FALSE) /\ row' = row
        /\ call[c].op = CC.op /\ call[c].at = "accounts" /\ CC.at = "accounts"
    BY <1>1, <1>2, <1>8, RunAccountsMoves DEF Walks, At
  <2>2. CC.op \in {"open", "leave"}  BY <1>1, <2>1, Resumes
  <2>3. Onward(c, CC.op, "attach") /\ Fair(c, CC.op, "attach", TRUE, FALSE)
    BY <2>1, <2>2 DEF Onward, Fair
  <2> QED  BY <1>1, <1>3, <2>1, <2>3, KnownOn
<1>9. CASE AttachHeld
  <2>1. Moves(c, "none", "done", FALSE, FALSE, FALSE, FALSE) /\ row' = row /\ call[c].at = "attach"
    BY <1>1, <1>9, AttachHeldMoves DEF Leaves
  <2>2. Req(call[c]) = "none"  BY <2>1 DEF Req, Wanted
  <2> QED  BY <1>1, <1>2, <1>3, <2>1, <2>2, KnownEnds
<1>10. CASE DemoteHolds
  <2>1. /\ Moves(c, "demote", "hold", TRUE, FALSE, FALSE, FALSE) /\ row' = row
        /\ call[c].op = "demote" /\ call[c].at = "owned"
    BY <1>1, <1>10, DemoteHoldsMoves DEF Walks, At
  <2>2. Onward(c, "demote", "hold") /\ Fair(c, "demote", "hold", TRUE, FALSE)
    BY <2>1 DEF Onward, Fair
  <2> QED  BY <1>1, <1>3, <2>1, <2>2, KnownOn
<1>11. CASE JoinHeld
  <2>1. /\ call["join"].op = "begin" /\ call["join"].at = "hold" /\ row' = row
        /\ \/ call["join"].late /\ Leaves("join", FALSE)
           \/ ~call["join"].late /\ Walks("join", "begin", "hold", "told", FALSE, TRUE)
    BY <1>1, <1>11, JoinHeldMoves DEF At
  <2>2. Req(call["join"]) = "none"  BY <2>1, NoReq
  <2>3. CASE Leaves("join", FALSE)
    <3>1. Moves("join", "none", "done", FALSE, FALSE, FALSE, FALSE)  BY <2>3 DEF Leaves
    <3> QED  BY <1>1, <1>3, <2>1, <2>2, <3>1, KnownEnds
  <2>4. CASE ~call["join"].late /\ Walks("join", "begin", "hold", "told", FALSE, TRUE)
    <3>1. Moves("join", "begin", "told", FALSE, FALSE, FALSE, TRUE)  BY <2>4 DEF Walks
    <3>2. CC.op # "leave"  BY <1>2, <2>1, <2>4 DEF Known, Joins, Exclusive
    <3>3. Onward("join", "begin", "told") /\ Fair("join", "begin", "told", FALSE, TRUE)
      BY <2>1, <2>2, <3>2 DEF Onward, Fair, Wanted, Asks
    <3> QED  BY <1>1, <1>3, <2>1, <3>1, <3>3, KnownOn
  <2> QED  BY <2>1, <2>3, <2>4
<1>12. CASE LeavePaused
  <2>1. /\ Moves(c, "leave", "release", TRUE, FALSE, FALSE, FALSE) /\ row' = row
        /\ call[c].op = "leave" /\ call[c].at = "paused"
    BY <1>1, <1>12, LeavePausedMoves DEF Walks, At
  <2>2. Onward(c, "leave", "release") /\ Fair(c, "leave", "release", TRUE, FALSE)
    BY <2>1 DEF Onward, Fair
  <2> QED  BY <1>1, <1>3, <2>1, <2>2, KnownOn
<1>13. CASE LeadHeld
  <2>1. /\ Moves(c, "lead", "row2", FALSE, FALSE, FALSE, TRUE) /\ row' = row
        /\ call[c].op = "lead" /\ call[c].at = "hold"
    BY <1>1, <1>13, LeadHeldMoves DEF Walks, At
  <2>2. Req(call[c]) = "none"  BY <2>1, NoReq
  <2>3. Onward(c, "lead", "row2") /\ Fair(c, "lead", "row2", FALSE, TRUE)
    BY <2>1, <2>2 DEF Onward, Fair, Wanted, Asks
  <2> QED  BY <1>1, <1>3, <2>1, <2>3, KnownOn
<1> QED  BY <1>4, <1>5, <1>6, <1>7, <1>8, <1>9, <1>10, <1>11, <1>12, <1>13

(* A call begins: a promotion, an opening, a demotion, a join or its end.  *)
LEMMA KnownBegins ==
  ASSUME Base, Rows, Known, "overlap" \notin Also,
         \/ \E newer \in BOOLEAN : Lead(newer)
         \/ \E acked \in BOOLEAN : Open(acked)
         \/ Demote \/ BeginJoin \/ LeaveJoin \/ FinishJoin
  PROVE  Known'
<1> DEFINE c == "control"
<1>1. Types /\ Shape /\ c \in Calls /\ "join" \in Calls /\ row \in SyncStates
  BY Names DEF Base, Types
<1>2. CC = call[c] /\ JJ = call["join"] /\ JJ' = call'["join"]  BY DEF CC, JJ
<1>3. row' = row => RowKeeps /\ row' \in SyncStates  BY <1>1 DEF RowKeeps
<1>4. ASSUME NEW op \in {"lead", "open"}, CC = Idle, JJ = Idle,
             Moves(c, op, "row", FALSE, FALSE, FALSE, TRUE), row' = row
      PROVE  Known'
  <2>1. CC.op = "none" /\ JJ.op = "none" /\ Req(call[c]) = "none" /\ call[c].at = "done"
    BY <1>2, <1>4, IdleReq
  <2>2. Fair(c, op, "row", FALSE, TRUE)  BY <2>1 DEF Fair, Wanted, Asks
  <2>3. Apart(c, op, "row") /\ LeadNeed(c, op, "row", FALSE)
    BY <1>4, <2>1 DEF Apart, LeadNeed
  <2>4. BitNeed(c, op, "row", FALSE, TRUE)
    BY <1>3, <1>4, <2>1 DEF BitNeed, Wanted
  <2>5. Tells(c, op, "row", FALSE, TRUE)  BY <1>3, <1>4, <2>2, <2>3, <2>4 DEF Tells
  <2> QED  BY <1>1, <1>4, <2>5, KnownMoves
<1>5. CASE \E newer \in BOOLEAN : Lead(newer)
  <2>1. PICK newer \in BOOLEAN : Lead(newer)  BY <1>5
  <2>2. Begins(c, "lead", "row", newer, TRUE) /\ JJ = Idle /\ row' = row
    BY <1>1, <1>2, <2>1, LeadMoves
  <2> QED  BY <1>2, <1>4, <2>2 DEF Begins
<1>6. CASE \E acked \in BOOLEAN : Open(acked)
  <2>1. PICK acked \in BOOLEAN : Open(acked)  BY <1>6
  <2>2. Begins(c, "open", "row", acked, TRUE) /\ JJ = Idle /\ row' = row
    BY <1>1, <1>2, <2>1, OpenMoves
  <2> QED  BY <1>2, <1>4, <2>2 DEF Begins
<1>7. CASE Demote
  <2>1. CC = Idle /\ JJ = Idle /\ row' = row /\ Moves(c, "demote", "told", FALSE, TRUE, TRUE, TRUE)
    BY <1>1, <1>2, <1>7, DemoteMoves
  <2>2. CC.op = "none" /\ JJ.op = "none" /\ Req(call[c]) = "none" /\ call[c].at = "done"
    BY <1>2, <2>1, IdleReq
  <2>3. Fair(c, "demote", "told", FALSE, TRUE)  BY <2>2 DEF Fair, Wanted, Asks
  <2>4. Apart(c, "demote", "told") /\ LeadNeed(c, "demote", "told", FALSE)
    BY <2>2 DEF Apart, LeadNeed
  <2>5. BitNeed(c, "demote", "told", FALSE, TRUE)  BY <1>3, <2>1, <2>2 DEF BitNeed, Wanted
  <2>6. Tells(c, "demote", "told", FALSE, TRUE)  BY <1>3, <2>1, <2>3, <2>4, <2>5 DEF Tells
  <2> QED  BY <1>1, <2>1, <2>6, KnownMoves
<1>8. CASE FinishJoin
  <2>1. CC = Idle /\ JJ = Idle /\ row' = row /\ row.role = "follower"
        /\ Moves(c, "finish", "told", FALSE, FALSE, FALSE, TRUE)
    BY <1>1, <1>2, <1>8, FinishJoinMoves DEF Begins
  <2>2. CC.op = "none" /\ JJ.op = "none" /\ Req(call[c]) = "none" /\ call[c].at = "done"
    BY <1>2, <2>1, IdleReq
  <2>3. Fair(c, "finish", "told", FALSE, TRUE)  BY <2>2 DEF Fair, Wanted, Asks
  <2>4. Apart(c, "finish", "told") /\ LeadNeed(c, "finish", "told", FALSE)
    BY <2>1, <2>2 DEF Apart, LeadNeed
  <2>5. BitNeed(c, "finish", "told", FALSE, TRUE)  BY <1>3, <2>1, <2>2 DEF BitNeed, Wanted
  <2>6. Tells(c, "finish", "told", FALSE, TRUE)  BY <1>3, <2>1, <2>3, <2>4, <2>5 DEF Tells
  <2> QED  BY <1>1, <2>1, <2>6, KnownMoves
<1>9. CASE LeaveJoin
  <2>1. CC = Idle /\ row' = row /\ JJ'.late = (JJ # Idle)
        /\ Moves(c, "leave", "told", FALSE, FALSE, FALSE, TRUE)
    BY <1>1, <1>2, <1>9, LeaveJoinMoves
  <2>2. CC.op = "none" /\ Req(call[c]) = "none" /\ call[c].at = "done"
    BY <1>2, <2>1, IdleReq
  <2>3. Fair(c, "leave", "told", FALSE, TRUE)  BY <2>2 DEF Fair, Wanted, Asks
  <2>4. JJ'.at = "hold" => JJ'.late
    <3>1. JJ'.at = JJ.at  BY <1>1, <1>2, <2>1 DEF Moves, Steps
    <3> QED  BY <2>1, <3>1, IdleReq
  <2>5. Apart(c, "leave", "told") /\ LeadNeed(c, "leave", "told", FALSE)
    BY <2>4 DEF Apart, LeadNeed
  <2>6. BitNeed(c, "leave", "told", FALSE, TRUE)  BY <1>3, <2>1, <2>2 DEF BitNeed, Wanted
  <2>7. Tells(c, "leave", "told", FALSE, TRUE)  BY <1>3, <2>1, <2>3, <2>5, <2>6 DEF Tells
  <2> QED  BY <1>1, <2>1, <2>7, KnownMoves
<1>10. CASE BeginJoin
  <2>1. CC = Idle /\ JJ = Idle /\ row' = row
        /\ Moves("join", "begin", "hold", FALSE, FALSE, FALSE, FALSE)
    BY <1>1, <1>2, <1>10, BeginJoinMoves DEF Begins
  <2>2. CC.op = "none" /\ Req(call["join"]) = "none" /\ call["join"].at = "done"
    BY <1>2, <2>1, IdleReq
  <2>3. Fair("join", "begin", "hold", FALSE, FALSE)  BY <2>2 DEF Fair
  <2>4. Apart("join", "begin", "hold") /\ LeadNeed("join", "begin", "hold", FALSE)
    BY <2>2 DEF Apart, LeadNeed
  <2>5. BitNeed("join", "begin", "hold", FALSE, FALSE)  BY <1>3, <2>1, <2>2 DEF BitNeed
  <2>6. Tells("join", "begin", "hold", FALSE, FALSE)  BY <1>3, <2>1, <2>3, <2>4, <2>5 DEF Tells
  <2> QED  BY <1>1, <2>1, <2>6, KnownMoves
<1> QED  BY <1>5, <1>6, <1>7, <1>8, <1>9, <1>10

(* A promotion goes on or ends.                                            *)
LEMMA KnownLeads ==
  ASSUME Base, Rows, Known, LeadPosts \/ Led \/ LeadEnds
  PROVE  Known'
<1> DEFINE c == "control"
<1>1. Types /\ Shape /\ c \in Calls /\ row \in SyncStates  BY Names DEF Base, Types
<1>2. CC = call[c] /\ CC' = call'[c]  BY DEF CC
<1>3. row' = row => RowKeeps /\ row' \in SyncStates  BY <1>1 DEF RowKeeps
<1>4. CASE LeadPosts
  <2>1. /\ call[c].op = "lead" /\ call[c].at = "owned" /\ row' = row
        /\ \/ Moves(c, "lead", "led", TRUE, FALSE, FALSE, TRUE)
           \/ Moves(c, "lead", "led", TRUE, TRUE, TRUE, TRUE)
           \/ Moves(c, "none", "done", TRUE, FALSE, FALSE, FALSE)
    BY <1>1, <1>4, LeadPostsMoves DEF At, Leaves
  <2>2. Onward(c, "lead", "led") /\ Fair(c, "lead", "led", TRUE, TRUE)
    BY <2>1 DEF Onward, Fair, Wanted, Asks
  <2> QED  BY <1>1, <1>2, <1>3, <2>1, <2>2, KnownOn, KnownEnds
<1>5. CASE LeadEnds
  <2>1. /\ call[c].op = "lead" /\ call[c].at = "owned2" /\ row' = row
        /\ \/ Moves(c, "lead", "hold2", TRUE, TRUE, TRUE, FALSE)
           \/ Moves(c, "none", "done", TRUE, FALSE, FALSE, FALSE)
    BY <1>1, <1>5, LeadEndsMoves DEF At, Leaves, Shuts
  <2>2. Onward(c, "lead", "hold2") /\ Fair(c, "lead", "hold2", TRUE, FALSE)
    BY <2>1 DEF Onward, Fair
  <2> QED  BY <1>1, <1>2, <1>3, <2>1, <2>2, KnownOn, KnownEnds
<1>6. CASE Led
  <2>1. /\ call[c].op = "lead" /\ call[c].at = "led" /\ row' = row
        /\ \/ Head(back).said = "failed" /\ Moves(c, "none", "done", TRUE, TRUE, FALSE, FALSE)
           \/ Head(back).said = "failed" /\ Moves(c, "none", "done", TRUE, FALSE, FALSE, FALSE)
           \/ /\ Head(back).said = "promoted"
              /\ Moves(c, "lead", "row2", TRUE, TRUE, TRUE, TRUE)
           \/ /\ Head(back).said \in {"seeded", "noop"}
              /\ Moves(c, "lead", "hold", TRUE, TRUE, TRUE, FALSE)
           \/ /\ Head(back).said \in {"seeded", "noop"}
              /\ Moves(c, "lead", "row2", TRUE, FALSE, FALSE, TRUE)
    BY <1>1, <1>6, LedMoves DEF At, Leaves, Shuts, Walks
  <2>2. /\ Fair(c, "lead", "hold", TRUE, FALSE) /\ Fair(c, "lead", "row2", TRUE, TRUE)
    BY DEF Fair, Wanted, Asks
  <2>3. CASE Head(back).said \in {"seeded", "noop"}
    <3>1. Onward(c, "lead", "row2") /\ Onward(c, "lead", "hold")
      BY <2>1, <2>3 DEF Onward
    <3> QED  BY <1>1, <1>3, <2>1, <2>2, <2>3, <3>1, KnownOn
  <2>4. CASE Head(back).said = "failed"
    BY <1>1, <1>2, <1>3, <2>1, <2>4, KnownEnds
  <2>5. CASE Head(back).said = "promoted"
    <3>1. Moves(c, "lead", "row2", TRUE, TRUE, TRUE, TRUE) /\ Took(c)  BY <2>1, <2>5 DEF Moves
    <3>2. Head(back) = back[1] /\ back[1].from = c /\ 1 \in 1..Len(back)
      BY <1>1, <3>1, TookHead
    <3>3. db.headPending  BY <1>2, <2>1, <2>5, <3>2 DEF Known, Leading
    <3>4. CC'.op = "lead" /\ CC'.at = "row2" /\ db' = db  BY <1>1, <1>2, <3>1 DEF Moves, Steps
    <3>5. JoinBehind'  BY <3>3, <3>4 DEF JoinBehind
    <3>6. Apart(c, "lead", "row2")  BY <1>2, <2>1 DEF Apart
    <3>7. LeadNeed(c, "lead", "row2", TRUE)  BY <1>2, <2>1, <2>5 DEF LeadNeed
    <3>8. BitNeed(c, "lead", "row2", TRUE, TRUE)
      BY <1>2, <1>3, <2>1, <3>5 DEF BitNeed, Wanted
    <3>9. Tells(c, "lead", "row2", TRUE, TRUE)
      BY <1>3, <2>1, <2>2, <3>6, <3>7, <3>8 DEF Tells
    <3> QED  BY <1>1, <3>1, <3>9, KnownMoves
  <2> QED  BY <2>1, <2>3, <2>4, <2>5
<1> QED  BY <1>4, <1>5, <1>6

(* A demotion and a join are told, and an opening goes on or ends.         *)
LEMMA KnownTold ==
  ASSUME Base, Rows, Known,
         \/ \E s \in Calls : JoinTold(s)
         \/ Demoted \/ OpenRead \/ Acked
  PROVE  Known'
<1> DEFINE c == "control"
<1>1. Types /\ Shape /\ c \in Calls /\ "join" \in Calls /\ row \in SyncStates
  BY Names DEF Base, Types
<1>2. CC = call[c] /\ CC' = call'[c] /\ JJ = call["join"] /\ JJ' = call'["join"]  BY DEF CC, JJ
<1>3. row' = row => RowKeeps /\ row' \in SyncStates  BY <1>1 DEF RowKeeps
<1>4. CASE \E s \in Calls : JoinTold(s)
  <2>1. PICK s \in Calls : JoinTold(s)  BY <1>4
  <2> DEFINE op == call[s].op
  <2>2. /\ op \in {"begin", "leave", "finish"} /\ call[s].at = "told" /\ row' = row
        /\ Moves(s, op, "row", TRUE, FALSE, FALSE, TRUE)
    BY <1>1, <2>1, JoinToldMoves DEF Walks, At
  <2>3. s = "control" \/ s = "join"
    <3>1. Placed(s, call[s])  BY <1>1 DEF Shape
    <3> QED  BY <2>2, <3>1, IdleReq DEF Placed, MadeBy
  <2>4. s = "control" => CC = call[s] /\ op \in {"leave", "finish"}
    <3>1. Placed(s, call[s])  BY <1>1 DEF Shape
    <3> QED  BY <1>2, <2>2, <3>1, IdleReq DEF Placed, MadeBy
  <2>5. call'[s].op = op /\ call'[s].at = "row"  BY <2>2 DEF Moves, Steps
  <2>6. JoinBehind'  BY <1>2, <2>3, <2>4, <2>5 DEF JoinBehind
  <2>7. Fair(s, op, "row", TRUE, TRUE)  BY DEF Fair, Wanted, Asks
  <2>8. Apart(s, op, "row")  BY <1>2, <2>3, <2>4 DEF Apart
  <2>9. LeadNeed(s, op, "row", TRUE)  BY <1>2, <2>2, <2>4 DEF LeadNeed, Known, Finishing
  <2>10. BitNeed(s, op, "row", TRUE, TRUE)
    BY <1>2, <1>3, <2>2, <2>3, <2>4, <2>6 DEF BitNeed, Wanted
  <2>11. Tells(s, op, "row", TRUE, TRUE)  BY <1>3, <2>2, <2>7, <2>8, <2>9, <2>10 DEF Tells
  <2> QED  BY <2>2, <2>11, KnownMoves
<1>5. CASE Demoted
  <2>1. /\ call[c].op = "demote" /\ call[c].at = "told" /\ row' = row
        /\ Moves(c, "demote", "row", TRUE, FALSE, FALSE, TRUE)
    BY <1>1, <1>5, DemotedMoves DEF Walks, At
  <2>2. ~JoinTurn(1)
    <3>1. Head(back) = back[1] /\ back[1].from = c  BY <1>1, <2>1, TookHead DEF Moves
    <3> QED  BY <2>1, <3>1 DEF JoinTurn, Joining
  <2>3. Fair(c, "demote", "row", TRUE, TRUE)  BY DEF Fair, Wanted, Asks
  <2>4. Apart(c, "demote", "row") /\ LeadNeed(c, "demote", "row", TRUE)
    BY <1>2, <2>1 DEF Apart, LeadNeed
  <2>5. BitNeed(c, "demote", "row", TRUE, TRUE)
    BY <1>2, <1>3, <2>1, <2>2 DEF BitNeed, Wanted
  <2>6. Tells(c, "demote", "row", TRUE, TRUE)  BY <1>3, <2>1, <2>3, <2>4, <2>5 DEF Tells
  <2> QED  BY <1>1, <2>1, <2>6, KnownMoves
<1>6. CASE OpenRead
  <2>1. /\ call[c].op = "open" /\ call[c].at = "owned" /\ row' = row
        /\ \/ Moves(c, "none", "done", TRUE, FALSE, FALSE, FALSE)
           \/ ~Refused /\ Moves(c, "open", "ack", TRUE, FALSE, FALSE, TRUE)
           \/ ~Refused /\ Moves(c, "open", "seed", TRUE, TRUE, FALSE, TRUE)
    BY <1>1, <1>6, OpenReadMoves DEF At, Leaves, Walks, Lifts
  <2>2. Fair(c, "open", "ack", TRUE, TRUE) /\ Fair(c, "open", "seed", TRUE, TRUE)
    BY DEF Fair, Wanted, Asks
  <2>3. ~Refused => Onward(c, "open", "ack") /\ Onward(c, "open", "seed")
    BY <2>1 DEF Onward, Refused
  <2> QED  BY <1>1, <1>2, <1>3, <2>1, <2>2, <2>3, KnownOn, KnownEnds
<1>7. CASE Acked
  <2>1. /\ call[c].op = "open" /\ call[c].at = "ack"
        /\ row' = row \/ row' = [row EXCEPT !.headPending = FALSE]
        /\ \/ Moves(c, "none", "done", TRUE, FALSE, FALSE, FALSE)
           \/ Moves(c, "open", "seed", TRUE, TRUE, FALSE, TRUE)
    BY <1>1, <1>7, AckedMoves DEF At, Leaves, Lifts
  <2>2. RowKeeps /\ row' \in SyncStates
    <3>1. CASE row' = [row EXCEPT !.headPending = FALSE]
      BY <1>1, <3>1 DEF RowKeeps, SyncStates
    <3> QED  BY <1>3, <2>1, <3>1
  <2>3. Fair(c, "open", "seed", TRUE, TRUE) /\ Onward(c, "open", "seed")
    BY <2>1 DEF Fair, Wanted, Asks, Onward
  <2> QED  BY <1>1, <1>2, <2>1, <2>2, <2>3, KnownOn, KnownEnds
<1> QED  BY <1>4, <1>5, <1>6, <1>7

(* A step that leaves the row, the fences and what travels keeps it.       *)
LEMMA KnownStays ==
  ASSUME Known, UNCHANGED <<db, wfenced, wire, back, row, fenced, call>>
  PROVE  Known'
<1>1. CC' = CC /\ JJ' = JJ /\ (OnWire("joining")' <=> OnWire("joining"))  BY DEF CC, JJ, OnWire
<1>2. FenceSent' /\ Finishing' /\ Ordered(Lones)'
  BY <1>1 DEF Known, FenceSent, Finishing, Ordered
<1>3. Leading'  BY <1>1 DEF Known, Leading, Ordered
<1>4. \A k \in 1..Len(back) : JoinTurn(k)' <=> JoinTurn(k)  BY DEF JoinTurn
<1>5. JoinBack' /\ JoinMain'
  BY <1>1, <1>4 DEF Known, Joins, JoinBack, JoinMain, JoinTurned, JoinBehind
<1>6. Exclusive' /\ Unjoined' /\ OpenClear'
  BY <1>1 DEF Known, Joins, Exclusive, Unjoined, OpenClear
<1>7. LeaveTold' /\ LeaveGone'  BY <1>1 DEF Known, Joins, LeaveTold, LeaveGone
<1> QED  BY <1>2, <1>3, <1>5, <1>6, <1>7 DEF Known, Joins

(* Every step of main keeps it.                                            *)
LEMMA KnownMain ==
  ASSUME Base, Rows, Known, "overlap" \notin Also, Main
  PROVE  Known'
<1>1. CASE Stopped  BY <1>1, KnownStays DEF Stopped
<1>2. CASE \E s \in Calls : TakeRow(s) \/ HoldEnds(s) \/ JoinTold(s) \/ JoinRead(s)
  BY <1>2, KnownTakes, KnownPasses, KnownTold
<1>3. CASE \/ \E s \in Reports : LeaseRead(s)
           \/ \E s \in Reports, master \in BOOLEAN : SetLease(s, master)
  BY <1>3, KnownReports
<1>4. CASE (\E newer \in BOOLEAN : Lead(newer)) \/ (\E acked \in BOOLEAN : Open(acked))
           \/ Demote \/ BeginJoin \/ LeaveJoin \/ FinishJoin
  BY <1>4, KnownBegins
<1>5. CASE LeadPosts \/ Led \/ LeadEnds  BY <1>5, KnownLeads
<1>6. CASE Demoted \/ OpenRead \/ Acked  BY <1>6, KnownTold
<1>7. CASE \/ Seeded \/ ReleaseForRuns \/ RunAccounts \/ AttachHeld \/ DemoteHolds \/ JoinHeld
           \/ LeavePaused \/ LeadHeld
  BY <1>7, KnownPasses
<1> QED  BY <1>1, <1>2, <1>3, <1>4, <1>5, <1>6, <1>7 DEF Main

(* A device that has started knows.                                        *)
LEMMA WokenKnown == Woken => Known
<1> SUFFICES ASSUME Woken PROVE Known  OBVIOUS
<1>1. Len(back) = 0 /\ Len(wire) = 0 /\ fenced = wfenced  BY DEF Woken
<1>2. CC = Idle /\ JJ = Idle  BY Names DEF Woken, CC, JJ
<1>3. row \in SyncStates /\ db \in SyncStates /\ row.role = db.role /\ row.tracking = db.tracking
      /\ row.joining = db.joining
  BY DEF Woken
<1>4. FenceSent /\ Finishing /\ Leading
  BY <1>1, <1>2, IdleReq DEF FenceSent, Finishing, Leading
<1>5. Ordered(Lones)  BY <1>1, <1>3, SameSets DEF Ordered
<1>6. JoinBack /\ JoinMain /\ Exclusive /\ OpenClear
  BY <1>1, <1>2, <1>3, IdleReq DEF JoinBack, JoinMain, Exclusive, OpenClear
<1>7. Unjoined /\ LeaveTold /\ LeaveGone  BY <1>2, IdleReq DEF Unjoined, LeaveTold, LeaveGone
<1> QED  BY <1>4, <1>5, <1>6, <1>7 DEF Known, Joins

-----------------------------------------------------------------------------
(* The work runs exactly where it may.                                     *)

Working == work.runs \/ work.attached
Whole == work.runs /\ work.attached
\* A demotion has not shown in main's copy, or not stopped the work.
Telling == CC.op = "demote" /\ CC.at \in {"told", "row"}
Demoting == CC.op = "demote" /\ CC.at \in {"told", "row", "owned"}
\* A lone device that leads has not shown in main's copy.
Seeding == CC.op = "lead" /\ CC.at \in {"hold", "row2"}
\* A report that will stop the work of a device it finds fenced.
Reporting == \E s \in Reports : call[s].op = "lease" /\ call[s].at \in {"row", "owned"}
\* A join waits for the work to stop; no leave overtook it.
Entering == JJ.at = "hold" /\ ~JJ.late
\* A join is on its way or has happened.
Bits ==
  \/ OnWire("joining") \/ db.joining \/ row.joining
  \/ \E k \in 1..Len(back) : back[k].row.joining
\* What will run the work of an open device, or close it.
Excused ==
  \/ CC.op = "leave" \/ CC.at \in {"seed", "release", "accounts", "attach"}
  \/ Entering \/ OnWire("joining") \/ (db.joining /\ JJ.at \in {"told", "row"})
  \/ Telling \/ (Seeding /\ fenced)

\* A lone device is fenced only while a demotion or its promotion shows.
LoneOpen == row.role = "normal" /\ ~row.tracking /\ fenced => Telling \/ Seeding
\* What must not write has stopped, or something will stop it.
EnteringHolds == Entering => gate.holding /\ (gate.closing \/ ~Working)
JoinRests == Bits => ~Working
FenceRests == fenced /\ Working => gate.closing \/ Demoting \/ Reporting
FollowerRests == row.role = "follower" /\ Working => gate.closing \/ Demoting
\* What may write works whole, or something will see to it.
OpenWorks == ~Closed /\ (~Whole \/ gate.closing) => Excused
ReleasedOpen == CC.at \in {"accounts", "attach"} /\ gate.holding => Closed
ClosingHolds == gate.closing => gate.holding
AttachRuns == CC.at = "attach" /\ ~Closed => work.runs
Gating ==
  /\ LoneOpen /\ EnteringHolds /\ JoinRests /\ FenceRests /\ FollowerRests
  /\ OpenWorks /\ ReleasedOpen /\ ClosingHolds /\ AttachRuns

\* What a move that leaves the gate and the work needs.
Steady ==
  /\ Bits' => Bits \/ ~Working
  /\ Telling \/ Seeding => Telling' \/ Seeding'
  /\ Demoting => Demoting'
  /\ fenced /\ Reporting => Reporting'
  /\ Excused => Excused'
  /\ Entering' => Entering
  /\ CC'.at \in {"accounts", "attach"} => CC'.at = CC.at

(* A step that leaves the gate, the work, the fence and the row.           *)
LEMMA GateSteady ==
  ASSUME Gating, Steady, gate' = gate, work' = work, fenced' = fenced, RowKeeps
  PROVE  Gating'
<1>1. Closed' <=> Closed  BY DEF Closed, ReadOnly, RowKeeps
<1>2. (Working' <=> Working) /\ (Whole' <=> Whole)  BY DEF Working, Whole
<1>3. LoneOpen' /\ FenceRests' /\ FollowerRests'
  BY <1>2 DEF Gating, Steady, LoneOpen, FenceRests, FollowerRests, RowKeeps
<1>4. EnteringHolds' /\ JoinRests'  BY <1>2 DEF Gating, Steady, EnteringHolds, JoinRests
<1>5. OpenWorks'  BY <1>1, <1>2 DEF Gating, Steady, OpenWorks
<1>6. ReleasedOpen' /\ ClosingHolds' /\ AttachRuns'
  BY <1>1 DEF Gating, Steady, ReleasedOpen, ClosingHolds, AttachRuns
<1> QED  BY <1>3, <1>4, <1>5, <1>6 DEF Gating

(* What main's moves do to the joining bit, the reports and the join.      *)
LEMMA BitsMoves ==
  ASSUME Types, NEW s \in Calls, NEW op, NEW at, NEW took \in BOOLEAN,
         NEW posts \in BOOLEAN, NEW on \in BOOLEAN, NEW asks \in BOOLEAN,
         Moves(s, op, at, took, posts, on, asks), RowKeeps \/ RowTakes(took)
  PROVE  /\ Bits' => Bits \/ (asks /\ Wanted(op, at) = "joining")
         /\ OnWire("joining") => OnWire("joining")'
         /\ asks /\ Wanted(op, at) = "joining" => OnWire("joining")'
         /\ s # "control" => CC'.op = CC.op /\ CC'.at = CC.at
         /\ s # "join" => JJ'.op = JJ.op /\ JJ'.at = JJ.at
         /\ s = "control" => CC'.op = op /\ CC'.at = at
         /\ s = "join" => JJ'.op = op /\ JJ'.at = at
         /\ s \notin Reports => (Reporting' <=> Reporting)
         /\ db' = db
<1>1. /\ db' = db /\ call'[s].op = op /\ call'[s].at = at
      /\ \A t \in Calls \ {s} : call'[t].op = call[t].op /\ call'[t].at = call[t].at
  BY MovesDrops
<1>2. PICK d \in {0, 1} : Taking(s, took, d)  BY MovesDrops
<1>3. /\ Len(back') \in Nat
      /\ \A k \in 1..Len(back') : k + d \in 1..Len(back) /\ back'[k] = back[k + d]
      /\ took => 1 \in 1..Len(back) /\ Head(back) = back[1]
  BY <1>2 DEF Taking
<1>4. "joining" \in Asks /\ "control" \in Calls /\ "join" \in Calls /\ Reports \subseteq Calls
  BY Names DEF Asks, Calls
<1>5. OnWire("joining")' <=> OnWire("joining") \/ (asks /\ Wanted(op, at) = "joining")
  BY <1>4, WireMoves DEF Wiring
<1>6. Bits' => Bits \/ (asks /\ Wanted(op, at) = "joining")
  <2>1. row'.joining => Bits
    <3>1. CASE RowKeeps  BY <3>1 DEF RowKeeps, Bits
    <3>2. CASE RowTakes(took)  BY <1>3, <3>2 DEF RowTakes, Bits
    <3> QED  BY <3>1, <3>2
  <2>2. (\E k \in 1..Len(back') : back'[k].row.joining) => Bits
    BY <1>3 DEF Bits
  <2> QED  BY <1>1, <1>5, <2>1, <2>2 DEF Bits
<1>7. /\ s # "control" => CC'.op = CC.op /\ CC'.at = CC.at
      /\ s = "control" => CC'.op = op /\ CC'.at = at
  BY <1>1, <1>4 DEF CC
<1>8. /\ s # "join" => JJ'.op = JJ.op /\ JJ'.at = JJ.at
      /\ s = "join" => JJ'.op = op /\ JJ'.at = at
  BY <1>1, <1>4 DEF JJ
<1>9. s \notin Reports => (Reporting' <=> Reporting)
  <2> SUFFICES ASSUME s \notin Reports PROVE Reporting' <=> Reporting  OBVIOUS
  <2>1. \A t \in Reports : call'[t].op = call[t].op /\ call'[t].at = call[t].at  BY <1>1, <1>4
  <2> QED  BY <2>1 DEF Reporting
<1> QED  BY <1>1, <1>5, <1>6, <1>7, <1>8, <1>9

\* The gate, the work and the fence stay.
Stays == gate' = gate /\ work' = work /\ (fenced' <=> fenced)
\* Control goes from CC to op, at, and what it was to do is still to be done.
Carries(op, at) ==
  /\ at \notin {"accounts", "attach"}
  /\ Telling => op = "demote" /\ at \in {"told", "row"}
  /\ Demoting => op = "demote" /\ at \in {"told", "row", "owned"}
  /\ Seeding => op = "lead" /\ at \in {"hold", "row2"}
  /\ CC.op = "leave" \/ CC.at \in {"seed", "release", "accounts", "attach"} =>
       op = "leave" \/ at \in {"seed", "release"}

(* Control moves.                                                          *)
LEMMA GateControl ==
  ASSUME Base, Gating, NEW op, NEW at, NEW took \in BOOLEAN,
         NEW posts \in BOOLEAN, NEW on \in BOOLEAN, NEW asks \in BOOLEAN,
         Moves("control", op, at, took, posts, on, asks), op # "begin",
         RowKeeps, Stays, JJ'.late <=> JJ.late, Carries(op, at)
  PROVE  Gating'
<1> DEFINE c == "control"
<1>1. Types /\ c \in Calls /\ c \notin Reports /\ c # "join"
  BY Names, SyncFenceAssumption DEF Base
<1>2. asks /\ Wanted(op, at) = "joining" => FALSE  BY DEF Wanted
<1>3. /\ Bits' => Bits
      /\ OnWire("joining") => OnWire("joining")'
      /\ CC'.op = op /\ CC'.at = at /\ JJ'.op = JJ.op /\ JJ'.at = JJ.at
      /\ (Reporting' <=> Reporting) /\ db' = db
  BY <1>1, <1>2, BitsMoves
<1>4. (Entering' <=> Entering) /\ (fenced' <=> fenced)  BY <1>3 DEF Entering, Stays
<1>5. /\ Telling \/ Seeding => Telling' \/ Seeding'
      /\ Demoting => Demoting'
  BY <1>3 DEF Carries, Telling, Seeding, Demoting
<1>6. Excused => Excused'
  BY <1>3, <1>4 DEF Carries, Excused, Telling, Seeding
<1>7. Steady  BY <1>3, <1>4, <1>5, <1>6 DEF Steady, Carries
<1>8. fenced' = fenced /\ gate' = gate /\ work' = work
  <2>1. fenced \in BOOLEAN /\ fenced' \in BOOLEAN  BY <1>1 DEF Types, Moves
  <2> QED  BY <2>1 DEF Stays
<1> QED  BY <1>7, <1>8, GateSteady

(* A report of the lease moves.                                            *)
LEMMA GateReport ==
  ASSUME Base, Gating, NEW s \in Reports, NEW op, NEW at, NEW took \in BOOLEAN,
         NEW posts \in BOOLEAN, NEW on \in BOOLEAN, NEW asks \in BOOLEAN,
         Moves(s, op, at, took, posts, on, asks), op # "begin",
         RowKeeps, Stays, JJ'.late <=> JJ.late, fenced /\ Reporting => Reporting'
  PROVE  Gating'
<1>1. Types /\ s \in Calls /\ s # "control" /\ s # "join"  BY Names DEF Base
<1>2. asks /\ Wanted(op, at) = "joining" => FALSE  BY DEF Wanted
<1>3. /\ Bits' => Bits
      /\ OnWire("joining") => OnWire("joining")'
      /\ CC'.op = CC.op /\ CC'.at = CC.at /\ JJ'.op = JJ.op /\ JJ'.at = JJ.at /\ db' = db
  BY <1>1, <1>2, BitsMoves
<1>4. (Entering' <=> Entering) /\ (fenced' <=> fenced)  BY <1>3 DEF Entering, Stays
<1>5. /\ Telling \/ Seeding => Telling' \/ Seeding'
      /\ Demoting => Demoting'
  BY <1>3 DEF Telling, Seeding, Demoting
<1>6. Excused => Excused'  BY <1>3, <1>4 DEF Excused, Telling, Seeding
<1>7. Steady  BY <1>3, <1>4, <1>5, <1>6 DEF Steady
<1>8. fenced' = fenced /\ gate' = gate /\ work' = work
  <2>1. fenced \in BOOLEAN /\ fenced' \in BOOLEAN  BY <1>1 DEF Types, Moves
  <2> QED  BY <2>1 DEF Stays
<1> QED  BY <1>7, <1>8, GateSteady

(* The join moves.                                                         *)
LEMMA GateJoin ==
  ASSUME Base, Gating, NEW op, NEW at, NEW took \in BOOLEAN,
         NEW posts \in BOOLEAN, NEW on \in BOOLEAN, NEW asks \in BOOLEAN,
         Moves("join", op, at, took, posts, on, asks),
         RowKeeps, Stays, at # "hold",
         asks /\ Wanted(op, at) = "joining" => ~Working,
         Entering => asks /\ Wanted(op, at) = "joining",
         JJ.at = "told" => at = "row", JJ.at # "row"
  PROVE  Gating'
<1> DEFINE j == "join"
<1>1. Types /\ j \in Calls /\ j \notin Reports /\ j # "control"
  BY Names, SyncFenceAssumption DEF Base
<1>3. /\ Bits' => Bits \/ (asks /\ Wanted(op, at) = "joining")
      /\ OnWire("joining") => OnWire("joining")'
      /\ asks /\ Wanted(op, at) = "joining" => OnWire("joining")'
      /\ CC'.op = CC.op /\ CC'.at = CC.at /\ JJ'.op = op /\ JJ'.at = at
      /\ (Reporting' <=> Reporting) /\ db' = db
  <2>1. RowKeeps \/ RowTakes(took)  OBVIOUS
  <2>2. /\ Bits' => Bits \/ (asks /\ Wanted(op, at) = "joining")
        /\ OnWire("joining") => OnWire("joining")'
        /\ asks /\ Wanted(op, at) = "joining" => OnWire("joining")'
        /\ db' = db
    BY <1>1, <2>1, BitsMoves
  <2>3. CC'.op = CC.op /\ CC'.at = CC.at /\ JJ'.op = op /\ JJ'.at = at
    BY <1>1, Names DEF Moves, Steps, CC, JJ
  <2>4. Reporting' <=> Reporting  BY <1>1, <2>1, BitsMoves
  <2> QED  BY <2>2, <2>3, <2>4
<1>4. ~Entering' /\ (fenced' <=> fenced)  BY <1>3 DEF Entering, Stays
<1>5. /\ Telling \/ Seeding => Telling' \/ Seeding'
      /\ Demoting => Demoting'
  BY <1>3 DEF Telling, Seeding, Demoting
<1>6. Excused => Excused'  BY <1>3, <1>4 DEF Excused, Telling, Seeding
<1>7. Steady  BY <1>3, <1>4, <1>5, <1>6 DEF Steady
<1>8. fenced' = fenced /\ gate' = gate /\ work' = work
  <2>1. fenced \in BOOLEAN /\ fenced' \in BOOLEAN  BY <1>1 DEF Types, Moves
  <2> QED  BY <2>1 DEF Stays
<1> QED  BY <1>7, <1>8, GateSteady

(* Only the call that moves is touched, or an opening is told a close.     *)
LEMMA JoinLate ==
  ASSUME Base, NEW s \in Calls, s # "join",
         (\E n : Only(s, n) \/ Closing(s, n)) \/ (\E undo : s = "control" /\ Posted(undo))
         \/ (\A t \in Calls \ {s} : call'[t] = call[t])
  PROVE  JJ' = JJ
<1>1. Shape /\ "join" \in Calls  BY Names DEF Base
<1>2. Placed("join", call["join"])  BY <1>1 DEF Shape
<1>3. call["join"].op # "open"  BY <1>2, IdleReq DEF Placed, MadeBy
<1> QED  BY <1>1, <1>3 DEF Only, Closing, Posted, JJ

(* The reports: one begins, finds nothing to close, or ends.               *)
LEMMA GateReports ==
  ASSUME Base, Gating, NEW s \in Reports,
         \/ \E master \in BOOLEAN : SetLease(s, master) /\ ~Closes(master)
         \/ LeaseRead(s) /\ ~fenced /\ ~Closes(call[s].arg)
         \/ HoldEnds(s)
  PROVE  Gating'
<1>1. Types /\ Shape /\ s \in Calls /\ s # "control" /\ s # "join"  BY Names DEF Base
<1>2. "join" \in Calls /\ Placed("join", call["join"])  BY <1>1, Names DEF Shape
<1>3. CASE \E master \in BOOLEAN : SetLease(s, master) /\ ~Closes(master)
  <2>1. PICK master \in BOOLEAN : SetLease(s, master) /\ ~Closes(master)  BY <1>3
  <2>2. /\ call[s] = Idle /\ Moves(s, "lease", "row", FALSE, FALSE, FALSE, TRUE)
        /\ Reported(s, master) /\ fenced' = (fenced \/ Closes(master))
        /\ UNCHANGED <<row, gate, work>>
    BY <1>1, <2>1, SetLeaseMoves
  <2>3. JJ' = JJ
    <3>1. call["join"].op \notin {"lead", "open"}  BY <1>2, IdleReq DEF Placed, MadeBy
    <3> QED  BY <1>1, <1>2, <2>2, <3>1 DEF Reported, JJ
  <2>4. Reporting'
    <3>1. call'[s].op = "lease" /\ call'[s].at = "row"  BY <1>1, <2>2 DEF Moves, Steps
    <3> QED  BY <3>1 DEF Reporting
  <2>5. RowKeeps /\ Stays  BY <2>1, <2>2 DEF RowKeeps, Stays
  <2> QED  BY <2>2, <2>3, <2>4, <2>5, GateReport
<1>4. CASE LeaseRead(s) /\ ~fenced /\ ~Closes(call[s].arg)
  <2>1. /\ gate' = gate /\ Leaves(s, TRUE) /\ UNCHANGED <<row, work>>
    BY <1>1, <1>4, LeaseReadMoves
  <2>2. Moves(s, "none", "done", TRUE, FALSE, FALSE, FALSE) /\ JJ' = JJ /\ fenced' = fenced
    BY <1>1, <2>1, JoinLate DEF Leaves, Only
  <2>3. RowKeeps /\ Stays  BY <2>1, <2>2 DEF RowKeeps, Stays
  <2> QED  BY <1>4, <2>2, <2>3, GateReport
<1>5. CASE HoldEnds(s)
  <2>1. /\ call[s].at \in {"hold", "hold2"} /\ Leaves(s, FALSE) /\ UNCHANGED <<row, gate, work>>
    BY <1>1, <1>5, HoldEndsMoves DEF At
  <2>2. Moves(s, "none", "done", FALSE, FALSE, FALSE, FALSE) /\ JJ' = JJ /\ fenced' = fenced
    BY <1>1, <2>1, JoinLate DEF Leaves, Only
  <2>3. RowKeeps /\ Stays  BY <2>1, <2>2 DEF RowKeeps, Stays
  <2>4. Reporting => Reporting'
    <3> SUFFICES ASSUME NEW t \in Reports, call[t].op = "lease", call[t].at \in {"row", "owned"}
                 PROVE  Reporting'
      BY DEF Reporting
    <3>1. t # s /\ t \in Calls  BY <2>1, Names
    <3>2. call'[t].op = call[t].op /\ call'[t].at = call[t].at  BY <2>2, <3>1 DEF Moves, Steps
    <3> QED  BY <3>2 DEF Reporting
  <2> QED  BY <2>2, <2>3, <2>4, GateReport
<1> QED  BY <1>3, <1>4, <1>5

(* Control begins, goes on or ends, and nothing but the calls changes.     *)
LEMMA GateWalks ==
  ASSUME Base, Gating, NEW op, NEW at, NEW took \in BOOLEAN, NEW asks \in BOOLEAN,
         op # "begin", RowKeeps, gate' = gate, work' = work, Carries(op, at),
         \/ \E from : Walks("control", op, from, at, took, asks)
         \/ (\E arg : Begins("control", op, at, arg, asks)) /\ ~took
         \/ Leaves("control", took) /\ op = "none" /\ at = "done" /\ ~asks
  PROVE  Gating'
<1>1. Types /\ "control" \in Calls  BY Names DEF Base
<1>2. Moves("control", op, at, took, FALSE, FALSE, asks) /\ \E n : Only("control", n)
  <2>1. CASE \E from : Walks("control", op, from, at, took, asks)  BY <2>1 DEF Walks
  <2>2. CASE (\E arg : Begins("control", op, at, arg, asks)) /\ ~took
    <3>1. took = FALSE  BY <2>2
    <3> QED  BY <2>2, <3>1 DEF Begins
  <2>3. CASE Leaves("control", took) /\ op = "none" /\ at = "done" /\ ~asks
    <3>1. asks = FALSE  BY <2>3
    <3> QED  BY <2>3, <3>1 DEF Leaves
  <2> QED  BY <2>1, <2>2, <2>3
<1>3. JJ' = JJ
  <2>1. "control" # "join"  OBVIOUS
  <2> QED  BY <1>1, <1>2, <2>1, JoinLate
<1>4. Stays  BY <1>2 DEF Stays, Moves
<1> QED  BY <1>2, <1>3, <1>4, GateControl

(* A call of control begins that stops no work.                            *)
LEMMA GateBegins ==
  ASSUME Base, Gating,
         \/ \E newer \in BOOLEAN : Lead(newer)
         \/ \E acked \in BOOLEAN : Open(acked)
         \/ FinishJoin
  PROVE  Gating'
<1>1. Types  BY DEF Base
<1>2. PICK op \in {"lead", "open", "finish"} : \E at \in {"row", "told"} : \E arg :
        Begins("control", op, at, arg, TRUE) /\ UNCHANGED <<row, gate, work>>
  BY <1>1, LeadMoves, OpenMoves, FinishJoinMoves
<1>3. PICK at \in {"row", "told"} : \E arg :
        Begins("control", op, at, arg, TRUE) /\ UNCHANGED <<row, gate, work>>
  BY <1>2
<1>4. CC.op = "none" /\ CC.at = "done"  BY <1>3, IdleReq DEF CC, Begins
<1>5. Carries(op, at)  BY <1>4 DEF Carries, Telling, Demoting, Seeding
<1>6. RowKeeps  BY <1>3 DEF RowKeeps
<1> QED  BY <1>3, <1>5, <1>6, GateWalks

(* A call of control goes on, where nothing is held.                       *)
LEMMA GateGoes ==
  ASSUME Base, Gating,
         LeadHeld \/ Seeded \/ Demoted \/ LeavePaused \/ JoinTold("control") \/ JoinRead("control")
  PROVE  Gating'
<1> DEFINE c == "control"
<1>1. Types /\ Shape /\ c \in Calls /\ CC = call[c]  BY Names DEF Base, CC
<1>2. row' = row => RowKeeps  BY DEF RowKeeps
<1>3. CASE LeadHeld
  <2>1. Walks(c, "lead", "hold", "row2", FALSE, TRUE) /\ UNCHANGED <<row, gate, work>>
    BY <1>1, <1>3, LeadHeldMoves
  <2>2. Carries("lead", "row2")
    BY <1>1, <2>1 DEF Walks, At, Carries, Telling, Demoting, Seeding
  <2> QED  BY <1>2, <2>1, <2>2, GateWalks
<1>4. CASE Seeded
  <2>1. Walks(c, "open", "seed", "release", TRUE, FALSE) /\ UNCHANGED <<row, gate, work>>
    BY <1>1, <1>4, SeededMoves
  <2>2. Carries("open", "release")
    BY <1>1, <2>1 DEF Walks, At, Carries, Telling, Demoting, Seeding
  <2> QED  BY <1>2, <2>1, <2>2, GateWalks
<1>5. CASE Demoted
  <2>1. Walks(c, "demote", "told", "row", TRUE, TRUE) /\ UNCHANGED <<row, gate, work>>
    BY <1>1, <1>5, DemotedMoves
  <2>2. Carries("demote", "row")
    BY <1>1, <2>1 DEF Walks, At, Carries, Telling, Demoting, Seeding
  <2> QED  BY <1>2, <2>1, <2>2, GateWalks
<1>6. CASE LeavePaused
  <2>1. Walks(c, "leave", "paused", "release", TRUE, FALSE) /\ UNCHANGED <<row, gate, work>>
    BY <1>1, <1>6, LeavePausedMoves
  <2>2. Carries("leave", "release")
    BY <1>1, <2>1 DEF Walks, At, Carries, Telling, Demoting, Seeding
  <2> QED  BY <1>2, <2>1, <2>2, GateWalks
<1>7. Placed(c, call[c])  BY <1>1 DEF Shape
<1>8. call[c].op # "begin"  BY <1>7, IdleReq DEF Placed, MadeBy
<1>9. CASE JoinTold(c)
  <2>1. /\ call[c].op \in {"leave", "finish"} /\ UNCHANGED <<row, gate, work>>
        /\ Walks(c, call[c].op, "told", "row", TRUE, TRUE)
    BY <1>1, <1>8, <1>9, JoinToldMoves
  <2> DEFINE op == call[c].op
  <2>2. Carries(op, "row")
    BY <1>1, <2>1 DEF Walks, At, Carries, Telling, Demoting, Seeding
  <2>3. Walks(c, op, "told", "row", TRUE, TRUE) /\ op # "begin"  BY <1>8, <2>1
  <2> HIDE DEF op
  <2> QED  BY <1>2, <2>1, <2>2, <2>3, GateWalks
<1>10. CASE JoinRead(c)
  <2>1. /\ call[c].op \in {"leave", "finish"} /\ call[c].at = "owned"
        /\ UNCHANGED <<row, gate, work>>
        /\ \/ Walks(c, "leave", "owned", "paused", TRUE, TRUE)
           \/ call[c].op # "leave" /\ Leaves(c, TRUE)
    BY <1>1, <1>8, <1>10, JoinReadMoves
  <2>2. CASE Walks(c, "leave", "owned", "paused", TRUE, TRUE)
    <3>1. Carries("leave", "paused")
      BY <1>1, <2>1, <2>2 DEF Walks, At, Carries, Telling, Demoting, Seeding
    <3> QED  BY <1>2, <2>1, <2>2, <3>1, GateWalks
  <2>3. CASE call[c].op # "leave" /\ Leaves(c, TRUE)
    <3>1. Carries("none", "done")
      BY <1>1, <2>1, <2>3 DEF Carries, Telling, Demoting, Seeding
    <3> QED  BY <1>2, <2>1, <2>3, <3>1, GateWalks
  <2> QED  BY <2>1, <2>2, <2>3
<1> QED  BY <1>3, <1>4, <1>5, <1>6, <1>9, <1>10

(* A call of control ends, or goes on without a change of the fence.       *)
LEMMA GateEnds ==
  ASSUME Base, Gating,
         \/ HoldEnds("control")
         \/ LeadPosts /\ fenced' = fenced /\ row.role = "normal"
         \/ LeadPosts /\ Leaves("control", TRUE)
         \/ Led /\ Leaves("control", TRUE)
         \/ Led /\ Walks("control", "lead", "led", "row2", TRUE, TRUE) /\ gate' = gate
         \/ LeadEnds /\ Leaves("control", TRUE) /\ gate' = gate
         \/ OpenRead /\ Leaves("control", TRUE)
         \/ OpenRead /\ Walks("control", "open", "owned", "ack", TRUE, TRUE)
         \/ Acked /\ Leaves("control", TRUE)
  PROVE  Gating'
<1> DEFINE c == "control"
<1>1. Types /\ Shape /\ c \in Calls /\ CC = call[c]  BY Names DEF Base, CC
<1>2. row' = row => RowKeeps  BY DEF RowKeeps
<1>3. ASSUME NEW took \in BOOLEAN, Leaves(c, took), RowKeeps, gate' = gate, work' = work,
             \/ CC.op = "demote" /\ CC.at = "hold"
             \/ CC.op = "lead" /\ CC.at \in {"hold2", "owned", "led", "owned2"}
             \/ CC.op = "open" /\ CC.at \in {"owned", "ack"}
      PROVE  Gating'
  <2>1. Carries("none", "done")  BY <1>3 DEF Carries, Telling, Demoting, Seeding
  <2> QED  BY <1>3, <2>1, GateWalks
<1>4. CASE HoldEnds(c)
  <2>1. Placed(c, call[c])  BY <1>1 DEF Shape
  <2>2. call[c].op # "lease"  BY <2>1, IdleReq DEF Placed, MadeBy
  <2>3. /\ \/ CC.op = "demote" /\ CC.at = "hold"
           \/ CC.op = "lead" /\ CC.at = "hold2"
        /\ Leaves(c, FALSE) /\ UNCHANGED <<row, gate, work>>
    BY <1>1, <1>4, <2>2, HoldEndsMoves DEF At
  <2> QED  BY <1>2, <1>3, <2>3
<1>5. CASE LeadPosts /\ fenced' = fenced /\ row.role = "normal"
  <2>1. /\ CC.op = "lead" /\ CC.at = "owned" /\ UNCHANGED <<row, gate, work>>
        /\ Moves(c, "lead", "led", TRUE, FALSE, FALSE, TRUE)
        /\ \A t \in Calls \ {c} : call'[t] = call[t]
    BY <1>1, <1>5, LeadPostsMoves DEF At
  <2>2. JJ' = JJ  BY <2>1, Names DEF JJ
  <2>3. Carries("lead", "led")  BY <2>1 DEF Carries, Telling, Demoting, Seeding
  <2>4. Stays  BY <1>5, <2>1 DEF Stays
  <2> QED  BY <1>2, <2>1, <2>2, <2>3, <2>4, GateControl
<1>6. CASE LeadPosts /\ Leaves(c, TRUE)
  <2>1. CC.op = "lead" /\ CC.at = "owned" /\ UNCHANGED <<row, gate, work>>
    BY <1>1, <1>6, LeadPostsMoves DEF At
  <2> QED  BY <1>2, <1>3, <1>6, <2>1
<1>7. CASE Led /\ Leaves(c, TRUE)
  <2>1. CC.op = "lead" /\ CC.at = "led" /\ UNCHANGED <<row, work>>
    BY <1>1, <1>7, LedMoves DEF At
  <2>2. gate' = gate
    <3>1. call'[c].op = "none"  BY <1>1, <1>7, IdleReq DEF Leaves, Moves, Steps
    <3>2. Shuts(c, "lead", "led", "hold", TRUE, FALSE) => call'[c].op = "lead"
      BY <1>1 DEF Shuts, Moves, Steps
    <3> QED  BY <1>1, <1>7, <3>1, <3>2, LedMoves
  <2> QED  BY <1>2, <1>3, <1>7, <2>1, <2>2
<1>8. CASE Led /\ Walks(c, "lead", "led", "row2", TRUE, TRUE) /\ gate' = gate
  <2>1. CC.op = "lead" /\ CC.at = "led" /\ UNCHANGED <<row, work>>
    BY <1>1, <1>8, LedMoves DEF At
  <2>2. Carries("lead", "row2")  BY <2>1 DEF Carries, Telling, Demoting, Seeding
  <2> QED  BY <1>2, <1>8, <2>1, <2>2, GateWalks
<1>9. CASE LeadEnds /\ Leaves(c, TRUE) /\ gate' = gate
  <2>1. CC.op = "lead" /\ CC.at = "owned2" /\ UNCHANGED <<row, work>>
    BY <1>1, <1>9, LeadEndsMoves DEF At
  <2> QED  BY <1>2, <1>3, <1>9, <2>1
<1>10. CASE OpenRead /\ Leaves(c, TRUE)
  <2>1. CC.op = "open" /\ CC.at = "owned" /\ UNCHANGED <<row, gate, work>>
    BY <1>1, <1>10, OpenReadMoves DEF At
  <2> QED  BY <1>2, <1>3, <1>10, <2>1
<1>11. CASE OpenRead /\ Walks(c, "open", "owned", "ack", TRUE, TRUE)
  <2>1. CC.op = "open" /\ CC.at = "owned" /\ UNCHANGED <<row, gate, work>>
    BY <1>1, <1>11, OpenReadMoves DEF At
  <2>2. Carries("open", "ack")  BY <2>1 DEF Carries, Telling, Demoting, Seeding
  <2> QED  BY <1>2, <1>11, <2>1, <2>2, GateWalks
<1>12. CASE Acked /\ Leaves(c, TRUE)
  <2>1. /\ CC.op = "open" /\ CC.at = "ack" /\ UNCHANGED <<gate, work>>
        /\ (row' = row \/ row' = [row EXCEPT !.headPending = FALSE])
    BY <1>1, <1>12, AckedMoves DEF At
  <2>2. RowKeeps  BY <1>1, <2>1 DEF RowKeeps, Types, SyncStates
  <2> QED  BY <1>3, <1>12, <2>1, <2>2
<1> QED  BY <1>4, <1>5, <1>6, <1>7, <1>8, <1>9, <1>10, <1>11, <1>12

(* A promotion was answered: the device was fenced before.                 *)
LEMMA GatePromoted ==
  ASSUME Base, Pend, Known, Gating, Led, Head(back).said = "promoted"
  PROVE  Gating'
<1> DEFINE c == "control"
<1>1. Types /\ Shape /\ c \in Calls /\ CC = call[c]  BY Names DEF Base, CC
<1>2. /\ CC.op = "lead" /\ CC.at = "led" /\ UNCHANGED <<row, work>> /\ gate' = gate
      /\ Moves(c, "lead", "row2", TRUE, TRUE, TRUE, TRUE)
      /\ Closing(c, [call[c] EXCEPT !.at = "row2"])
  BY <1>1, LedMoves DEF At, Shuts
<1>3. Head(back) = back[1] /\ back[1].from = c /\ 1 \in 1..Len(back)
  BY <1>1, <1>2, TookHead DEF Moves
<1>4. db.headPending  BY <1>2, <1>3 DEF Known, Leading
<1>5. fenced  BY <1>4 DEF Pend, Pending
<1>6. fenced' /\ JJ' = JJ
  <2>1. c # "join"  OBVIOUS
  <2> QED  BY <1>1, <1>2, <2>1, JoinLate DEF Closing
<1>7. Carries("lead", "row2")  BY <1>2 DEF Carries, Telling, Demoting, Seeding
<1>8. RowKeeps /\ Stays  BY <1>2, <1>5, <1>6 DEF RowKeeps, Stays
<1> QED  BY <1>2, <1>6, <1>7, <1>8, GateControl

(* A join that has begun goes on.                                          *)
LEMMA GateJoins ==
  ASSUME Base, Gating, JoinHeld \/ JoinTold("join") \/ JoinRead("join")
  PROVE  Gating'
<1> DEFINE j == "join"
<1>1. Types /\ Shape /\ j \in Calls /\ JJ = call[j] /\ JJ' = call'[j]  BY Names DEF Base, JJ
<1>2. row' = row => RowKeeps  BY DEF RowKeeps
<1>3. Placed(j, call[j])  BY <1>1 DEF Shape
<1>4. JJ.op \notin {"leave", "finish"}
  BY <1>1, <1>3, IdleReq, SyncFenceAssumption DEF Placed, MadeBy
<1>5. CASE JoinHeld
  <2>1. /\ JJ.op = "begin" /\ JJ.at = "hold" /\ ~gate.closing /\ UNCHANGED <<row, gate, work>>
        /\ \/ JJ.late /\ Leaves(j, FALSE)
           \/ ~JJ.late /\ Walks(j, "begin", "hold", "told", FALSE, TRUE)
    BY <1>1, <1>5, JoinHeldMoves DEF At
  <2>2. CASE JJ.late /\ Leaves(j, FALSE)
    <3>1. ~Entering  BY <2>2 DEF Entering
    <3>2. Moves(j, "none", "done", FALSE, FALSE, FALSE, FALSE) /\ Stays
      BY <2>1, <2>2 DEF Leaves, Only, Stays
    <3> QED  BY <1>2, <2>1, <3>1, <3>2, GateJoin
  <2>3. CASE ~JJ.late /\ Walks(j, "begin", "hold", "told", FALSE, TRUE)
    <3>1. ~Working  BY <2>1, <2>3 DEF Gating, EnteringHolds, Entering
    <3>2. Moves(j, "begin", "told", FALSE, FALSE, FALSE, TRUE) /\ Stays
      BY <2>1, <2>3 DEF Walks, Only, Stays
    <3>3. Wanted("begin", "told") = "joining"  BY DEF Wanted
    <3> QED  BY <1>2, <2>1, <3>1, <3>2, <3>3, GateJoin
  <2> QED  BY <2>1, <2>2, <2>3
<1>6. CASE JoinTold(j)
  <2>1. /\ JJ.op = "begin" /\ JJ.at = "told" /\ UNCHANGED <<row, gate, work>>
        /\ Walks(j, "begin", "told", "row", TRUE, TRUE)
    BY <1>1, <1>4, <1>6, JoinToldMoves DEF Walks, At
  <2>2. Moves(j, "begin", "row", TRUE, FALSE, FALSE, TRUE) /\ Stays
    BY <2>1 DEF Walks, Only, Stays
  <2>3. ~Entering  BY <2>1 DEF Entering
  <2>4. Wanted("begin", "row") # "joining"  BY DEF Wanted
  <2> QED  BY <1>2, <2>1, <2>2, <2>3, <2>4, GateJoin
<1>7. CASE JoinRead(j)
  <2>1. JJ.at = "owned" /\ UNCHANGED <<row, gate, work>> /\ Leaves(j, TRUE)
    BY <1>1, <1>4, <1>7, JoinReadMoves DEF Walks, At
  <2>2. Moves(j, "none", "done", TRUE, FALSE, FALSE, FALSE) /\ Stays
    BY <2>1 DEF Leaves, Only, Stays
  <2>3. ~Entering  BY <2>1 DEF Entering
  <2> QED  BY <1>2, <2>1, <2>2, <2>3, GateJoin
<1> QED  BY <1>5, <1>6, <1>7

(* Leaving begins: a join that holds the work is overtaken (joinSeq).      *)
LEMMA GateLeaves ==
  ASSUME Base, Gating, LeaveJoin
  PROVE  Gating'
<1> DEFINE c == "control"
<1>1. Types /\ c \in Calls /\ c \notin Reports /\ c # "join"
  BY Names, SyncFenceAssumption DEF Base
<1>2. /\ CC = Idle /\ fenced' = fenced /\ UNCHANGED <<row, gate, work>>
      /\ Moves(c, "leave", "told", FALSE, FALSE, FALSE, TRUE)
      /\ JJ'.late = (JJ # Idle)
  BY <1>1, LeaveJoinMoves DEF CC, JJ
<1>3. RowKeeps  BY <1>2 DEF RowKeeps
<1>4. Wanted("leave", "told") # "joining"  BY DEF Wanted
<1>5. /\ Bits' => Bits
      /\ CC'.op = "leave" /\ CC'.at = "told" /\ JJ'.op = JJ.op /\ JJ'.at = JJ.at
      /\ (Reporting' <=> Reporting)
  BY <1>1, <1>2, <1>3, <1>4, BitsMoves
<1>6. ~Entering'
  <2>1. JJ.at = "hold" => JJ # Idle  BY IdleReq
  <2> QED  BY <1>2, <1>5, <2>1 DEF Entering
<1>7. ~Telling /\ ~Seeding /\ ~Demoting  BY <1>2, IdleReq DEF Telling, Seeding, Demoting
<1>8. Steady  BY <1>5, <1>6, <1>7 DEF Steady, Excused
<1> QED  BY <1>2, <1>3, <1>8, GateSteady

(* Main fences itself: what may have worked on closes or is told.          *)
LEMMA GateShuts ==
  ASSUME Types, Gating, fenced', gate' = gate, work' = work, RowKeeps,
         Bits' => Bits, Entering' => Entering, Demoting => Demoting',
         row.role = "follower" \/ row.tracking \/ Telling',
         Working => gate.closing \/ Demoting' \/ Reporting'
  PROVE  Gating'
<1>1. (Working' <=> Working) /\ (Whole' <=> Whole)  BY DEF Working, Whole
<1>2. row'.role = row.role /\ row'.tracking = row.tracking /\ row'.joining = row.joining
  BY DEF RowKeeps
<1>3. Closed' \/ Telling'  BY <1>2 DEF Closed, ReadOnly
<1>4. LoneOpen'  BY <1>2 DEF LoneOpen, Types, SyncStates
<1>5. EnteringHolds' /\ JoinRests'  BY <1>1 DEF Gating, EnteringHolds, JoinRests
<1>6. FenceRests' /\ FollowerRests'
  BY <1>1, <1>2 DEF Gating, FenceRests, FollowerRests
<1>7. OpenWorks'  BY <1>3 DEF OpenWorks, Excused
<1>8. ReleasedOpen' /\ AttachRuns'
  BY <1>3 DEF ReleasedOpen, AttachRuns, Telling
<1>9. ClosingHolds'  BY DEF Gating, ClosingHolds
<1> QED  BY <1>4, <1>5, <1>6, <1>7, <1>8, <1>9 DEF Gating

(* Main holds the work: it will have stopped.                              *)
LEMMA GateHolds ==
  ASSUME Gating, Hold, work' = work, RowKeeps, Bits' => Bits,
         row.role = "normal" /\ ~row.tracking /\ fenced' => Telling' \/ Seeding',
         Closed' \/ (Excused' /\ CC'.at \notin {"accounts", "attach"})
  PROVE  Gating'
<1>1. (Working' <=> Working) /\ (Whole' <=> Whole) /\ gate'.holding /\ gate'.closing
  BY DEF Working, Whole, Hold
<1>2. LoneOpen'  BY DEF LoneOpen, RowKeeps
<1>3. EnteringHolds' /\ JoinRests' /\ ClosingHolds'
  BY <1>1 DEF Gating, EnteringHolds, JoinRests, ClosingHolds
<1>4. FenceRests' /\ FollowerRests'  BY <1>1 DEF FenceRests, FollowerRests
<1>5. OpenWorks' /\ ReleasedOpen' /\ AttachRuns'  BY DEF OpenWorks, ReleasedOpen, AttachRuns
<1> QED  BY <1>2, <1>3, <1>4, <1>5 DEF Gating

(* Main opens: the work will run, or the device stays closed.              *)
LEMMA GateLifts ==
  ASSUME Gating, ~fenced', gate' = gate, work' = work, RowKeeps,
         Bits' => Bits, Entering' => Entering, Demoting => Demoting',
         Closed' \/ Excused', CC'.at \notin {"accounts", "attach"}
  PROVE  Gating'
<1>1. (Working' <=> Working) /\ (Whole' <=> Whole)  BY DEF Working, Whole
<1>2. LoneOpen' /\ FenceRests'  BY DEF LoneOpen, FenceRests
<1>3. EnteringHolds' /\ JoinRests'  BY <1>1 DEF Gating, EnteringHolds, JoinRests
<1>4. FollowerRests'  BY <1>1 DEF Gating, FollowerRests, RowKeeps
<1>5. OpenWorks' /\ ReleasedOpen' /\ AttachRuns'  BY DEF OpenWorks, ReleasedOpen, AttachRuns
<1>6. ClosingHolds'  BY DEF Gating, ClosingHolds
<1> QED  BY <1>2, <1>3, <1>4, <1>5, <1>6 DEF Gating

\* What a move leaves of the joining bit, of control and of the join.
Leaving(s) ==
  /\ Bits' => Bits
  /\ (Entering' => Entering)
  /\ s # "control" => CC'.op = CC.op /\ CC'.at = CC.at
  /\ s \notin Reports => (Reporting' <=> Reporting)

(* A move that asks for no joining, and leaves the join or is not of it.   *)
LEMMA MovesLeave ==
  ASSUME Types, NEW s \in Calls, NEW op, NEW at, NEW took \in BOOLEAN,
         NEW posts \in BOOLEAN, NEW on \in BOOLEAN, NEW asks \in BOOLEAN,
         Moves(s, op, at, took, posts, on, asks), RowKeeps,
         op # "begin", s # "join", JJ'.late <=> JJ.late
  PROVE  Leaving(s) /\ (s = "control" => CC'.op = op /\ CC'.at = at)
<1>1. ~(asks /\ Wanted(op, at) = "joining")  BY DEF Wanted
<1>8. RowKeeps \/ RowTakes(took)  OBVIOUS
<1>2. Bits' => Bits  BY <1>1, BitsMoves
<1>3. JJ'.op = JJ.op /\ JJ'.at = JJ.at  BY BitsMoves
<1>4. s # "control" => CC'.op = CC.op /\ CC'.at = CC.at  BY BitsMoves
<1>5. s = "control" => CC'.op = op /\ CC'.at = at  BY DEF Moves, Steps, CC
<1>6. s \notin Reports => (Reporting' <=> Reporting)
  <2> SUFFICES ASSUME s \notin Reports PROVE Reporting' <=> Reporting  OBVIOUS
  <2>1. \A t \in Reports : call'[t].op = call[t].op /\ call'[t].at = call[t].at
    BY Names DEF Moves, Steps
  <2> QED  BY <2>1 DEF Reporting
<1>7. Entering' => Entering  BY <1>3 DEF Entering
<1> QED  BY <1>2, <1>4, <1>5, <1>6, <1>7 DEF Leaving

(* A report finds the device to be closed, and main fences itself at once. *)
LEMMA GateLoss ==
  ASSUME Base, Gating, NEW s \in Reports, NEW master \in BOOLEAN, SetLease(s, master),
         Closes(master)
  PROVE  Gating'
<1>1. Types /\ Shape /\ s \in Calls /\ s # "control" /\ s # "join"  BY Names DEF Base
<1>2. "join" \in Calls /\ Placed("join", call["join"])  BY <1>1, Names DEF Shape
<1>3. /\ Moves(s, "lease", "row", FALSE, TRUE, TRUE, TRUE) /\ Reported(s, master)
      /\ fenced' = (fenced \/ Closes(master)) /\ UNCHANGED <<row, gate, work>>
  BY SetLeaseMoves, <1>1
<1>4. JJ' = JJ
  <2>1. call["join"].op \notin {"lead", "open"}  BY <1>2, IdleReq DEF Placed, MadeBy
  <2> QED  BY <1>1, <1>2, <1>3, <2>1 DEF Reported, JJ
<1>5. RowKeeps  BY <1>3 DEF RowKeeps
<1>6. Leaving(s)  BY <1>1, <1>3, <1>4, <1>5, MovesLeave
<1>7. Demoting => Demoting'  BY <1>1, <1>6 DEF Leaving, Demoting
<1>8. Reporting'
  <2>1. call'[s].op = "lease" /\ call'[s].at = "row"  BY <1>1, <1>3 DEF Moves, Steps
  <2> QED  BY <2>1 DEF Reporting
<1>9. row.tracking /\ fenced'  BY <1>3 DEF Closes
<1> QED  BY <1>1, <1>3, <1>5, <1>6, <1>7, <1>8, <1>9, GateShuts DEF Leaving

(* A follower closes before it is promoted, and a demoted device first.    *)
LEMMA GateCloses ==
  ASSUME Base, Gating,
         \/ LeadPosts /\ Moves("control", "lead", "led", TRUE, TRUE, TRUE, TRUE)
              /\ row.role = "follower" /\ Posted(~fenced)
         \/ Demote
  PROVE  Gating'
<1> DEFINE c == "control"
<1>1. Types /\ Shape /\ c \in Calls /\ c \notin Reports /\ c # "join" /\ CC = call[c]
  BY Names, SyncFenceAssumption DEF Base, CC
<1>2. row' = row => RowKeeps  BY DEF RowKeeps
<1>3. CASE LeadPosts /\ Moves(c, "lead", "led", TRUE, TRUE, TRUE, TRUE)
           /\ row.role = "follower" /\ Posted(~fenced)
  <2>1. CC.op = "lead" /\ CC.at = "owned" /\ UNCHANGED <<row, gate, work>>
    BY <1>1, <1>3, LeadPostsMoves DEF At
  <2>2. JJ' = JJ  BY <1>1, <1>3, JoinLate
  <2>3. Leaving(c)  BY <1>1, <1>2, <1>3, <2>1, <2>2, MovesLeave
  <2>4. fenced'  BY <1>3 DEF Moves
  <2>5. ~Demoting  BY <2>1 DEF Demoting
  <2>6. Working => gate.closing  BY <1>3, <2>5 DEF Gating, FollowerRests
  <2> QED  BY <1>1, <1>2, <1>3, <2>1, <2>3, <2>4, <2>5, <2>6, GateShuts DEF Leaving
<1>4. CASE Demote
  <2> DEFINE n == [op |-> "demote", at |-> "told", arg |-> FALSE, late |-> FALSE, undo |-> FALSE]
  <2>1. /\ CC = Idle /\ UNCHANGED <<row, gate, work>>
        /\ Moves(c, "demote", "told", FALSE, TRUE, TRUE, TRUE) /\ Closing(c, n)
    BY <1>1, <1>4, DemoteMoves
  <2> HIDE DEF n
  <2>2. JJ' = JJ  BY <1>1, <2>1, JoinLate
  <2>6. CC'.op = "demote" /\ CC'.at = "told"  BY <1>1, <2>1 DEF Moves, Steps, CC
  <2>7. Leaving(c)  BY <1>1, <1>2, <2>1, <2>2, MovesLeave
  <2>3. Leaving(c) /\ CC'.op = "demote" /\ CC'.at = "told"  BY <2>6, <2>7
  <2>4. fenced'  BY <2>1 DEF Closing
  <2>5. Telling' /\ Demoting'  BY <2>3 DEF Telling, Demoting
  <2> QED  BY <1>1, <1>2, <2>1, <2>3, <2>4, <2>5, GateShuts DEF Leaving
<1> QED  BY <1>3, <1>4

(* A report that finds the device fenced, or to be closed, holds the work. *)
LEMMA GateReportHolds ==
  ASSUME Base, Gating, NEW s \in Reports, LeaseRead(s), fenced \/ Closes(call[s].arg)
  PROVE  Gating'
<1>1. Types /\ s \in Calls /\ s # "control" /\ s # "join" /\ row \in SyncStates
  BY Names DEF Base, Types
<1>2. PICK posts \in BOOLEAN :
        /\ Moves(s, "lease", "hold", TRUE, posts, posts, FALSE)
        /\ JJ' = JJ /\ Hold /\ UNCHANGED <<row, work>> /\ fenced'
  <2>1. /\ fenced' = (fenced \/ Closes(call[s].arg)) /\ UNCHANGED <<row, work>>
        /\ \/ Hold /\ Walks(s, "lease", "owned", "hold", TRUE, FALSE)
           \/ /\ Hold /\ Moves(s, "lease", "hold", TRUE, TRUE, TRUE, FALSE)
              /\ Closing(s, [call[s] EXCEPT !.at = "hold"])
    BY <1>1, LeaseReadMoves
  <2>2. JJ' = JJ
    <3>1. \E n : Only(s, n) \/ Closing(s, n)  BY <2>1 DEF Walks
    <3> QED  BY <1>1, <3>1, JoinLate
  <2>3. fenced'  BY <2>1
  <2> QED  BY <2>1, <2>2, <2>3 DEF Walks
<1>3. RowKeeps  BY <1>2 DEF RowKeeps
<1>4. Leaving(s)  BY <1>1, <1>2, <1>3, MovesLeave
<1>5. row.role = "normal" /\ ~row.tracking => fenced  BY DEF Closes
<1>6. row.role = "normal" /\ ~row.tracking => Telling \/ Seeding
  BY <1>5 DEF Gating, LoneOpen
<1>7. row.role = "normal" /\ ~row.tracking => Telling' \/ Seeding'
  BY <1>1, <1>4, <1>6 DEF Leaving, Telling, Seeding
<1>8. Closed' \/ (Telling' \/ Seeding')
  BY <1>1, <1>2, <1>7 DEF Closed, ReadOnly, SyncStates
<1>9. Telling' \/ Seeding' => Excused' /\ CC'.at \notin {"accounts", "attach"}
  BY <1>2 DEF Telling, Seeding, Excused
<1> QED  BY <1>2, <1>3, <1>4, <1>7, <1>8, <1>9, GateHolds DEF Leaving

(* A promotion that a loss overtook holds the work.                        *)
LEMMA GateLeadHolds ==
  ASSUME Base, Gating,
         \/ Led /\ Hold /\ Shuts("control", "lead", "led", "hold", TRUE, FALSE)
         \/ LeadEnds /\ Overtaken("control", TRUE) /\ Hold
              /\ Shuts("control", "lead", "owned2", "hold2", TRUE, FALSE)
  PROVE  Gating'
<1> DEFINE c == "control"
<1>1. Types /\ c \in Calls /\ c # "join" /\ CC = call[c]  BY Names DEF Base, CC
<1>2. row' = row => RowKeeps  BY DEF RowKeeps
<1>3. CASE Led /\ Hold /\ Shuts(c, "lead", "led", "hold", TRUE, FALSE)
  <2>1. UNCHANGED <<row, work>>  BY <1>1, <1>3, LedMoves
  <2>2. Moves(c, "lead", "hold", TRUE, TRUE, TRUE, FALSE) /\ fenced' /\ JJ' = JJ
    BY <1>1, <1>3, JoinLate DEF Shuts, Closing
  <2>5. CC'.op = "lead" /\ CC'.at = "hold"  BY <1>1, <2>2 DEF Moves, Steps, CC
  <2>6. Leaving(c)  BY <1>1, <1>2, <2>1, <2>2, MovesLeave
  <2>3. Leaving(c) /\ CC'.op = "lead" /\ CC'.at = "hold"  BY <2>5, <2>6
  <2>4. Seeding' /\ Excused'  BY <2>2, <2>3 DEF Seeding, Excused
  <2> QED  BY <1>2, <1>3, <2>1, <2>3, <2>4, GateHolds DEF Leaving
<1>4. CASE LeadEnds /\ Overtaken(c, TRUE) /\ Hold
             /\ Shuts(c, "lead", "owned2", "hold2", TRUE, FALSE)
  <2>1. UNCHANGED <<row, work>>  BY <1>1, <1>4, LeadEndsMoves
  <2>2. Moves(c, "lead", "hold2", TRUE, TRUE, TRUE, FALSE) /\ fenced' /\ JJ' = JJ
    BY <1>1, <1>4, JoinLate DEF Shuts, Closing
  <2>3. Leaving(c)  BY <1>1, <1>2, <2>1, <2>2, MovesLeave
  <2>4. row.tracking  BY <1>4 DEF Overtaken
  <2>5. Closed'  BY <2>1, <2>2, <2>4 DEF Closed, ReadOnly
  <2> QED  BY <1>2, <1>4, <2>1, <2>3, <2>4, <2>5, GateHolds DEF Leaving
<1> QED  BY <1>3, <1>4

(* A demoted device, and one that joins, holds its work.                   *)
LEMMA GateDemoteJoin ==
  ASSUME Base, Rows, Gating, "overlap" \notin Also, DemoteHolds \/ BeginJoin
  PROVE  Gating'
<1> DEFINE c == "control"
<1>1. Types /\ c \in Calls /\ c # "join" /\ "join" \in Calls /\ CC = call[c] /\ JJ' = call'["join"]
  BY Names DEF Base, CC, JJ
<1>2. row' = row => RowKeeps  BY DEF RowKeeps
<1>3. CASE DemoteHolds
  <2>1. /\ CC.op = "demote" /\ CC.at = "owned" /\ Hold /\ UNCHANGED <<row, work>>
        /\ Moves(c, "demote", "hold", TRUE, FALSE, FALSE, FALSE)
        /\ Only(c, [call[c] EXCEPT !.at = "hold"])
    BY <1>1, <1>3, DemoteHoldsMoves DEF Walks, At
  <2>2. JJ' = JJ  BY <1>1, <2>1, JoinLate
  <2>3. Leaving(c)  BY <1>1, <1>2, <2>1, <2>2, MovesLeave
  <2>4. ~Turned /\ ~Behind  BY <2>1 DEF Turned, Turn, Turning, Behind
  <2>5. row.role = "follower"
    BY <2>1, <2>4 DEF Rows, RowsMain, RowsDemote, Agrees
  <2>6. Closed'  BY <2>1, <2>5 DEF Closed, ReadOnly
  <2> QED  BY <1>2, <2>1, <2>3, <2>5, <2>6, GateHolds DEF Leaving
<1>4. CASE BeginJoin
  <2>1. /\ CC = Idle /\ Hold /\ UNCHANGED <<row, work>>
        /\ Begins("join", "begin", "hold", FALSE, FALSE)
    BY <1>1, <1>4, BeginJoinMoves
  <2> DEFINE n == [op |-> "begin", at |-> "hold", arg |-> FALSE, late |-> FALSE, undo |-> FALSE]
  <2>8. Moves("join", "begin", "hold", FALSE, FALSE, FALSE, FALSE) /\ Only("join", n)
    BY <2>1 DEF Begins
  <2>9. ~n.late /\ n.at = "hold"  OBVIOUS
  <2> HIDE DEF n
  <2>2. /\ Moves("join", "begin", "hold", FALSE, FALSE, FALSE, FALSE)
        /\ ~call'["join"].late /\ call'["join"].at = "hold" /\ fenced' = fenced
    BY <2>8, <2>9 DEF Only
  <2>3. Bits' => Bits  BY <1>1, <1>2, <2>1, <2>2, BitsMoves
  <2>4. CC'.op = CC.op /\ CC'.at = CC.at  BY <1>1, <2>2 DEF Moves, Steps, CC
  <2>5. CC.op = "none" /\ CC.at = "done"  BY <2>1, IdleReq
  <2>6. Excused'  BY <1>1, <2>2 DEF Entering, Excused
  <2>7. row.role = "normal" /\ ~row.tracking /\ fenced' => FALSE
    BY <2>2, <2>5 DEF Gating, LoneOpen, Telling, Seeding
  <2> QED  BY <1>2, <2>1, <2>3, <2>4, <2>5, <2>6, <2>7, GateHolds
<1> QED  BY <1>3, <1>4

(* The fence lifts: an opening, or a promotion of a follower that failed.  *)
LEMMA GateOpens ==
  ASSUME Base, Rows, Pend, Known, Gating,
         \/ OpenRead /\ Lifts("control", "open", "owned", "seed", TRUE)
         \/ Acked /\ Lifts("control", "open", "ack", "seed", TRUE)
         \/ Led /\ Head(back).said = "failed" /\ CC.undo
  PROVE  Gating'
<1> DEFINE c == "control"
<1>1. Types /\ Mail /\ c \in Calls /\ c # "join" /\ CC = call[c] /\ row \in SyncStates
  BY Names DEF Base, CC, Types
<1>2. row' = row => RowKeeps  BY DEF RowKeeps
<1>3. ASSUME CC.op = "open", RowKeeps, UNCHANGED <<gate, work>>,
             NEW from, Lifts(c, "open", from, "seed", TRUE)
      PROVE  Gating'
  <2>1. /\ Moves(c, "open", "seed", TRUE, TRUE, FALSE, TRUE) /\ ~fenced'
        /\ \A t \in Calls \ {c} : call'[t] = call[t]
    BY <1>3 DEF Lifts
  <2>2. JJ' = JJ  BY <1>1, <2>1, JoinLate
  <2>3. Leaving(c) /\ CC'.op = "open" /\ CC'.at = "seed"
    BY <1>1, <1>3, <2>1, <2>2, MovesLeave
  <2>4. Excused'  BY <2>3 DEF Excused
  <2>5. ~Demoting  BY <1>3 DEF Demoting
  <2> QED  BY <1>3, <2>1, <2>3, <2>4, <2>5, GateLifts DEF Leaving
<1>4. CASE OpenRead /\ Lifts(c, "open", "owned", "seed", TRUE)
  <2>1. CC.op = "open" /\ UNCHANGED <<row, gate, work>>
    BY <1>1, <1>4, OpenReadMoves DEF At
  <2> QED  BY <1>2, <1>3, <1>4, <2>1
<1>5. CASE Acked /\ Lifts(c, "open", "ack", "seed", TRUE)
  <2>1. /\ CC.op = "open" /\ UNCHANGED <<gate, work>>
        /\ (row' = row \/ row' = [row EXCEPT !.headPending = FALSE])
    BY <1>1, <1>5, AckedMoves DEF At
  <2>2. RowKeeps  BY <1>1, <2>1 DEF RowKeeps, SyncStates
  <2> QED  BY <1>3, <1>5, <2>1, <2>2
<1>6. CASE Led /\ Head(back).said = "failed" /\ CC.undo
  <2>1. /\ CC.op = "lead" /\ CC.at = "led" /\ UNCHANGED <<row, gate, work>>
        /\ Moves(c, "none", "done", TRUE, TRUE, FALSE, FALSE) /\ ~fenced'
        /\ \A t \in Calls \ {c} : call'[t] = call[t]
    BY <1>1, <1>6, LedMoves DEF At
  <2>2. JJ' = JJ  BY <1>1, <2>1, JoinLate
  <2>9. CC'.at = "done"  BY <1>1, <2>1 DEF Moves, Steps, CC
  <2>10. Leaving(c)  BY <1>1, <1>2, <2>1, <2>2, MovesLeave
  <2>3. Leaving(c) /\ CC'.at = "done"  BY <2>9, <2>10
  <2>4. Took(c)  BY <2>1 DEF Moves
  <2>5. db.role = "follower"  BY <1>1, <1>6, <2>1, <2>4, FailedAlone DEF Pend, Undone
  <2>6. row.role = "follower"
    <3>1. db \in SyncStates  BY <1>1 DEF Types
    <3> QED  BY <1>1, <2>1, <2>5, <3>1, InSets DEF Known, Leading, Ordered
  <2>7. Closed'  BY <2>1, <2>6 DEF Closed, ReadOnly
  <2>8. ~Demoting  BY <2>1 DEF Demoting
  <2> QED  BY <1>2, <2>1, <2>3, <2>7, <2>8, GateLifts DEF Leaving
<1> QED  BY <1>4, <1>5, <1>6

(* Where the work is resumed nothing else is under way.                    *)
LEMMA Resumed ==
  ASSUME Base, Known, Gating, CC.at \in {"release", "accounts", "attach"}
  PROVE  /\ CC.op \in {"open", "leave"}
         /\ ~Entering /\ ~Telling /\ ~Seeding /\ ~Demoting
         /\ ~Closed => ~fenced /\ ~Bits /\ row.role = "normal"
<1>1. Types /\ Shape /\ "join" \in Calls /\ row \in SyncStates /\ JJ = call["join"]
  BY Names DEF Base, Types, JJ
<1>2. CC.op \in {"open", "leave"}  BY <1>1, Resumes
<1>3. ~Telling /\ ~Seeding /\ ~Demoting  BY <1>2 DEF Telling, Seeding, Demoting
<1>4. ~Entering
  <2> SUFFICES ASSUME JJ.at = "hold", ~JJ.late PROVE FALSE  BY DEF Entering
  <2>1. JJ.op # "none"  BY <1>1, IdleOp
  <2> QED  BY <1>2, <2>1 DEF Known, Joins, Exclusive
<1>5. ~Closed => ~fenced /\ row.role = "normal"
  BY <1>1, <1>3 DEF Gating, LoneOpen, Closed, ReadOnly, SyncStates
<1>6. ~Closed => ~Bits
  <2> SUFFICES ASSUME ~Closed PROVE ~Bits  OBVIOUS
  <2>1. ~row.joining  BY DEF Closed, ReadOnly
  <2>2. CASE CC.op = "open"  BY <2>1, <2>2, OpenJoin DEF Known, Bits
  <2>3. CASE CC.op = "leave"  BY <2>1, <2>3 DEF Known, Joins, LeaveGone, Bits
  <2> QED  BY <1>2, <2>2, <2>3
<1> QED  BY <1>2, <1>3, <1>4, <1>5, <1>6

(* The hold ends, the accounts run, the kept workers are attached.         *)
LEMMA GateResumes ==
  ASSUME Base, Known, Gating, ReleaseForRuns \/ RunAccounts \/ AttachHeld
  PROVE  Gating'
<1> DEFINE c == "control"
<1>1. /\ Types /\ c \in Calls /\ c # "join" /\ c \notin Reports /\ CC = call[c]
      /\ gate \in [holding : BOOLEAN, closing : BOOLEAN]
      /\ work \in [runs : BOOLEAN, attached : BOOLEAN]
  BY Names, SyncFenceAssumption DEF Base, CC, Types
<1>2. row' = row => RowKeeps  BY DEF RowKeeps
<1>3. PICK op \in {"open", "leave", "none"} : \E at \in {"accounts", "attach", "done"},
           took \in BOOLEAN, asks \in BOOLEAN :
        /\ Moves(c, op, at, took, FALSE, FALSE, asks) /\ JJ' = JJ
        /\ UNCHANGED <<row, fenced>> /\ CC.at \in {"release", "accounts", "attach"}
        /\ \/ CC.at = "release" /\ at = "accounts" /\ ~gate.closing
              /\ gate' = [gate EXCEPT !.holding = FALSE] /\ work' = work
           \/ CC.at = "accounts" /\ at = "attach" /\ gate' = gate
              /\ work' = [work EXCEPT !.runs = @ \/ (~gate.holding /\ ~Closed)]
           \/ CC.at = "attach" /\ at = "done" /\ ~gate.closing
              /\ gate' = [gate EXCEPT !.holding = FALSE]
              /\ work' = [work EXCEPT !.attached = @ \/ ~Closed]
  <2>1. CASE ReleaseForRuns
    <3>1. /\ Walks(c, CC.op, "release", "accounts", FALSE, TRUE)
          /\ ~gate.closing /\ gate' = [gate EXCEPT !.holding = FALSE] /\ UNCHANGED <<row, work>>
      BY <1>1, <2>1, ReleaseForRunsMoves
    <3>2. CC.at = "release" /\ CC.op \in {"open", "leave"}
      BY <1>1, <3>1, Resumed DEF Walks, At
    <3>3. JJ' = JJ /\ fenced' = fenced  BY <1>1, <3>1, JoinLate DEF Walks, Only
    <3>4. Moves(c, CC.op, "accounts", FALSE, FALSE, FALSE, TRUE)  BY <3>1 DEF Walks
    <3> QED  BY <3>1, <3>2, <3>3, <3>4
  <2>2. CASE RunAccounts
    <3>1. /\ Walks(c, CC.op, "accounts", "attach", TRUE, FALSE)
          /\ work' = [work EXCEPT !.runs = @ \/ (~gate.holding /\ ~Closed)]
          /\ UNCHANGED <<row, gate>>
      BY <1>1, <2>2, RunAccountsMoves
    <3>2. CC.at = "accounts" /\ CC.op \in {"open", "leave"}
      BY <1>1, <3>1, Resumed DEF Walks, At
    <3>3. JJ' = JJ /\ fenced' = fenced  BY <1>1, <3>1, JoinLate DEF Walks, Only
    <3>4. Moves(c, CC.op, "attach", TRUE, FALSE, FALSE, FALSE)  BY <3>1 DEF Walks
    <3> QED  BY <3>1, <3>2, <3>3, <3>4
  <2>3. CASE AttachHeld
    <3>1. /\ CC.at = "attach" /\ Leaves(c, FALSE)
          /\ ~gate.closing /\ gate' = [gate EXCEPT !.holding = FALSE] /\ row' = row
          /\ work' = [work EXCEPT !.attached = @ \/ ~Closed]
      BY <1>1, <2>3, AttachHeldMoves
    <3>3. JJ' = JJ /\ fenced' = fenced  BY <1>1, <3>1, JoinLate DEF Leaves, Only
    <3>4. Moves(c, "none", "done", FALSE, FALSE, FALSE, FALSE)  BY <3>1 DEF Leaves
    <3> QED  BY <3>1, <3>3, <3>4
  <2> QED  BY <2>1, <2>2, <2>3
<1>4. PICK at \in {"accounts", "attach", "done"} : \E took \in BOOLEAN, asks \in BOOLEAN :
        /\ Moves(c, op, at, took, FALSE, FALSE, asks) /\ JJ' = JJ
        /\ UNCHANGED <<row, fenced>> /\ CC.at \in {"release", "accounts", "attach"}
        /\ \/ CC.at = "release" /\ at = "accounts" /\ ~gate.closing
              /\ gate' = [gate EXCEPT !.holding = FALSE] /\ work' = work
           \/ CC.at = "accounts" /\ at = "attach" /\ gate' = gate
              /\ work' = [work EXCEPT !.runs = @ \/ (~gate.holding /\ ~Closed)]
           \/ CC.at = "attach" /\ at = "done" /\ ~gate.closing
              /\ gate' = [gate EXCEPT !.holding = FALSE]
              /\ work' = [work EXCEPT !.attached = @ \/ ~Closed]
  BY <1>3
<1>5. /\ row' = row /\ fenced' = fenced /\ JJ' = JJ
      /\ CC.at \in {"release", "accounts", "attach"} /\ RowKeeps
  BY <1>2, <1>4
<1>6. CC'.op = op /\ CC'.at = at  BY <1>1, <1>4 DEF Moves, Steps, CC
<1>7. Leaving(c)
  <2>1. PICK took \in BOOLEAN, asks \in BOOLEAN : Moves(c, op, at, took, FALSE, FALSE, asks)
    BY <1>4
  <2>2. op # "begin"  OBVIOUS
  <2>3. Types /\ c \in Calls /\ c # "join" /\ RowKeeps /\ (JJ'.late <=> JJ.late)
    BY <1>1, <1>5
  <2>4. /\ took \in BOOLEAN /\ asks \in BOOLEAN
        /\ Moves(c, op, at, took, FALSE, FALSE, asks)
    BY <2>1
  <2> HIDE DEF c
  <2> QED  BY <2>2, <2>3, <2>4, MovesLeave
<1>8. /\ ~Entering /\ ~Telling /\ ~Seeding /\ ~Demoting
      /\ ~Closed => ~fenced /\ ~Bits /\ row.role = "normal"
  BY <1>5, Resumed
<1>9. Closed' <=> Closed  BY <1>5 DEF Closed
<1>10. (Working' => Working \/ ~Closed) /\ (gate'.closing <=> gate.closing)
  <2>1. CASE work' = work /\ gate' = [gate EXCEPT !.holding = FALSE]
    BY <1>1, <2>1 DEF Working
  <2>2. CASE gate' = gate /\ work' = [work EXCEPT !.runs = @ \/ (~gate.holding /\ ~Closed)]
    BY <1>1, <2>2 DEF Working
  <2>3. CASE /\ gate' = [gate EXCEPT !.holding = FALSE]
             /\ work' = [work EXCEPT !.attached = @ \/ ~Closed]
    BY <1>1, <2>3 DEF Working
  <2> QED  BY <1>4, <2>1, <2>2, <2>3
<1>11. LoneOpen'  BY <1>5, <1>8 DEF Gating, LoneOpen
<1>12. EnteringHolds' /\ JoinRests'
  BY <1>1, <1>7, <1>8, <1>10 DEF Leaving, Gating, EnteringHolds, JoinRests
<1>13. FenceRests' /\ FollowerRests'
  <2>1. Reporting' <=> Reporting  BY <1>1, <1>7 DEF Leaving
  <2> QED  BY <1>5, <1>8, <1>10, <2>1 DEF Gating, FenceRests, FollowerRests
<1>14. CASE CC.at = "release"
  <2>1. at = "accounts" /\ ~gate.closing /\ ~gate'.holding  BY <1>1, <1>4, <1>14
  <2>2. OpenWorks'  BY <1>6, <2>1 DEF OpenWorks, Excused
  <2>3. ReleasedOpen' /\ ClosingHolds' /\ AttachRuns'
    BY <1>6, <1>10, <2>1 DEF ReleasedOpen, ClosingHolds, AttachRuns
  <2> QED  BY <1>11, <1>12, <1>13, <2>2, <2>3 DEF Gating
<1>15. CASE CC.at = "accounts"
  <2>1. /\ at = "attach" /\ gate' = gate
        /\ work' = [work EXCEPT !.runs = @ \/ (~gate.holding /\ ~Closed)]
    BY <1>4, <1>15
  <2>2. OpenWorks'  BY <1>6, <2>1 DEF OpenWorks, Excused
  <2>3. gate.holding => Closed  BY <1>15 DEF Gating, ReleasedOpen
  <2>4. ~Closed => work'.runs  BY <1>1, <2>1, <2>3
  <2>5. ReleasedOpen' /\ ClosingHolds' /\ AttachRuns'
    BY <1>9, <2>1, <2>3, <2>4 DEF Gating, ReleasedOpen, ClosingHolds, AttachRuns
  <2> QED  BY <1>11, <1>12, <1>13, <2>2, <2>5 DEF Gating
<1>16. CASE CC.at = "attach"
  <2>1. /\ at = "done" /\ ~gate.closing /\ ~gate'.holding
        /\ work'.attached = (work.attached \/ ~Closed) /\ work'.runs = work.runs
    BY <1>1, <1>4, <1>16
  <2>2. ~Closed => Whole'  BY <1>16, <2>1 DEF Gating, AttachRuns, Whole
  <2>3. OpenWorks'  BY <1>9, <1>10, <2>1, <2>2 DEF OpenWorks
  <2>4. ReleasedOpen' /\ ClosingHolds' /\ AttachRuns'
    BY <1>6, <1>10, <2>1 DEF ReleasedOpen, ClosingHolds, AttachRuns
  <2> QED  BY <1>11, <1>12, <1>13, <2>3, <2>4 DEF Gating
<1> QED  BY <1>5, <1>14, <1>15, <1>16

(* The calls, the row, the fence and what travels stay.                    *)
LEMMA GateKept ==
  ASSUME UNCHANGED <<db, wire, back, row, fenced, call>>
  PROVE  /\ CC' = CC /\ JJ' = JJ /\ (Closed' <=> Closed) /\ (Bits' <=> Bits)
         /\ (Telling' <=> Telling) /\ (Demoting' <=> Demoting) /\ (Seeding' <=> Seeding)
         /\ (Reporting' <=> Reporting) /\ (Entering' <=> Entering)
         /\ (Excused' <=> Excused) /\ RowKeeps
<1>1. CC' = CC /\ JJ' = JJ /\ (Closed' <=> Closed) /\ (OnWire("joining")' <=> OnWire("joining"))
  BY DEF CC, JJ, Closed, OnWire
<1>2. /\ (Telling' <=> Telling) /\ (Demoting' <=> Demoting) /\ (Seeding' <=> Seeding)
      /\ (Reporting' <=> Reporting) /\ (Entering' <=> Entering)
  BY <1>1 DEF Telling, Demoting, Seeding, Reporting, Entering
<1>3. (Bits' <=> Bits) /\ (Excused' <=> Excused) /\ RowKeeps
  BY <1>1, <1>2 DEF Bits, Excused, RowKeeps
<1> QED  BY <1>1, <1>2, <1>3

(* The work has stopped, or nothing happens.                               *)
LEMMA GateStops ==
  ASSUME Base, Gating, Stopped \/ UNCHANGED vars
  PROVE  Gating'
<1>1. /\ UNCHANGED <<db, wire, back, row, fenced, call>>
      /\ gate \in [holding : BOOLEAN, closing : BOOLEAN]
  BY DEF Stopped, vars, Base, Types
<1>2. CASE Stopped
  <2>1. /\ gate.closing /\ ~gate'.closing /\ gate'.holding = gate.holding
        /\ ~Working' /\ gate.holding
    BY <1>1, <1>2 DEF Stopped, Working, Gating, ClosingHolds
  <2>2. LoneOpen' /\ EnteringHolds' /\ JoinRests' /\ FenceRests' /\ FollowerRests'
    BY <1>1, <2>1, GateKept
    DEF Gating, LoneOpen, EnteringHolds, JoinRests, FenceRests, FollowerRests
  <2>3. OpenWorks'  BY <1>1, <2>1, GateKept DEF Gating, OpenWorks
  <2>4. ReleasedOpen' /\ ClosingHolds' /\ AttachRuns'
    BY <1>1, <2>1, GateKept DEF Gating, ReleasedOpen, ClosingHolds, AttachRuns
  <2> QED  BY <2>2, <2>3, <2>4 DEF Gating
<1>3. CASE UNCHANGED vars
  <2>1. gate' = gate /\ work' = work /\ fenced' = fenced  BY <1>3 DEF vars
  <2>2. Steady  BY <1>1, GateKept DEF Steady
  <2> QED  BY <1>1, <2>1, <2>2, GateKept, GateSteady
<1> QED  BY <1>2, <1>3

\* Main's copy is now the oldest answer, which was of call s; all else stays.
Reads(s) ==
  /\ 1 \in 1..Len(back) /\ back[1].from = s /\ row' = back[1].row /\ row' \in SyncStates
  /\ db' = db /\ fenced' = fenced /\ gate' = gate /\ work' = work
  /\ call[s].at \in {"row", "row2"}
  /\ s # "control" => CC'.op = CC.op /\ CC'.at = CC.at
  /\ s = "control" =>
       CC'.op = CC.op /\ CC'.at = (IF CC.at = "row" THEN "owned" ELSE "owned2")
  /\ s # "join" => JJ' = JJ
  /\ (Entering' <=> Entering) /\ (Bits' => Bits) /\ (Reporting => Reporting')
  /\ OnWire("joining") => OnWire("joining")'

(* Taking the row does no more than that.                                  *)
LEMMA TakeReads ==
  ASSUME Base, NEW s \in Calls, TakeRow(s)
  PROVE  Reads(s)
<1>1. Types /\ "control" \in Calls /\ "join" \in Calls  BY Names DEF Base
<1> DEFINE op == call[s].op
           to == IF call[s].at = "row" THEN "owned" ELSE "owned2"
<1>2. /\ call[s].at \in {"row", "row2"} /\ Moves(s, op, to, TRUE, FALSE, FALSE, TRUE)
      /\ Only(s, [call[s] EXCEPT !.at = to])
      /\ row' = Head(back).row /\ UNCHANGED <<gate, work>>
  <2>1. /\ \/ Walks(s, call[s].op, "row", "owned", TRUE, TRUE)
           \/ Walks(s, call[s].op, "row2", "owned2", TRUE, TRUE)
        /\ row' = Head(back).row /\ UNCHANGED <<gate, work>>
    BY <1>1, TakeRowMoves
  <2>2. CASE Walks(s, call[s].op, "row", "owned", TRUE, TRUE)
    <3>1. call[s].at = "row"  BY <2>2 DEF Walks, At
    <3> QED  BY <2>1, <2>2, <3>1 DEF Walks
  <2>3. CASE Walks(s, call[s].op, "row2", "owned2", TRUE, TRUE)
    <3>1. call[s].at = "row2"  BY <2>3 DEF Walks, At
    <3> QED  BY <2>1, <2>3, <3>1 DEF Walks
  <2> QED  BY <2>1, <2>2, <2>3
<1>3. to \in {"owned", "owned2"}  OBVIOUS
<1>4. Took(s)  BY <1>2 DEF Moves
<1>5. Head(back) = back[1] /\ back[1].from = s /\ 1 \in 1..Len(back) /\ row' \in SyncStates
  BY <1>1, <1>2, <1>4, TookHead
<1>6. db' = db /\ fenced' = fenced  BY <1>2 DEF Moves
<1>7. /\ s # "control" => CC'.op = CC.op /\ CC'.at = CC.at
      /\ s = "control" =>
           CC'.op = CC.op /\ CC'.at = (IF CC.at = "row" THEN "owned" ELSE "owned2")
  BY <1>1, <1>2 DEF Moves, Steps, CC
<1>8. s # "join" => JJ' = JJ  BY <1>1, <1>2 DEF Only, JJ
<1>9. Entering' <=> Entering
  <2>1. CASE s # "join"  BY <1>8, <2>1 DEF Entering
  <2>2. CASE s = "join"
    <3>1. JJ'.at = to /\ JJ.at # "hold"  BY <1>2, <2>2 DEF Moves, Steps, JJ
    <3> QED  BY <1>3, <3>1 DEF Entering
  <2> QED  BY <2>1, <2>2
<1>10. Wanted(op, to) = "read"  BY DEF Wanted
<1> HIDE DEF op, to
<1>11. (Bits' => Bits) /\ (OnWire("joining") => OnWire("joining")')
  <2>1. RowKeeps \/ RowTakes(TRUE)  BY <1>2 DEF RowTakes
  <2>2. Wanted(op, to) # "joining"  BY <1>10
  <2>3. TRUE \in BOOLEAN /\ FALSE \in BOOLEAN  OBVIOUS
  <2>4. Moves(s, op, to, TRUE, FALSE, FALSE, TRUE)  BY <1>2
  <2> QED  BY <1>1, <2>1, <2>2, <2>3, <2>4, BitsMoves
<1>12. Reporting => Reporting'
  <2> SUFFICES ASSUME NEW t \in Reports, call[t].op = "lease", call[t].at \in {"row", "owned"}
               PROVE  Reporting'
    BY DEF Reporting
  <2>1. t \in Calls  BY Names
  <2>2. CASE t # s
    <3>1. call'[t] = call[t]  BY <1>2, <2>1, <2>2 DEF Only
    <3> QED  BY <3>1 DEF Reporting
  <2>3. CASE t = s
    <3>1. call'[t].op = "lease" /\ call'[t].at = "owned"
      BY <1>2, <2>3 DEF op, to, Moves, Steps
    <3> QED  BY <3>1 DEF Reporting
  <2> QED  BY <2>2, <2>3
<1> QED  BY <1>2, <1>5, <1>6, <1>7, <1>8, <1>9, <1>11, <1>12 DEF Reads

(* What the row read tells where control reads it: what it had to show.    *)
LEMMA ReadShows ==
  ASSUME Base, Rows, Known, Reads("control")
  PROVE  /\ CC.op = "demote" => row'.role = "follower"
         /\ CC.op = "lead" /\ CC.at = "row2" => row'.tracking
<1>1. CC.at \in {"row", "row2"}  BY DEF Reads, CC
<1>2. \A j \in 1..Len(back) : ~Turn(j)  BY <1>1 DEF Turn, Turning
<1>3. 1 \in 1..Len(back) /\ row' = back[1].row  BY DEF Reads
<1>4. Agrees(row')  BY <1>2, <1>3 DEF Rows, RowsBack
<1>5. CC.op = "demote" => db.role = "follower"  BY <1>1 DEF Rows, RowsDemote
<1>6. CC.op = "lead" /\ CC.at = "row2" => db.tracking  BY DEF Known, Leading
<1> QED  BY <1>4, <1>5, <1>6 DEF Agrees

(* The row a device reads: lone or a follower only as it was.              *)
LEMMA ReadRow ==
  ASSUME Base, Rows, Known, Gating, NEW s \in Calls, Reads(s)
  PROVE  /\ row'.role = "normal" /\ ~row'.tracking => row.role = "normal" /\ ~row.tracking
         /\ row'.role = "follower" => row.role = "follower" \/ Telling
         /\ Demoting => Demoting'
         /\ Telling \/ Seeding =>
              (Telling /\ Telling') \/ (Seeding /\ Seeding')
              \/ row'.role = "follower" \/ row'.tracking
<1>1. 1 \in 1..Len(back) /\ row' = back[1].row /\ row' \in SyncStates /\ row \in SyncStates
  BY DEF Reads, Base, Types
<1>2. row'.role = "normal" /\ ~row'.tracking => row.role = "normal" /\ ~row.tracking
  <2>1. back[1].row \in Lones => row \in Lones  BY <1>1 DEF Known, Ordered
  <2> QED  BY <1>1, <2>1, InSets
<1>3. row'.role = "follower" => row.role = "follower" \/ Telling
  <2> SUFFICES ASSUME row'.role = "follower", row.role # "follower" PROVE Telling  OBVIOUS
  <2>1. ~Ordered(Followers)
    <3> SUFFICES ASSUME Ordered(Followers) PROVE FALSE  OBVIOUS
    <3>1. back[1].row \in Followers => row \in Followers  BY <1>1 DEF Ordered
    <3> QED  BY <1>1, <3>1, InSets
  <2>2. CC.op # "lead"  BY <2>1 DEF Known, Leading
  <2>3. Turned \/ Behind  BY <1>1, AllAgree DEF Agrees
  <2> QED  BY <2>2, <2>3 DEF Turned, Turn, Turning, Behind, Telling
<1>4. Demoting => Demoting'
  <2>1. s = "control" => CC.at \in {"row", "row2"}  BY DEF Reads, CC
  <2> QED  BY <2>1 DEF Reads, Demoting
<1>5. Telling \/ Seeding => (Telling /\ Telling') \/ (Seeding /\ Seeding')
                            \/ row'.role = "follower" \/ row'.tracking
  <2>1. CASE s # "control"  BY <2>1 DEF Reads, Telling, Seeding
  <2>2. CASE s = "control"
    <3>1. CC.at \in {"row", "row2"}  BY <2>2 DEF Reads, CC
    <3> QED  BY <2>2, <3>1, ReadShows DEF Telling, Seeding
  <2> QED  BY <2>1, <2>2
<1> QED  BY <1>2, <1>3, <1>4, <1>5

(* What will run the work goes on, unless the row read closes the device.  *)
LEMMA ReadExcused ==
  ASSUME Base, Rows, Known, Gating, NEW s \in Calls, Reads(s), Excused, ~Closed'
  PROVE  Excused'
<1>1. Types /\ Shape /\ "join" \in Calls /\ "control" \in Calls /\ row' \in SyncStates
  BY Names DEF Base, Reads
<1>2. row'.role = "normal" /\ ~row'.joining /\ ~(row'.tracking /\ fenced) /\ fenced' = fenced
  BY <1>1 DEF Closed, ReadOnly, SyncStates, Reads
<1>3. CASE CC.op = "leave"  BY <1>3 DEF Reads, Excused
<1>4. CASE CC.at \in {"seed", "release", "accounts", "attach"}
  <2>1. s # "control"  BY <1>4 DEF Reads, CC
  <2> QED  BY <1>4, <2>1 DEF Reads, Excused
<1>5. CASE Entering \/ OnWire("joining")  BY <1>5 DEF Reads, Excused
<1>6. CASE Telling
  <2>1. CASE s # "control"  BY <1>6, <2>1 DEF Reads, Telling, Excused
  <2>2. CASE s = "control"  BY <1>2, <1>6, <2>2, ReadShows DEF Telling
  <2> QED  BY <2>1, <2>2
<1>7. CASE Seeding /\ fenced
  <2>1. CASE s # "control"  BY <1>2, <1>7, <2>1 DEF Reads, Seeding, Excused
  <2>2. CASE s = "control"
    <3>1. CC.at = "row2" /\ CC.op = "lead"  BY <1>7, <2>2 DEF Reads, Seeding, CC
    <3> QED  BY <1>2, <1>7, <2>2, <3>1, ReadShows
  <2> QED  BY <2>1, <2>2
<1>8. CASE db.joining /\ JJ.at \in {"told", "row"} /\ CC.op # "leave"
  <2>1. CASE s # "join"  BY <1>8, <2>1 DEF Reads, Excused
  <2>2. CASE s = "join"
    <3>1. JJ.at = "row"  BY <1>8, <2>2 DEF Reads, JJ
    <3>2. JJ # Idle  BY <3>1, IdleReq
    <3>3. JJ.op # "none"  BY <1>1, <3>2, IdleOp DEF JJ
    <3>4. CC.op = "none"  BY <1>8, <3>3 DEF Known, Joins, Exclusive
    <3>5. \A j \in 1..Len(back) : ~JoinTurn(j)
      <4> TAKE j \in 1..Len(back)
      <4> DEFINE t == back[j].from
      <4>1. t \in Calls  BY <1>1, AnswerTypes
      <4>2. Placed(t, call[t])  BY <1>1, <4>1 DEF Shape
      <4>3. CASE t = "control"  BY <3>4, <4>3 DEF JoinTurn, Joining, CC
      <4>4. CASE t = "join"
        <5>1. call[t].at = "row"  BY <3>1, <4>4 DEF JJ
        <5> QED  BY <5>1 DEF JoinTurn, Joining
      <4>5. CASE t # "control" /\ t # "join"
        <5>1. call[t].op \in {"none", "lease"}  BY <4>2, <4>5, IdleReq DEF Placed, MadeBy
        <5> QED  BY <5>1 DEF JoinTurn, Joining
      <4> QED  BY <4>3, <4>4, <4>5
    <3>6. back[1].row.joining = db.joining /\ row' = back[1].row
      BY <3>5 DEF Known, Joins, JoinBack, Reads
    <3> QED  BY <1>2, <1>8, <3>6
  <2> QED  BY <2>1, <2>2
<1> QED  BY <1>3, <1>4, <1>5, <1>6, <1>7, <1>8 DEF Excused

(* A row that opens the device comes while something runs its work.        *)
LEMMA ReadOpens ==
  ASSUME Base, Rows, Pend, Known, Gating, NEW s \in Calls, Reads(s), Closed, ~Closed'
  PROVE  Excused
<1>1. /\ Types /\ Shape /\ "join" \in Calls /\ "control" \in Calls
      /\ row' \in SyncStates /\ row \in SyncStates /\ db \in SyncStates
      /\ 1 \in 1..Len(back) /\ row' = back[1].row
  BY Names DEF Base, Reads, Types
<1>2. row'.role = "normal" /\ ~row'.joining /\ ~(row'.tracking /\ fenced)
  BY <1>1 DEF Closed, ReadOnly, SyncStates, Reads
<1>3. row'.role = "normal" /\ ~row'.tracking => row.role = "normal" /\ ~row.tracking
  BY ReadRow
<1>4. db.headPending => fenced  BY DEF Pend, Pending
<1>5. CASE row.role = "follower"
  <2>1. Turned \/ Behind  BY <1>1, <1>2, <1>5, AllAgree DEF Agrees
  <2>2. CASE CC.op = "lead"
    <3>1. db.role # "follower"
      <4>1. db \in Followers => back[1].row \in Followers
        BY <1>1, <2>2 DEF Known, Leading, Ordered
      <4> QED  BY <1>1, <1>2, <4>1, InSets
    <3>2. db.headPending  BY <1>5, <2>2, <3>1 DEF Known, Leading
    <3> QED  BY <1>2, <1>3, <1>4, <1>5, <3>2
  <2>3. CASE CC.op # "lead"
    <3>1. Telling  BY <2>1, <2>3 DEF Turned, Turn, Turning, Behind, Telling
    <3> QED  BY <3>1 DEF Excused
  <2> QED  BY <2>2, <2>3
<1>6. CASE row.role # "follower" /\ row.tracking /\ fenced  BY <1>2, <1>3, <1>6
<1>7. CASE row.role # "follower" /\ row.joining
  <2>1. Placed("control", call["control"])  BY <1>1 DEF Shape
  <2>2. CC.op \in {"none", "lead", "open", "demote", "leave", "finish"}
    BY <2>1, IdleReq DEF Placed, MadeBy, CC
  <2>3. CASE CC.op = "leave"  BY <2>3 DEF Excused
  <2>4. CASE CC.op = "finish"  BY <1>7, <2>4 DEF Known, Finishing
  <2>5. CASE CC.op = "open"
    <3>1. back[1].row.joining = row.joining  BY <1>1, <2>5, OpenJoin DEF Known
    <3> QED  BY <1>1, <1>2, <1>7, <3>1
  <2>6. CASE CC.op = "demote"
    <3>1. CASE CC.at \in {"told", "row"}  BY <2>6, <3>1 DEF Telling, Excused
    <3>2. CASE CC.at \notin {"told", "row"}
      <4>1. ~Turned /\ ~Behind  BY <2>6, <3>2 DEF Turned, Turn, Turning, Behind
      <4>2. db.role = "follower"  BY <2>6, <3>2 DEF Rows, RowsDemote
      <4>3. Agrees(row)  BY <4>1, AllAgree
      <4> QED  BY <1>7, <4>2, <4>3 DEF Agrees
    <3> QED  BY <3>1, <3>2
  <2>7. CASE CC.op \in {"lead", "none"}
    <3>1. JoinTurned \/ JoinBehind
      <4>1. row.joining # back[1].row.joining  BY <1>1, <1>2, <1>7
      <4> QED  BY <1>1, <4>1, AllJoin DEF Known, Joins
    <3>2. CASE CC.op = "lead"
      <4>1. JJ.op = "none"  BY <3>2 DEF Known, Joins, Exclusive
      <4>2. JJ.at = "done"  BY <1>1, <4>1, IdleOp DEF JJ
      <4>3. db.headPending
        <5>1. CASE JoinBehind  BY <3>2, <4>2, <5>1 DEF JoinBehind
        <5>2. CASE JoinTurned
          <6>1. PICK k \in 1..Len(back) : JoinTurn(k)  BY <5>2 DEF JoinTurned
          <6> DEFINE t == back[k].from
          <6>2. t \in Calls  BY <1>1, AnswerTypes
          <6>3. Placed(t, call[t])  BY <1>1, <6>2 DEF Shape
          <6>4. \/ call[t].op \in {"begin", "leave", "finish"} /\ call[t].at = "told"
                \/ call[t].op = "lead" /\ call[t].at = "led" /\ back[k].said = "promoted"
            BY <6>1 DEF JoinTurn, Joining
          <6>5. t = "control"
            <7>1. t # "join"  BY <4>1, <6>4 DEF JJ
            <7>2. t \notin Reports
              <8>1. t \in Reports => call[t].op \in {"none", "lease"}
                BY <6>3, <7>1, IdleReq, Names DEF Placed, MadeBy
              <8> QED  BY <6>4, <8>1
            <7> QED  BY <6>2, <7>1, <7>2, Names
          <6>6. CC.at = "led" /\ back[k].said = "promoted" /\ back[k].from = "control"
            BY <3>2, <6>4, <6>5 DEF CC
          <6> QED  BY <3>2, <6>6 DEF Known, Leading
        <5> QED  BY <3>1, <5>1, <5>2
      <4>4. fenced /\ row.role = "normal" /\ ~row.tracking  BY <1>2, <1>3, <1>4, <4>3
      <4>5. Telling \/ Seeding  BY <4>4 DEF Gating, LoneOpen
      <4> QED  BY <3>2, <4>4, <4>5 DEF Telling, Excused
    <3>3. CASE CC.op = "none"
      <4>1. JJ.at \in {"told", "row"}
        <5>1. CASE JoinBehind  BY <3>3, <5>1 DEF JoinBehind
        <5>2. CASE JoinTurned
          <6>1. PICK k \in 1..Len(back) : JoinTurn(k)  BY <5>2 DEF JoinTurned
          <6> DEFINE t == back[k].from
          <6>2. t \in Calls  BY <1>1, AnswerTypes
          <6>3. Placed(t, call[t])  BY <1>1, <6>2 DEF Shape
          <6>4. \/ call[t].op \in {"begin", "leave", "finish"} /\ call[t].at = "told"
                \/ call[t].op = "lead"
            BY <6>1 DEF JoinTurn, Joining
          <6>5. t = "join"
            <7>1. t # "control"  BY <3>3, <6>4 DEF CC
            <7>2. t \notin Reports
              <8>1. t \in Reports => t # "join"  BY Names
              <8>2. t \in Reports => call[t].op \in {"none", "lease"}
                BY <6>3, <7>1, <8>1, IdleReq DEF Placed, MadeBy
              <8> QED  BY <6>4, <8>2
            <7> QED  BY <6>2, <7>1, <7>2, Names
          <6>6. call[t].op # "lead"
            BY <6>3, <6>5, IdleReq, SyncFenceAssumption DEF Placed, MadeBy
          <6> QED  BY <6>4, <6>5, <6>6 DEF JJ
        <5> QED  BY <3>1, <5>1, <5>2
      <4>2. CASE OnWire("joining")  BY <4>2 DEF Excused
      <4>3. CASE db.joining  BY <4>1, <4>3 DEF Excused
      <4>4. CASE ~OnWire("joining") /\ ~db.joining
        BY <1>7, <3>3, <4>1, <4>4 DEF Known, Joins, Unjoined
      <4> QED  BY <4>2, <4>3, <4>4
    <3> QED  BY <2>7, <3>2, <3>3
  <2> QED  BY <2>2, <2>3, <2>4, <2>5, <2>6, <2>7
<1> QED  BY <1>5, <1>6, <1>7 DEF Closed, ReadOnly

(* The row is taken (refreshGate).                                         *)
LEMMA GateTakes ==
  ASSUME Base, Rows, Pend, Known, Gating, NEW s \in Calls, TakeRow(s)
  PROVE  Gating'
<1>1. Reads(s)  BY TakeReads
<1>2. /\ fenced' = fenced /\ gate' = gate /\ work' = work /\ row' \in SyncStates
      /\ (Entering' <=> Entering) /\ (Bits' => Bits) /\ (Reporting => Reporting')
  BY <1>1 DEF Reads
<1>3. (Working' <=> Working) /\ (Whole' <=> Whole)  BY <1>2 DEF Working, Whole
<1>4. /\ row'.role = "normal" /\ ~row'.tracking => row.role = "normal" /\ ~row.tracking
      /\ row'.role = "follower" => row.role = "follower" \/ Telling
      /\ Demoting => Demoting'
      /\ Telling \/ Seeding =>
           (Telling /\ Telling') \/ (Seeding /\ Seeding')
           \/ row'.role = "follower" \/ row'.tracking
  BY <1>1, ReadRow
<1>5. LoneOpen'
  <2> SUFFICES ASSUME row'.role = "normal", ~row'.tracking, fenced' PROVE Telling' \/ Seeding'
    BY DEF LoneOpen
  <2>1. Telling \/ Seeding  BY <1>2, <1>4 DEF Gating, LoneOpen
  <2> QED  BY <1>4, <2>1
<1>6. EnteringHolds' /\ JoinRests'  BY <1>2, <1>3 DEF Gating, EnteringHolds, JoinRests
<1>7. FenceRests'  BY <1>2, <1>3, <1>4 DEF Gating, FenceRests
<1>8. FollowerRests'
  BY <1>2, <1>3, <1>4 DEF Gating, FollowerRests, Telling, Demoting
<1>9. OpenWorks'
  <2> SUFFICES ASSUME ~Closed', ~Whole' \/ gate'.closing PROVE Excused'  BY DEF OpenWorks
  <2>1. Excused
    <3>1. CASE Closed  BY <1>1, <3>1, ReadOpens
    <3>2. CASE ~Closed  BY <1>2, <1>3, <3>2 DEF Gating, OpenWorks
    <3> QED  BY <3>1, <3>2
  <2> QED  BY <1>1, <2>1, ReadExcused
<1>10. CC'.at \in {"accounts", "attach"} => CC.at = CC'.at /\ (Closed' <=> Closed)
  <2> SUFFICES ASSUME CC'.at \in {"accounts", "attach"} PROVE CC.at = CC'.at /\ (Closed' <=> Closed)
    OBVIOUS
  <2>1. s # "control" /\ CC.at = CC'.at  BY <1>1 DEF Reads
  <2>2. CC.op \in {"open", "leave"}  BY <2>1, Resumes DEF Base
  <2>3. ~Turned /\ ~Behind  BY <2>2 DEF Turned, Turn, Turning, Behind
  <2>4. 1 \in 1..Len(back) /\ row' = back[1].row  BY <1>1 DEF Reads
  <2>5. row'.role = row.role /\ row'.tracking = row.tracking
    BY <2>3, <2>4, AllAgree DEF Agrees
  <2>6. row'.joining = row.joining
    <3>1. row \in SyncStates  BY DEF Base, Types
    <3>2. CASE CC.op = "open"  BY <2>4, <3>2, OpenJoin DEF Known
    <3>3. CASE CC.op = "leave"
      <4>1. ~row.joining /\ ~row'.joining  BY <2>1, <2>4, <3>3 DEF Known, Joins, LeaveGone
      <4> QED  BY <1>2, <3>1, <4>1 DEF SyncStates
    <3> QED  BY <2>2, <3>2, <3>3
  <2> QED  BY <1>2, <2>1, <2>5, <2>6 DEF Closed, ReadOnly
<1>11. ReleasedOpen' /\ ClosingHolds' /\ AttachRuns'
  BY <1>2, <1>10 DEF Gating, ReleasedOpen, ClosingHolds, AttachRuns
<1> QED  BY <1>5, <1>6, <1>7, <1>8, <1>9, <1>11 DEF Gating

(* Who sent a request that changes the joining bit.                        *)
LEMMA JoinSenders ==
  ASSUME Shape, NEW t \in Calls
  PROVE  /\ Req(call[t]) = "joining" => t = "join" /\ JJ.at = "told"
         /\ Req(call[t]) = "joined" => t = "control" /\ CC.op \in {"leave", "finish"}
         /\ Req(call[t]) = "lead" => t = "control" /\ CC.op = "lead"
<1>1. Placed(t, call[t])  BY DEF Shape
<1>2. CASE call[t] = Idle  BY <1>2, IdleReq
<1>3. CASE call[t] # Idle
  <2>1. call[t].op \in MadeBy(t) /\ call[t].at \in Stages[call[t].op]  BY <1>1, <1>3 DEF Placed
  <2>2. Req(call[t]) = "joining" => call[t].at = "told" /\ call[t].op = "begin"
    BY DEF Req, Wanted
  <2>3. Req(call[t]) = "joined" => call[t].at = "told" /\ call[t].op \notin {"demote", "begin"}
    BY DEF Req, Wanted
  <2>4. Req(call[t]) = "lead" => call[t].at = "led"  BY DEF Req, Wanted
  <2>5. CASE t = "control"
    <3>1. call[t].op \in {"lead", "open", "demote", "leave", "finish"}  BY <2>1, <2>5 DEF MadeBy
    <3>2. call[t].at = "told" => call[t].op \in {"demote", "leave", "finish"}
      BY <2>1, <3>1 DEF Stages
    <3>3. call[t].at = "led" => call[t].op = "lead"  BY <2>1, <3>1 DEF Stages
    <3> QED  BY <2>2, <2>3, <2>4, <2>5, <3>1, <3>2, <3>3 DEF CC
  <2>6. CASE t = "join"
    <3>1. call[t].op = "begin"  BY <2>1, <2>6 DEF MadeBy
    <3>2. call[t].at # "led"  BY <2>1, <3>1 DEF Stages
    <3> QED  BY <2>2, <2>3, <2>4, <2>6, <3>1, <3>2 DEF JJ
  <2>7. CASE t # "control" /\ t # "join"
    <3>1. call[t].op = "lease"  BY <2>1, <2>7 DEF MadeBy
    <3>2. call[t].at \notin {"told", "led"}  BY <2>1, <3>1 DEF Stages
    <3> QED  BY <2>2, <2>3, <2>4, <3>2
  <2> QED  BY <2>5, <2>6, <2>7
<1> QED  BY <1>2, <1>3

(* The worker's step leaves main as it was.                                *)
LEMMA GateWorker ==
  ASSUME Base, Follows, Known, Gating, Worker
  PROVE  Gating'
<1>1. Types /\ Shape /\ Mail /\ "join" \in Calls  BY Names DEF Base
<1>2. Mains  BY WorkerDoes
<1>3. /\ CC' = CC /\ JJ' = JJ /\ gate' = gate /\ work' = work /\ fenced' = fenced /\ RowKeeps
      /\ row' = row
  BY <1>2 DEF Mains, CC, JJ, RowKeeps
<1>4. /\ (Telling' <=> Telling) /\ (Demoting' <=> Demoting) /\ (Seeding' <=> Seeding)
      /\ (Reporting' <=> Reporting) /\ (Entering' <=> Entering)
  BY <1>2, <1>3 DEF Mains, Telling, Demoting, Seeding, Reporting, Entering
<1>5. PICK m \in Messages : Drained(m) /\ (Fences(m) \/ \E a \in Answers : Does(m, a))
  BY WorkerDoes
<1>6. wire[1] = m /\ 1 \in 1..Len(wire)  BY <1>5 DEF Drained
<1>7. OnWire("joining")' => OnWire("joining")  BY <1>5 DEF Drained, OnWire
<1>8. OnWire("joining") => OnWire("joining")' \/ m.op = "joining"
  <2> SUFFICES ASSUME NEW i \in 1..Len(wire), wire[i].op = "joining", m.op # "joining"
               PROVE  OnWire("joining")'
    BY DEF OnWire
  <2>1. Len(wire) \in Nat /\ Len(wire') = Len(wire) - 1  BY <1>5 DEF Drained
  <2>2. i # 1 /\ i \in Nat  BY <1>6, <2>1
  <2>3. i - 1 \in 1..Len(wire')  BY <2>1, <2>2
  <2>4. wire'[i - 1] = wire[(i - 1) + 1]  BY <1>5, <2>3 DEF Drained
  <2>5. (i - 1) + 1 = i  BY <2>2
  <2>6. wire'[i - 1].op = "joining"  BY <2>4, <2>5
  <2> QED  BY <2>3, <2>6 DEF OnWire
<1>9. (Bits' => Bits) /\ (Excused => Excused')
  <2>1. CASE Fences(m)
    <3>1. db' = db /\ back' = back /\ m.op # "joining"  BY <2>1 DEF Fences
    <3> QED  BY <1>3, <1>4, <1>7, <1>8, <3>1 DEF Bits, Excused
  <2>2. CASE \E a \in Answers : Does(m, a)
    <3>1. PICK a \in Answers : Does(m, a)  BY <2>2
    <3>2. /\ m.op \in Asks /\ Replied(a) /\ a.row = db'
          /\ db'.joining <=> m.op = "joining" \/ (db.joining /\ m.op # "joined" /\ a.said # "promoted")
          /\ a.said = "promoted" => m.op = "lead"
      BY <3>1 DEF Does
    <3>3. m.from \in Calls /\ m.op = Req(call[m.from])
      <4>1. m.op \notin {"fence", "unfence"}  BY <3>2 DEF Asks
      <4> QED  BY <1>1, <1>6, <4>1 DEF Mail
    <3>4. m.op = "joining" => OnWire("joining")  BY <1>6 DEF OnWire
    <3>5. (\E k \in 1..Len(back') : back'[k].row.joining) =>
            db'.joining \/ \E k \in 1..Len(back) : back[k].row.joining
      BY <3>2 DEF Replied
    <3>6. Bits' => Bits
      <4>1. db'.joining => db.joining \/ OnWire("joining")  BY <3>2, <3>4
      <4> QED  BY <1>3, <1>7, <3>5, <4>1 DEF Bits
    <3>7. m.op = "joining" => db'.joining /\ JJ.at = "told"  BY <1>1, <3>2, <3>3, JoinSenders
    <3>8. db.joining /\ JJ.at \in {"told", "row"} => db'.joining \/ CC.op = "leave"
      <4> SUFFICES ASSUME JJ.at \in {"told", "row"}, m.op \in {"joined", "lead"} PROVE CC.op = "leave"
        BY <3>2
      <4>1. JJ.op # "none"  BY <1>1, IdleOp DEF JJ
      <4>2. CC.op \in {"none", "leave"}  BY <4>1 DEF Known, Joins, Exclusive
      <4>3. CC.op \in {"leave", "finish", "lead"}  BY <1>1, <3>3, JoinSenders
      <4> QED  BY <4>2, <4>3
    <3>9. Excused => Excused'
      <4>1. OnWire("joining") => OnWire("joining")' \/ (db'.joining /\ JJ.at = "told")
        BY <1>8, <3>7
      <4> QED  BY <1>3, <1>4, <3>8, <4>1 DEF Excused
    <3> QED  BY <3>6, <3>9
  <2> QED  BY <1>5, <2>1, <2>2
<1>10. Steady  BY <1>3, <1>4, <1>9 DEF Steady
<1> QED  BY <1>3, <1>10, GateSteady

(* Every step of main keeps it.                                            *)
LEMMA GateMain ==
  ASSUME Base, Rows, Pend, Known, Gating, "overlap" \notin Also, Main
  PROVE  Gating'
<1>1. Types /\ "control" \in Calls /\ "join" \in Calls  BY Names DEF Base
<1>2. CASE Stopped  BY <1>2, GateStops
<1>3. CASE \E s \in Calls : TakeRow(s) \/ HoldEnds(s) \/ JoinTold(s) \/ JoinRead(s)
  <2>1. PICK s \in Calls : TakeRow(s) \/ HoldEnds(s) \/ JoinTold(s) \/ JoinRead(s)  BY <1>3
  <2>2. Shape /\ Placed(s, call[s])  BY DEF Base, Shape
  <2>3. CASE TakeRow(s)  BY <2>3, GateTakes
  <2>4. CASE s = "control"  BY <2>1, <2>4, GateTakes, GateEnds, GateGoes
  <2>5. CASE s = "join" /\ ~TakeRow(s)
    <3>1. call[s].op \in {"none", "begin"}
      BY <2>2, <2>5, IdleReq, SyncFenceAssumption DEF Placed, MadeBy
    <3>2. ~HoldEnds(s)  BY <3>1 DEF HoldEnds
    <3> QED  BY <2>1, <2>5, <3>2, GateJoins
  <2>6. CASE s \in Reports /\ ~TakeRow(s)
    <3>1. call[s].op \in {"none", "lease"}
      BY <2>2, <2>6, IdleReq, Names DEF Placed, MadeBy
    <3>2. ~JoinTold(s) /\ ~JoinRead(s)  BY <3>1 DEF JoinTold, JoinRead
    <3> QED  BY <2>1, <2>6, <3>2, GateReports
  <2> QED  BY <2>3, <2>4, <2>5, <2>6, Names
<1>4. CASE \E s \in Reports : LeaseRead(s)
  <2>1. PICK s \in Reports : LeaseRead(s)  BY <1>4
  <2>2. CASE fenced \/ Closes(call[s].arg)  BY <2>1, <2>2, GateReportHolds
  <2>3. CASE ~fenced /\ ~Closes(call[s].arg)  BY <2>1, <2>3, GateReports
  <2> QED  BY <2>2, <2>3
<1>5. CASE \E s \in Reports, master \in BOOLEAN : SetLease(s, master)
  <2>1. PICK s \in Reports, master \in BOOLEAN : SetLease(s, master)  BY <1>5
  <2>2. CASE Closes(master)  BY <2>1, <2>2, GateLoss
  <2>3. CASE ~Closes(master)  BY <2>1, <2>3, GateReports
  <2> QED  BY <2>2, <2>3
<1>6. CASE (\E newer \in BOOLEAN : Lead(newer)) \/ (\E acked \in BOOLEAN : Open(acked)) \/ FinishJoin
  BY <1>6, GateBegins
<1>7. CASE LeadHeld \/ Seeded \/ Demoted \/ LeavePaused  BY <1>7, GateGoes
<1>8. CASE LeadPosts
  <2>1. \/ row.role = "normal" /\ fenced' = fenced
        \/ /\ row.role = "follower" /\ Moves("control", "lead", "led", TRUE, TRUE, TRUE, TRUE)
           /\ Posted(~fenced)
        \/ Leaves("control", TRUE)
    BY <1>1, <1>8, LeadPostsMoves
  <2> QED  BY <1>8, <2>1, GateEnds, GateCloses
<1>9. CASE Led
  <2>1. \/ Head(back).said = "failed" /\ CC.undo
        \/ Leaves("control", TRUE)
        \/ Head(back).said = "promoted"
        \/ Hold /\ Shuts("control", "lead", "led", "hold", TRUE, FALSE)
        \/ gate' = gate /\ Walks("control", "lead", "led", "row2", TRUE, TRUE)
    BY <1>1, <1>9, LedMoves DEF CC
  <2> QED  BY <1>9, <2>1, GateEnds, GatePromoted, GateLeadHolds, GateOpens
<1>10. CASE LeadEnds
  <2>1. \/ /\ Overtaken("control", TRUE) /\ Hold
           /\ Shuts("control", "lead", "owned2", "hold2", TRUE, FALSE)
        \/ gate' = gate /\ Leaves("control", TRUE)
    BY <1>1, <1>10, LeadEndsMoves
  <2> QED  BY <1>10, <2>1, GateEnds, GateLeadHolds
<1>11. CASE OpenRead
  <2>1. \/ Leaves("control", TRUE) \/ Walks("control", "open", "owned", "ack", TRUE, TRUE)
        \/ Lifts("control", "open", "owned", "seed", TRUE)
    BY <1>1, <1>11, OpenReadMoves
  <2> QED  BY <1>11, <2>1, GateEnds, GateOpens
<1>12. CASE Acked
  <2>1. Leaves("control", TRUE) \/ Lifts("control", "open", "ack", "seed", TRUE)
    BY <1>1, <1>12, AckedMoves
  <2> QED  BY <1>12, <2>1, GateEnds, GateOpens
<1>13. CASE ReleaseForRuns \/ RunAccounts \/ AttachHeld  BY <1>13, GateResumes
<1>14. CASE Demote  BY <1>14, GateCloses
<1>15. CASE DemoteHolds \/ BeginJoin  BY <1>15, GateDemoteJoin
<1>16. CASE JoinHeld  BY <1>16, GateJoins
<1>17. CASE LeaveJoin  BY <1>17, GateLeaves
<1> QED
  BY <1>2, <1>3, <1>4, <1>5, <1>6, <1>7, <1>8, <1>9, <1>10, <1>11, <1>12, <1>13, <1>14, <1>15,
     <1>16, <1>17
  DEF Main

(* A device that has started works exactly where it may.                   *)
LEMMA WokenGating == Woken => Gating
<1> SUFFICES ASSUME Woken PROVE Gating  OBVIOUS
<1>1. Len(back) = 0 /\ Len(wire) = 0 /\ ~gate.holding /\ ~gate.closing  BY DEF Woken
<1>2. CC = Idle /\ JJ = Idle  BY Names DEF Woken, CC, JJ
<1>3. /\ row \in SyncStates /\ db \in SyncStates /\ row.role = db.role
      /\ row.tracking = db.tracking /\ row.joining = db.joining /\ fenced = BootFenced(db)
      /\ work = [runs |-> ~Closed, attached |-> ~Closed]
  BY DEF Woken
<1>4. (Working <=> ~Closed) /\ (Whole <=> ~Closed)  BY <1>3 DEF Working, Whole
<1>5. fenced <=> row.tracking /\ row.role = "normal" /\ ~row.joining
  BY <1>3 DEF BootFenced
<1>6. LoneOpen  BY <1>5 DEF LoneOpen
<1>7. EnteringHolds  BY <1>2, IdleReq DEF EnteringHolds, Entering
<1>8. JoinRests
  <2>1. ~OnWire("joining")  BY <1>1 DEF OnWire
  <2>2. Bits => row.joining  BY <1>1, <1>3, <2>1 DEF Bits
  <2> QED  BY <1>4, <2>2 DEF JoinRests, Closed, ReadOnly
<1>9. FenceRests /\ FollowerRests
  BY <1>4, <1>5 DEF FenceRests, FollowerRests, Closed, ReadOnly
<1>10. OpenWorks  BY <1>1, <1>4 DEF OpenWorks
<1>11. ReleasedOpen /\ ClosingHolds /\ AttachRuns
  BY <1>1, <1>2, IdleReq DEF ReleasedOpen, ClosingHolds, AttachRuns
<1> QED  BY <1>6, <1>7, <1>8, <1>9, <1>10, <1>11 DEF Gating

-----------------------------------------------------------------------------
(* Main, the worker and the engine's work agree.                           *)

\* The inductive invariant of SidesAgree.
AgreeInv == ClosedInv /\ Known /\ Gating

(* Every step keeps it.                                                    *)
LEMMA AgreeInvStep ==
  ASSUME Also = {}, AgreeInv, [Next]_vars
  PROVE  AgreeInv'
<1>1. "leader" \notin Also /\ "overlap" \notin Also  OBVIOUS
<1>2. ClosedInv /\ Base /\ Follows /\ Rows /\ Pend /\ Known /\ Gating
  BY DEF AgreeInv, ClosedInv, TypeInv, Guard
<1>3. ClosedInv'  BY <1>1, <1>2, ClosedInvStep
<1>4. CASE Worker
  <2>1. Known' /\ Gating'  BY <1>2, <1>4, KnownWorker, GateWorker
  <2> QED  BY <1>3, <2>1 DEF AgreeInv
<1>5. CASE Main
  <2>1. Known' /\ Gating'  BY <1>1, <1>2, <1>5, KnownMain, GateMain
  <2> QED  BY <1>3, <2>1 DEF AgreeInv
<1>6. CASE Restart
  <2>1. Woken'  BY <1>2, <1>6, RestartWoken
  <2>2. Woken' => Known' /\ Gating'  BY WokenKnown, WokenGating, PTL
  <2> QED  BY <1>3, <2>1, <2>2 DEF AgreeInv
<1>7. CASE UNCHANGED vars
  <2>1. Known'  BY <1>2, <1>7, KnownStays DEF vars
  <2>2. Gating'  BY <1>2, <1>7, GateStops
  <2> QED  BY <1>3, <2>1, <2>2 DEF AgreeInv
<1> QED  BY <1>4, <1>5, <1>6, <1>7, NextIs

(* Where no call is under way nothing is left to excuse a difference.      *)
LEMMA AgreeInvAgrees == ASSUME AgreeInv PROVE SidesAgree
<1> SUFFICES ASSUME Quiet
             PROVE  /\ row.role = db.role /\ row.tracking = db.tracking /\ row.joining = db.joining
                    /\ Closed = Refuses
                    /\ Closed => ~work.runs /\ ~work.attached
                    /\ ~Closed => work.runs /\ work.attached
  BY DEF SidesAgree
<1>1. Types /\ Rows /\ Known /\ Gating  BY DEF AgreeInv, ClosedInv, TypeInv, Base, Guard
<1>2. Len(back) = 0 /\ Len(wire) = 0 /\ ~gate.closing  BY DEF Quiet
<1>3. CC = Idle /\ JJ = Idle /\ \A s \in Reports : call[s] = Idle  BY Names DEF Quiet, CC, JJ
<1>4. ~Turned /\ ~Behind  BY <1>2, <1>3, IdleReq DEF Turned, Behind
<1>5. row.role = db.role /\ row.tracking = db.tracking  BY <1>1, <1>4, AllAgree DEF Agrees
<1>6. ~JoinTurned /\ ~JoinBehind  BY <1>2, <1>3, IdleReq DEF JoinTurned, JoinBehind
<1>7. row.joining = db.joining  BY <1>1, <1>6 DEF Known, Joins, JoinMain
<1>8. fenced <=> wfenced  BY <1>1, <1>2 DEF Known, FenceSent
<1>9. ~Telling /\ ~Demoting /\ ~Seeding /\ ~Reporting /\ ~Entering
  BY <1>3, IdleReq DEF Telling, Demoting, Seeding, Reporting, Entering
<1>10. row \in SyncStates /\ db \in SyncStates /\ fenced \in BOOLEAN /\ wfenced \in BOOLEAN
  BY <1>1 DEF Types
<1>11. Closed <=> Refuses
  <2>1. fenced => Closed
    BY <1>1, <1>9, <1>10 DEF Gating, LoneOpen, Closed, ReadOnly, SyncStates
  <2> QED  BY <1>5, <1>7, <1>8, <2>1 DEF Closed, ReadOnly, Refuses
<1>12. Closed = Refuses
  <2>1. Closed \in BOOLEAN /\ Refuses \in BOOLEAN
    BY <1>10 DEF Closed, ReadOnly, Refuses, SyncStates
  <2> QED  BY <1>11, <2>1
<1>13. Closed => ~Working
  <2>1. row.joining => Bits  BY DEF Bits
  <2> QED
    BY <1>1, <1>2, <1>9, <2>1 DEF Gating, JoinRests, FenceRests, FollowerRests, Closed, ReadOnly
<1>14. ~Closed => Whole
  <2>1. ~OnWire("joining")  BY <1>2 DEF OnWire
  <2>2. ~Excused  BY <1>3, <1>9, <2>1, IdleReq DEF Excused
  <2> QED  BY <1>1, <2>2 DEF Gating, OpenWorks
<1> QED  BY <1>5, <1>7, <1>12, <1>13, <1>14 DEF Working, Whole

(* When every call has settled, main and the worker agree on the row and   *)
(* on who may write, a device that may runs its work, and one that may not *)
(* has stopped it, for any number of reports, calls, failures and restarts *)
(* (refreshGate, closeWriter, attachHeld, beginJoin's joinSeq), where a    *)
(* join begins between the other calls and not on a tracking leader.       *)
THEOREM SidesComeToAgree == Also = {} => (Spec => []SidesAgree)
<1> SUFFICES ASSUME Also = {} PROVE Spec => []SidesAgree  OBVIOUS
<1>1. Init => AgreeInv
  <2> SUFFICES ASSUME Init PROVE AgreeInv  OBVIOUS
  <2>1. Woken  BY InitWoken
  <2>2. ~db.headPending  BY DEF Init, Fresh
  <2>3. Base /\ Follows  BY <2>1, WokenBase DEF Woken
  <2>4. ClosedInv  BY <2>1, <2>2, <2>3, WokenGuard DEF ClosedInv, TypeInv
  <2> QED  BY <2>1, <2>4, WokenKnown, WokenGating DEF AgreeInv
<1>2. AgreeInv /\ [Next]_vars => AgreeInv'  BY AgreeInvStep
<1>3. AgreeInv => SidesAgree  BY AgreeInvAgrees
<1> QED  BY <1>1, <1>2, <1>3, PTL DEF Spec
=============================================================================
