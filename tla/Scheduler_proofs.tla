-------------------------- MODULE Scheduler_proofs --------------------------
(***************************************************************************)
(* Proofs about the scheduler: its types, for any cadences and bounds, and *)
(* that a registered job is never further from its next run than its own   *)
(* interval.  Every time that is written to the schedule table, or waits   *)
(* in the queue of the store to be written, was computed from a clock that *)
(* has not gone back since.                                                *)
(***************************************************************************)
EXTENDS Scheduler, SequenceTheorems, TLAPS

(* Every value lies in the Row type whatever the job's cadence (nextRun).  *)
LEMMA NextRunType ==
  ASSUME NEW c \in Cadences, NEW t \in 0..MaxTime, NEW last \in Null..MaxTime
  PROVE  nextRun(c, last, t) \in {Null} \cup {x + y : x \in 0..MaxTime, y \in Cadences \cup {0}}
<1>1. CASE c = Manual
  BY <1>1 DEF nextRun
<1>2. CASE c # Manual /\ (last = Null \/ last + c < t)
  <2>1. nextRun(c, last, t) = t  BY <1>2 DEF nextRun
  <2>2. t = t + 0 /\ 0 \in Cadences \cup {0}  BY SchedulerAssumption
  <2>3. \E x \in 0..MaxTime, y \in Cadences \cup {0} : t = x + y  BY <2>2
  <2> QED  BY <2>1, <2>3
<1>3. CASE c # Manual /\ ~(last = Null \/ last + c < t)
  <2>1. nextRun(c, last, t) = last + c  BY <1>3 DEF nextRun
  <2>2. last \in 0..MaxTime  BY <1>3, SchedulerAssumption DEF Null
  <2>3. \E x \in 0..MaxTime, y \in Cadences \cup {0} : last + c = x + y  BY <2>2
  <2> QED  BY <2>1, <2>3
<1> QED  BY <1>1, <1>2, <1>3

(* What register() computes from the row it finds is a row (register).     *)
LEMMA PutType ==
  ASSUME NEW c \in Cadences, NEW t \in 0..MaxTime, NEW r \in Row \cup {None}
  PROVE  [last |-> Last(r), next |-> IF NextOf(r) # Null THEN NextOf(r)
                                     ELSE nextRun(c, Last(r), t)] \in Row
<1>1. Last(r) \in Null..MaxTime
  BY SchedulerAssumption DEF Last, Row, Null
<1>2. NextOf(r) \in {Null} \cup {x + y : x \in 0..MaxTime, y \in Cadences \cup {0}}
  BY DEF NextOf, Row
<1>3. nextRun(c, Last(r), t) \in {Null} \cup {x + y : x \in 0..MaxTime, y \in Cadences \cup {0}}
  BY <1>1, NextRunType
<1> QED  BY <1>1, <1>2, <1>3 DEF Row

(* The row a pass saves before its run (runOnce).                          *)
LEMMA SaveType ==
  ASSUME obj \in Seq(Job), Len(obj) =< MaxJobs, now \in 0..MaxTime, NEW j \in 1..Len(obj)
  PROVE  SaveOf(j) \in Calls /\ SaveOf(j).op = "save" /\ SaveOf(j).job = j
<1>1. obj[j].cadence \in Cadences
  <2>1. obj[j] \in Job  OBVIOUS
  <2> QED  BY <2>1 DEF Job
<1>2. now \in Null..MaxTime  BY SchedulerAssumption DEF Null
<1>3. nextRun(obj[j].cadence, now, now)
        \in {Null} \cup {x + y : x \in 0..MaxTime, y \in Cadences \cup {0}}
  BY <1>1, <1>2, NextRunType
<1>4. [last |-> now, next |-> nextRun(obj[j].cadence, now, now)] \in Row
  BY <1>2, <1>3 DEF Row
<1>5. j \in 0..MaxJobs  BY SchedulerAssumption
<1> QED  BY <1>4, <1>5 DEF SaveOf, Call, Calls

-----------------------------------------------------------------------------
(* A call that reads or saves for a job object names one of this process.  *)
Named(queue, n) == \A i \in 1..Len(queue) : queue[i].op \in {"save", "regRead"} => queue[i].job \in 1..n
Types == TypeOK /\ Named(calls, Len(obj))

(* The queue of the store grows at its end (scheduler's store calls).      *)
LEMMA Queued ==
  ASSUME NEW queue \in Seq(Calls), NEW n \in Nat, Named(queue, n),
         NEW c \in Calls, c.op \in {"save", "regRead"} => c.job \in 1..n
  PROVE  Append(queue, c) \in Seq(Calls) /\ Named(Append(queue, c), n)
BY DEF Named

(* The store takes its first call.                                         *)
LEMMA Taken ==
  ASSUME NEW queue \in Seq(Calls), queue # <<>>, NEW n \in Nat, Named(queue, n)
  PROVE  /\ Head(queue) \in Calls /\ Tail(queue) \in Seq(Calls)
         /\ Named(Tail(queue), n)
         /\ Head(queue).op \in {"save", "regRead"} => Head(queue).job \in 1..n
<1>1. Head(queue) = queue[1] /\ 1 \in 1..Len(queue)  OBVIOUS
<1>2. \A i \in 1..Len(Tail(queue)) : Tail(queue)[i] = queue[i + 1] /\ i + 1 \in 1..Len(queue)
  OBVIOUS
<1> QED  BY <1>1, <1>2 DEF Named

-----------------------------------------------------------------------------
(* Each step keeps the types.                                              *)

(* The process and the table before anything is registered.                *)
LEMMA TypesInit == Init => Types
BY SchedulerAssumption DEF Init, Types, TypeOK, Named

(* One job object changes in place, or none does (fire, runOnce).          *)
LEMMA Replaced ==
  ASSUME obj \in Seq(Job), NEW j, NEW o \in Job
  PROVE  [obj EXCEPT ![j] = o] \in Seq(Job) /\ Len([obj EXCEPT ![j] = o]) = Len(obj)
<1>1. CASE j \in 1..Len(obj)
  BY <1>1, ExceptSeq
<1>2. CASE j \notin 1..Len(obj)
  <2>1. [obj EXCEPT ![j] = o] = obj  BY <1>2
  <2> QED  BY <2>1
<1> QED  BY <1>1, <1>2

(* A fire, from trigger() or a tick, asks for a run or begins a pass (fire). *)
LEMMA FireTypes ==
  ASSUME obj \in Seq(Job), Len(obj) =< MaxJobs, now \in 0..MaxTime,
         NEW j \in 1..Len(obj), NEW trig \in BOOLEAN,
         NEW queue \in Seq(Calls), Named(queue, Len(obj)), fire(j, trig, queue)
  PROVE  /\ obj' \in Seq(Job) /\ Len(obj') = Len(obj)
         /\ calls' \in Seq(Calls) /\ Named(calls', Len(obj))
<1>1. obj[j] \in Job  OBVIOUS
<1>2. CASE obj[j].busy /\ calls' = queue
           /\ obj' = [obj EXCEPT ![j].again = TRUE, ![j].owed = @ \/ trig]
  <2> DEFINE o == [obj[j] EXCEPT !.again = TRUE, !.owed = @ \/ trig]
  <2>1. o \in Job  BY <1>1 DEF Job
  <2>2. obj' = [obj EXCEPT ![j] = o]  BY <1>2
  <2> HIDE DEF o
  <2>3. obj' \in Seq(Job) /\ Len(obj') = Len(obj)  BY <2>1, <2>2, Replaced
  <2> QED  BY <1>2, <2>3
<1>3. CASE ~obj[j].busy /\ calls' = Append(queue, SaveOf(j))
           /\ obj' = [obj EXCEPT ![j].busy = TRUE, ![j].again = FALSE, ![j].at = "save",
                                 ![j].owed = @ \/ trig]
  <2> DEFINE o == [obj[j] EXCEPT !.busy = TRUE, !.again = FALSE, !.at = "save", !.owed = @ \/ trig]
  <2>1. o \in Job  BY <1>1 DEF Job
  <2>2. obj' = [obj EXCEPT ![j] = o]  BY <1>3
  <2> HIDE DEF o
  <2>3. SaveOf(j) \in Calls /\ SaveOf(j).job \in 1..Len(obj)  BY SaveType
  <2>4. obj' \in Seq(Job) /\ Len(obj') = Len(obj)  BY <2>1, <2>2, Replaced
  <2>5. calls' \in Seq(Calls) /\ Named(calls', Len(obj))
    <3> DEFINE k == SaveOf(j)
               n == Len(obj)
    <3>1. n \in Nat /\ k \in Calls /\ k.job \in 1..n /\ Named(queue, n)
          /\ calls' = Append(queue, k)  BY <1>3, <2>3
    <3> HIDE DEF k, n
    <3>2. Append(queue, k) \in Seq(Calls) /\ Named(Append(queue, k), n)  BY <3>1, Queued
    <3> QED  BY <3>1, <3>2 DEF n
  <2> QED  BY <2>4, <2>5
<1> QED  BY <1>2, <1>3 DEF fire

(* So with the queue as it stands (scheduler's store calls).               *)
LEMMA QueuedNow ==
  ASSUME Types, NEW c \in Calls, c.op \in {"save", "regRead"} => c.job \in 1..Len(obj),
         calls' = Append(calls, c)
  PROVE  calls' \in Seq(Calls) /\ Named(calls', Len(obj))
<1> DEFINE queue == calls
           n == Len(obj)
<1>1. queue \in Seq(Calls) /\ n \in Nat /\ Named(queue, n)  BY DEF Types, TypeOK
<1> HIDE DEF queue, n
<1>2. Append(queue, c) \in Seq(Calls) /\ Named(Append(queue, c), n)
  BY <1>1, Queued DEF n
<1> QED  BY <1>2 DEF queue, n

(* The calls of the app and the end of a run (register, unregister,        *)
(* trigger, tick, runOnce).                                                *)
LEMMA TypesAsked ==
  ASSUME Types,
         \/ \E c \in Cadences : register(c)
         \/ unregister \/ trigger \/ tick \/ \E j \in DOMAIN obj : RunEnds(j)
  PROVE  Types'
<1> USE SchedulerAssumption DEF Types, TypeOK
<1>1. ASSUME NEW c \in Cadences, register(c) PROVE Types'
  <2> DEFINE o == [cadence |-> c, busy |-> FALSE, again |-> FALSE, at |-> "idle", owed |-> FALSE]
             k == Call("regRead", Len(obj) + 1, None)
  <2>1. o \in Job  BY DEF Job
  <2>2. obj' = Append(obj, o) /\ calls' = Append(calls, k) /\ cur' = Len(obj) + 1
        /\ UNCHANGED <<row, now, faults>> /\ Len(obj) < MaxJobs  BY <1>1 DEF register
  <2> HIDE DEF o
  <2>3. obj' \in Seq(Job) /\ Len(obj') = Len(obj) + 1  BY <2>1, <2>2
  <2>4. k \in Calls /\ k.job = Len(obj) + 1  BY <2>2 DEF Call, Calls
  <2>5. calls \in Seq(Calls) /\ Len(obj) \in Nat /\ Named(calls, Len(obj))  OBVIOUS
  <2> HIDE DEF k
  <2>6. calls' \in Seq(Calls) /\ Named(calls', Len(obj'))
    <3> DEFINE n == Len(obj')
               queue == calls
    <3>1. n = Len(obj) + 1 /\ k \in Calls /\ k.job \in 1..n /\ calls' = Append(queue, k)
      BY <2>2, <2>3, <2>4, <2>5
    <3>2. n \in Nat /\ queue \in Seq(Calls) /\ Named(queue, n)
      <4>1. \A i \in 1..Len(obj) : i \in 1..n  BY <2>5, <3>1
      <4> HIDE DEF n, TypeOK
      <4> QED  BY <2>5, <3>1, <4>1 DEF Named
    <3> HIDE DEF n, queue, Types, TypeOK
    <3>3. Append(queue, k) \in Seq(Calls) /\ Named(Append(queue, k), n)
      BY <3>1, <3>2, Queued
    <3> QED  BY <3>1, <3>3 DEF n
  <2> QED  BY <2>2, <2>3, <2>6
<1>2. CASE unregister
  <2> DEFINE k == Call("delete", 0, None)
  <2>1. k \in Calls /\ k.op = "delete"  BY DEF Call, Calls
  <2>2. calls' = Append(calls, k) /\ cur' = 0 /\ UNCHANGED <<obj, row, now, faults>>
    BY <1>2 DEF unregister
  <2> HIDE DEF k
  <2>3. calls' \in Seq(Calls) /\ Named(calls', Len(obj))  BY <2>1, <2>2, QueuedNow
  <2> QED  BY <2>2, <2>3
<1>3. CASE trigger
  <2>0. cur # 0 /\ fire(cur, TRUE, calls) /\ UNCHANGED <<cur, row, now, faults>>
    BY <1>3, Zenon DEF trigger
  <2>1. cur \in 1..Len(obj)  BY <2>0
  <2>2. obj' \in Seq(Job) /\ Len(obj') = Len(obj) /\ calls' \in Seq(Calls)
        /\ Named(calls', Len(obj))  BY <2>0, <2>1, FireTypes
  <2> QED  BY <2>0, <2>2
<1>4. CASE tick
  <2> DEFINE k == Call("tick", 0, None)
  <2>1. k \in Calls /\ k.op = "tick"  BY DEF Call, Calls
  <2>2. calls' = Append(calls, k) /\ UNCHANGED <<obj, cur, row, now, faults>>
    BY <1>4 DEF tick
  <2> HIDE DEF k
  <2>3. calls' \in Seq(Calls) /\ Named(calls', Len(obj))  BY <2>1, <2>2, QueuedNow
  <2> QED  BY <2>2, <2>3
<1>5. ASSUME NEW j \in DOMAIN obj, RunEnds(j) PROVE Types'
  <2>0. j \in 1..Len(obj) /\ obj[j] \in Job  OBVIOUS
  <2>1. CASE obj' = [obj EXCEPT ![j].again = FALSE, ![j].at = "save"]
             /\ calls' = Append(calls, SaveOf(j))
    <3> DEFINE o == [obj[j] EXCEPT !.again = FALSE, !.at = "save"]
    <3>1. o \in Job  BY <2>0 DEF Job
    <3>2. obj' = [obj EXCEPT ![j] = o]  BY <2>1
    <3> HIDE DEF o
    <3>3. SaveOf(j) \in Calls /\ SaveOf(j).job \in 1..Len(obj)  BY <2>0, SaveType
    <3>4. calls' \in Seq(Calls) /\ Named(calls', Len(obj))  BY <2>1, <3>3, QueuedNow
    <3>5. obj' \in Seq(Job) /\ Len(obj') = Len(obj)  BY <3>1, <3>2, Replaced
    <3> QED  BY <1>5, <3>4, <3>5 DEF RunEnds
  <2>2. CASE obj' = [obj EXCEPT ![j].busy = FALSE, ![j].at = "idle"] /\ UNCHANGED calls
    <3> DEFINE o == [obj[j] EXCEPT !.busy = FALSE, !.at = "idle"]
    <3>1. o \in Job  BY <2>0 DEF Job
    <3>2. obj' = [obj EXCEPT ![j] = o]  BY <2>2
    <3> HIDE DEF o
    <3>3. obj' \in Seq(Job) /\ Len(obj') = Len(obj)  BY <3>1, <3>2, Replaced
    <3> QED  BY <1>5, <2>2, <3>3 DEF RunEnds
  <2> QED  BY <1>5, <2>1, <2>2 DEF RunEnds
<1> QED  BY <1>1, <1>2, <1>3, <1>4, <1>5

(* The store serves its first call, with its caller's continuation.        *)
LEMMA TypesServed == ASSUME Types, Served PROVE Types'
<1> USE SchedulerAssumption DEF Types, TypeOK
<1> DEFINE c == Head(calls)
           rest == Tail(calls)
<1>1. calls # <<>> /\ UNCHANGED <<cur, now, faults>>
      /\ (SaveServed(c) \/ TickServed(c) \/ RegReadServed(c) \/ WriteServed(c))
  BY DEF Served
<1>2. /\ c \in Calls /\ rest \in Seq(Calls) /\ Named(rest, Len(obj))
      /\ c.op \in {"save", "regRead"} => c.job \in 1..Len(obj)
  BY <1>1, Taken
<1>3. c.put \in Row \cup {None} /\ c.job \in 0..MaxJobs  BY <1>2 DEF Calls
<1> HIDE DEF c, rest
<1>4. CASE SaveServed(c)
  <2> DEFINE o == [obj[c.job] EXCEPT !.at = "run", !.owed = FALSE]
  <2>1. obj[c.job] \in Job  BY <1>2, <1>4 DEF SaveServed
  <2>2. o \in Job  BY <2>1 DEF Job
  <2>3. obj' = [obj EXCEPT ![c.job] = o] /\ calls' = rest /\ row' = c.put
    BY <1>4 DEF SaveServed, rest
  <2> HIDE DEF o
  <2>4. obj' \in Seq(Job) /\ Len(obj') = Len(obj)  BY <2>2, <2>3, Replaced
  <2> QED  BY <1>1, <1>2, <1>3, <2>3, <2>4
<1>5. CASE TickServed(c)
  <2>1. CASE calls' = rest /\ UNCHANGED obj
    BY <1>1, <1>2, <1>5, <2>1 DEF TickServed
  <2>2. CASE cur # 0 /\ fire(cur, FALSE, rest)
    <3>1. cur \in 1..Len(obj)  BY <2>2
    <3>2. obj' \in Seq(Job) /\ Len(obj') = Len(obj) /\ calls' \in Seq(Calls)
          /\ Named(calls', Len(obj))  BY <1>2, <2>2, <3>1, FireTypes
    <3> QED  BY <1>1, <1>5, <3>2 DEF TickServed
  <2> QED  BY <1>5, <2>1, <2>2 DEF TickServed, rest
<1>6. CASE RegReadServed(c)
  <2> DEFINE put == [last |-> Last(row),
                     next |-> IF NextOf(row) # Null THEN NextOf(row)
                              ELSE nextRun(obj[c.job].cadence, Last(row), now)]
             k == Call("regSave", c.job, put)
  <2>1. obj[c.job] \in Job  BY <1>2, <1>6 DEF RegReadServed
  <2>2. obj[c.job].cadence \in Cadences  BY <2>1 DEF Job
  <2>3. put \in Row  BY <2>2, PutType
  <2>4. calls' = Append(rest, k) /\ UNCHANGED <<obj, row>>  BY <1>6 DEF RegReadServed, rest
  <2> HIDE DEF put
  <2>5. k \in Calls /\ k.op = "regSave"  BY <1>3, <2>3 DEF Call, Calls
  <2> HIDE DEF k
  <2>6. calls' \in Seq(Calls) /\ Named(calls', Len(obj))
    <3> DEFINE n == Len(obj)
    <3>1. n \in Nat /\ Named(rest, n)  BY <1>2
    <3> HIDE DEF n
    <3>2. Append(rest, k) \in Seq(Calls) /\ Named(Append(rest, k), n)
      BY <1>2, <2>5, <3>1, Queued
    <3> QED  BY <2>4, <3>2 DEF n
  <2> QED  BY <1>1, <2>4, <2>6
<1>7. CASE WriteServed(c)
  BY <1>1, <1>2, <1>3, <1>7 DEF WriteServed, rest
<1> QED  BY <1>1, <1>4, <1>5, <1>6, <1>7

(* A failed call, a crash and the clock.                                   *)
LEMMA TypesFaults == ASSUME Types, CallFails \/ Crash \/ TimePasses PROVE Types'
<1> USE SchedulerAssumption DEF Types, TypeOK
<1>1. CASE CallFails
  <2> DEFINE c == Head(calls)
             rest == Tail(calls)
  <2>1. /\ calls # <<>> /\ faults < MaxFaults /\ (row' = row \/ row' = c.put)
        /\ obj' = (IF c.op = "save" THEN PassEnds(c.job) ELSE obj)
        /\ calls' = rest /\ faults' = faults + 1 /\ UNCHANGED <<cur, now>>
    BY <1>1 DEF CallFails
  <2>2. /\ c \in Calls /\ rest \in Seq(Calls) /\ Named(rest, Len(obj))
        /\ c.op \in {"save", "regRead"} => c.job \in 1..Len(obj)
    BY <2>1, Taken
  <2> HIDE DEF c, rest
  <2>3. c.put \in Row \cup {None}  BY <2>2 DEF Calls
  <2>4. row' \in Row \cup {None} /\ faults' \in 0..MaxFaults  BY <2>1, <2>3
  <2>5. obj' \in Seq(Job) /\ Len(obj') = Len(obj)
    <3>1. CASE c.op = "save"
      <4> DEFINE o == [obj[c.job] EXCEPT !.busy = FALSE, !.at = "idle", !.owed = FALSE]
      <4>1. obj[c.job] \in Job  BY <2>2, <3>1
      <4>2. o \in Job  BY <4>1 DEF Job
      <4>3. obj' = [obj EXCEPT ![c.job] = o]  BY <2>1, <3>1 DEF PassEnds
      <4> HIDE DEF o
      <4> QED  BY <4>2, <4>3, Replaced
    <3>2. CASE c.op # "save"
      BY <2>1, <3>2
    <3> QED  BY <3>1, <3>2
  <2> QED  BY <2>1, <2>2, <2>4, <2>5
<1>2. CASE Crash
  BY <1>2 DEF Crash, Named
<1>3. CASE TimePasses
  BY <1>3 DEF TimePasses
<1> QED  BY <1>1, <1>2, <1>3

(* Every step keeps the types.                                             *)
LEMMA TypesNext == ASSUME Types, [Next]_vars PROVE Types'
<1>1. CASE UNCHANGED vars
  BY <1>1 DEF vars, Types, TypeOK, Named
<1>2. CASE Next
  BY <1>2, TypesAsked, TypesServed, TypesFaults DEF Next
<1> QED  BY <1>1, <1>2

(* The job objects, the row and the store calls under way keep their types *)
(* for any cadences, registrations, failures and crashes.                  *)
THEOREM TypeCorrect == Spec => []TypeOK
<1>1. Init => Types  BY TypesInit
<1>2. Types /\ [Next]_vars => Types'  BY TypesNext
<1>3. Types => TypeOK  BY DEF Types
<1> QED  BY <1>1, <1>2, <1>3, PTL DEF Spec

-----------------------------------------------------------------------------
(* No job is further from its next run than its interval.  A job has one   *)
(* interval in its life (ids are bound to their cadence by the caller); it *)
(* may also be registered as manual.                                       *)
OneInterval == \A a, b \in Cadences \ {Manual} : a = b

(* A row that was computed by now: its job ran in the past and its window  *)
(* is at most an interval away.                                            *)
Within(r, t) == r # None => r.last =< t /\ \A c \in Cadences \ {Manual} : r.next =< t + c

(* All that is written, or about to be.                                    *)
PutsWithin(queue, t) == \A i \in 1..Len(queue) : Within(queue[i].put, t)
InTime == Within(row, now) /\ PutsWithin(calls, now)

(* The queue grows at its end.                                             *)
LEMMA PutQueued ==
  ASSUME NEW queue \in Seq(Calls), NEW t, PutsWithin(queue, t), NEW c \in Calls, Within(c.put, t)
  PROVE  PutsWithin(Append(queue, c), t)
BY DEF PutsWithin

(* The store takes its first call.                                         *)
LEMMA PutTaken ==
  ASSUME NEW queue \in Seq(Calls), queue # <<>>, NEW t, PutsWithin(queue, t)
  PROVE  Within(Head(queue).put, t) /\ PutsWithin(Tail(queue), t)
<1>1. Head(queue) = queue[1] /\ 1 \in 1..Len(queue)  OBVIOUS
<1>2. \A i \in 1..Len(Tail(queue)) : Tail(queue)[i] = queue[i + 1] /\ i + 1 \in 1..Len(queue)
  OBVIOUS
<1> QED  BY <1>1, <1>2 DEF PutsWithin

(* What was in time stays in time while the clock goes on.                 *)
LEMMA WithinLater ==
  ASSUME NEW r \in Row \cup {None}, NEW t \in Nat, Within(r, t)
  PROVE  Within(r, t + 1)
<1>1. CASE r = None  BY <1>1 DEF Within
<1>2. CASE r \in Row /\ r # None
  <2>1. r.last \in Int /\ r.next \in Int  BY <1>2, SchedulerAssumption DEF Row, Null
  <2>2. ASSUME NEW c \in Cadences \ {Manual} PROVE r.next =< (t + 1) + c
    BY <1>2, <2>1, <2>2, SchedulerAssumption DEF Within
  <2>3. r.last =< t + 1  BY <1>2, <2>1 DEF Within
  <2> QED  BY <2>2, <2>3 DEF Within
<1> QED  BY <1>1, <1>2

(* What a pass saves before its run: from now, one interval on (runOnce).  *)
LEMMA SaveWithin ==
  ASSUME OneInterval, Types, NEW j \in 1..Len(obj)
  PROVE  Within(SaveOf(j).put, now)
<1> DEFINE c == obj[j].cadence
<1>1. obj[j] \in Job /\ now \in Nat  BY SchedulerAssumption DEF Types, TypeOK
<1>2. c \in Cadences /\ c \in Nat  BY <1>1, SchedulerAssumption DEF Job
<1> DEFINE put == [last |-> now, next |-> nextRun(c, now, now)]
<1>3. SaveOf(j).put = put  BY DEF SaveOf, Call
<1>4. ASSUME NEW d \in Cadences \ {Manual} PROVE put.next =< now + d
  <2>1. d \in Nat  BY SchedulerAssumption
  <2>2. CASE c = Manual
    BY <1>1, <2>1, <2>2 DEF nextRun, Null
  <2>3. CASE c # Manual
    <3>1. c = d  BY <1>2, <2>3 DEF OneInterval
    <3>2. now # Null /\ ~(now + c < now)  BY <1>1, <1>2 DEF Null
    <3>3. put.next = now + c  BY <2>3, <3>2 DEF nextRun
    <3> QED  BY <1>1, <1>2, <3>1, <3>3
  <2> QED  BY <2>2, <2>3
<1>5. put.last =< now  BY <1>1
<1> QED  BY <1>3, <1>4, <1>5 DEF Within

(* What register() saves from the row it found (register).                 *)
LEMMA RegisterWithin ==
  ASSUME OneInterval, now \in Nat, NEW c \in Cadences, NEW r \in Row \cup {None}, Within(r, now)
  PROVE  Within([last |-> Last(r), next |-> IF NextOf(r) # Null THEN NextOf(r)
                                            ELSE nextRun(c, Last(r), now)], now)
<1> DEFINE put == [last |-> Last(r), next |-> IF NextOf(r) # Null THEN NextOf(r)
                                              ELSE nextRun(c, Last(r), now)]
<1>1. Last(r) \in Int /\ NextOf(r) \in Int /\ Last(r) =< now
  BY SchedulerAssumption DEF Last, NextOf, Row, Null, Within
<1>2. c \in Nat  BY SchedulerAssumption
<1>3. ASSUME NEW d \in Cadences \ {Manual} PROVE put.next =< now + d
  <2>1. d \in Nat  BY SchedulerAssumption
  <2>2. CASE NextOf(r) # Null
    <3>1. r # None  BY <2>2 DEF NextOf
    <3>2. put.next = r.next  BY <2>2, <3>1 DEF NextOf
    <3> QED  BY <3>1, <3>2 DEF Within
  <2>3. CASE NextOf(r) = Null /\ c = Manual
    BY <2>1, <2>3 DEF nextRun, Null
  <2>4. CASE NextOf(r) = Null /\ c # Manual
    <3>1. c = d  BY <2>4 DEF OneInterval
    <3>2. put.next = now \/ put.next = Last(r) + c  BY <2>4 DEF nextRun
    <3> QED  BY <1>1, <1>2, <2>1, <3>1, <3>2
  <2> QED  BY <2>2, <2>3, <2>4
<1> HIDE DEF put
<1>4. put.last =< now  BY <1>1 DEF put
<1>5. Within(put, now)  BY <1>3, <1>4 DEF Within
<1> QED  BY <1>5 DEF put

(* A fire queues nothing, or the save of a pass that begins (fire).        *)
LEMMA FireInTime ==
  ASSUME OneInterval, Types, NEW j \in 1..Len(obj), NEW trig,
         NEW queue \in Seq(Calls), PutsWithin(queue, now), fire(j, trig, queue)
  PROVE  PutsWithin(calls', now)
<1>1. calls' = queue \/ calls' = Append(queue, SaveOf(j))  BY Zenon DEF fire
<1>2. SaveOf(j) \in Calls  BY SaveType DEF Types, TypeOK
<1>3. Within(SaveOf(j).put, now)  BY SaveWithin
<1> DEFINE k == SaveOf(j)
<1>4. k \in Calls /\ Within(k.put, now) /\ (calls' = queue \/ calls' = Append(queue, k))
  BY <1>1, <1>2, <1>3
<1> HIDE DEF k
<1>5. PutsWithin(Append(queue, k), now)  BY <1>4, PutQueued
<1> QED  BY <1>4, <1>5

(* The calls of the app and the end of a run.                              *)
LEMMA InTimeAsked ==
  ASSUME OneInterval, Types, InTime,
         \/ \E c \in Cadences : register(c)
         \/ unregister \/ trigger \/ tick \/ \E j \in DOMAIN obj : RunEnds(j)
  PROVE  InTime'
<1>1. calls \in Seq(Calls) /\ obj \in Seq(Job) /\ cur \in 0..Len(obj) /\ Len(obj) =< MaxJobs
      /\ Len(obj) \in Nat
  BY DEF Types, TypeOK
<1>2. UNCHANGED <<row, now>>  BY Zenon DEF register, unregister, trigger, tick, RunEnds
<1>3. ASSUME NEW op \in {"tick", "regRead", "delete"}, NEW j \in 0..MaxJobs,
             calls' = Append(calls, Call(op, j, None))
      PROVE  PutsWithin(calls', now)
  <2> DEFINE k == Call(op, j, None)
  <2>1. k \in Calls /\ Within(k.put, now)  BY DEF Call, Calls, Within
  <2> HIDE DEF k
  <2>2. PutsWithin(Append(calls, k), now)  BY <1>1, <2>1, PutQueued DEF InTime
  <2> QED  BY <1>3, <2>2 DEF k
<1>4. PutsWithin(calls', now)
  <2>1. ASSUME NEW c \in Cadences, register(c) PROVE PutsWithin(calls', now)
    <3>1. calls' = Append(calls, Call("regRead", Len(obj) + 1, None)) /\ Len(obj) < MaxJobs
      BY <2>1 DEF register
    <3>2. Len(obj) + 1 \in 0..MaxJobs  BY <1>1, <3>1, SchedulerAssumption
    <3> QED  BY <3>1, <3>2, <1>3
  <2>2. CASE unregister
    <3>1. calls' = Append(calls, Call("delete", 0, None)) /\ 0 \in 0..MaxJobs
      BY <2>2, SchedulerAssumption DEF unregister
    <3> QED  BY <3>1, <1>3
  <2>3. CASE tick
    <3>1. calls' = Append(calls, Call("tick", 0, None)) /\ 0 \in 0..MaxJobs
      BY <2>3, SchedulerAssumption DEF tick
    <3> QED  BY <3>1, <1>3
  <2>4. CASE trigger
    <3>1. cur # 0 /\ fire(cur, TRUE, calls)  BY <2>4, Zenon DEF trigger
    <3>2. cur \in 1..Len(obj)  BY <1>1, <3>1
    <3> QED  BY <1>1, <3>1, <3>2, FireInTime DEF InTime
  <2>5. ASSUME NEW j \in DOMAIN obj, RunEnds(j) PROVE PutsWithin(calls', now)
    <3>1. j \in 1..Len(obj)  BY <1>1
    <3> DEFINE k == SaveOf(j)
    <3>2. k \in Calls /\ Within(k.put, now)  BY <3>1, SaveType, SaveWithin DEF Types, TypeOK
    <3>3. calls' = calls \/ calls' = Append(calls, k)  BY <2>5 DEF RunEnds
    <3> HIDE DEF k
    <3>4. PutsWithin(Append(calls, k), now)  BY <1>1, <3>2, PutQueued DEF InTime
    <3> QED  BY <3>3, <3>4 DEF InTime
  <2> QED  BY <2>1, <2>2, <2>3, <2>4, <2>5
<1> QED  BY <1>2, <1>4 DEF InTime

(* The store serves its first call.                                        *)
LEMMA InTimeServed == ASSUME OneInterval, Types, InTime, Served PROVE InTime'
<1> DEFINE c == Head(calls)
           rest == Tail(calls)
<1>1. calls # <<>> /\ UNCHANGED <<cur, now, faults>>
      /\ (SaveServed(c) \/ TickServed(c) \/ RegReadServed(c) \/ WriteServed(c))
  BY DEF Served
<1>2. calls \in Seq(Calls) /\ obj \in Seq(Job) /\ cur \in 0..Len(obj) /\ now \in Nat
      /\ row \in Row \cup {None} /\ Named(calls, Len(obj)) /\ Len(obj) \in Nat
  BY SchedulerAssumption DEF Types, TypeOK
<1>3. /\ c \in Calls /\ rest \in Seq(Calls)
      /\ c.op \in {"save", "regRead"} => c.job \in 1..Len(obj)
  BY <1>1, <1>2, Taken
<1>4. Within(c.put, now) /\ PutsWithin(rest, now)  BY <1>1, <1>2, PutTaken DEF InTime
<1>5. c.job \in 0..MaxJobs  BY <1>3 DEF Calls
<1>6. Within(row', now) /\ PutsWithin(calls', now)
  <2>1. CASE SaveServed(c)
    BY <1>4, <2>1 DEF SaveServed
  <2>2. CASE TickServed(c)
    <3>1. row' = row  BY <2>2 DEF TickServed
    <3>2. CASE calls' = rest
      BY <1>4, <3>1, <3>2 DEF InTime
    <3>3. CASE cur # 0 /\ fire(cur, FALSE, rest)
      <4>1. cur \in 1..Len(obj)  BY <1>2, <3>3
      <4>2. fire(cur, FALSE, rest)  BY <3>3
      <4> HIDE DEF c, rest
      <4>3. PutsWithin(calls', now)  BY <1>3, <1>4, <4>1, <4>2, FireInTime
      <4> QED  BY <3>1, <4>3 DEF InTime
    <3> QED  BY <2>2, <3>2, <3>3 DEF TickServed
  <2>3. CASE RegReadServed(c)
    <3> DEFINE put == [last |-> Last(row),
                       next |-> IF NextOf(row) # Null THEN NextOf(row)
                                ELSE nextRun(obj[c.job].cadence, Last(row), now)]
               k == Call("regSave", c.job, put)
    <3>1. obj[c.job] \in Job  BY <1>2, <1>3, <2>3 DEF RegReadServed
    <3>2. obj[c.job].cadence \in Cadences  BY <3>1 DEF Job
    <3>3. now \in 0..MaxTime  BY DEF Types, TypeOK
    <3>4. put \in Row  BY <1>2, <3>2, <3>3, PutType
    <3>5. Within(put, now)  BY <1>2, <3>2, RegisterWithin DEF InTime
    <3>6. calls' = Append(rest, k) /\ row' = row  BY <2>3 DEF RegReadServed
    <3> HIDE DEF put
    <3>7. k \in Calls /\ Within(k.put, now)  BY <1>5, <3>4, <3>5 DEF Call, Calls
    <3> HIDE DEF k, rest
    <3>8. PutsWithin(Append(rest, k), now)  BY <1>3, <1>4, <3>7, PutQueued
    <3> QED  BY <3>6, <3>8 DEF InTime
  <2>4. CASE WriteServed(c)
    BY <1>4, <2>4 DEF WriteServed
  <2> QED  BY <1>1, <2>1, <2>2, <2>3, <2>4
<1> QED  BY <1>1, <1>6 DEF InTime

(* A failed call, a crash and the clock.                                   *)
LEMMA InTimeFaults == ASSUME Types, InTime, CallFails \/ Crash \/ TimePasses PROVE InTime'
<1>1. calls \in Seq(Calls) /\ now \in Nat /\ row \in Row \cup {None}
  BY SchedulerAssumption DEF Types, TypeOK
<1>2. CASE CallFails
  <2>1. calls # <<>> /\ calls' = Tail(calls) /\ now' = now
        /\ (row' = row \/ row' = Head(calls).put)
    BY <1>2 DEF CallFails
  <2>2. Within(Head(calls).put, now) /\ PutsWithin(Tail(calls), now)
    BY <1>1, <2>1, PutTaken DEF InTime
  <2> QED  BY <2>1, <2>2 DEF InTime
<1>3. CASE Crash
  BY <1>3 DEF Crash, InTime, PutsWithin
<1>4. CASE TimePasses
  <2>1. now' = now + 1 /\ calls' = calls /\ row' = row  BY <1>4 DEF TimePasses
  <2>2. Within(row, now + 1)  BY <1>1, WithinLater DEF InTime
  <2>3. ASSUME NEW i \in 1..Len(calls) PROVE Within(calls[i].put, now + 1)
    <3>1. calls[i] \in Calls  BY <1>1
    <3>2. calls[i].put \in Row \cup {None}  BY <3>1 DEF Calls
    <3>3. Within(calls[i].put, now)  BY DEF InTime, PutsWithin
    <3> QED  BY <1>1, <3>2, <3>3, WithinLater
  <2> QED  BY <2>1, <2>2, <2>3 DEF InTime, PutsWithin
<1> QED  BY <1>2, <1>3, <1>4

(* Every step keeps the types and the times.                               *)
LEMMA InTimeNext == ASSUME OneInterval, Types, InTime, [Next]_vars PROVE InTime'
<1>1. CASE UNCHANGED vars
  BY <1>1 DEF vars, InTime, PutsWithin
<1>2. CASE Next
  BY <1>2, InTimeAsked, InTimeServed, InTimeFaults DEF Next
<1> QED  BY <1>1, <1>2

(* The row a registered job finds never puts it off by more than its own   *)
(* interval: register() keeps the times of an earlier process, a pass and  *)
(* its failed save, a tick and a crash may come between, and the bound     *)
(* holds in every state, not only once the calls are done.                 *)
THEOREM CadenceHolds == OneInterval => (Spec => []CadenceApplies)
<1> SUFFICES ASSUME OneInterval PROVE Spec => []CadenceApplies
  OBVIOUS
<1>1. Init => Types /\ InTime
  BY TypesInit DEF Init, InTime, Within, PutsWithin
<1>2. (Types /\ InTime) /\ [Next]_vars => (Types /\ InTime)'
  BY TypesNext, InTimeNext
<1>3. Types /\ InTime => CadenceApplies
  <2> SUFFICES ASSUME Types, InTime, cur # 0, obj[cur].cadence # Manual
               PROVE  NextOf(row) =< now + obj[cur].cadence
    BY DEF CadenceApplies
  <2> DEFINE c == obj[cur].cadence
  <2>1. obj \in Seq(Job) /\ cur \in 1..Len(obj) /\ now \in Nat  BY SchedulerAssumption DEF Types, TypeOK
  <2>2. obj[cur] \in Job  BY <2>1
  <2>3. c \in Cadences \ {Manual} /\ c \in Nat  BY <2>2, SchedulerAssumption DEF Job
  <2> HIDE DEF c
  <2>4. CASE row = None
    BY <2>1, <2>3, <2>4 DEF NextOf, Null, c
  <2>5. CASE row # None
    <3>1. row.next =< now + c  BY <2>3, <2>5 DEF InTime, Within
    <3> QED  BY <2>5, <3>1 DEF NextOf, c
  <2> QED  BY <2>4, <2>5
<1> QED  BY <1>1, <1>2, <1>3, PTL DEF Spec
=============================================================================
