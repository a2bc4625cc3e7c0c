----------------------------- MODULE Scheduler -----------------------------
(***************************************************************************)
(* createScheduler, for one job id (ids share nothing but the tick's read).*)
(*                                                                         *)
(* register() puts a new job object under the id; a pass belongs to the    *)
(* object it began with, also when the id is registered again or not at    *)
(* all.  Store calls are served in order, and a call is served together    *)
(* with its caller's continuation.  Times are numbers; an interval         *)
(* cadence is its length, and cron cadences are left out.                  *)
(***************************************************************************)
EXTENDS Integers, Sequences

CONSTANTS
  Cadences,   \* what register() is called with: intervals, or Manual
  MaxJobs,    \* bound on registrations in the life of a process
  MaxTime,    \* bound on the clock
  MaxTicks,   \* bound on ticks that wait for their read
  MaxCalls,   \* (un)registering waits until fewer calls are under way
  MaxFaults,  \* bound on failed store calls and crashes
  Faults,     \* "rejected": the call does not take place; "lost": only its
              \* reply is; "crash": the app ends and starts again
  None        \* no row in the schedule table

Manual == 0
Null == -1

ASSUME SchedulerAssumption ==
  /\ Cadences \subseteq Nat
  /\ {MaxJobs, MaxTime, MaxTicks, MaxCalls, MaxFaults} \subseteq Nat
  /\ Faults \subseteq {"rejected", "lost", "crash"}

VARIABLES
  obj,     \* the job objects of this process
  cur,     \* jobs.get(id), or 0
  row,     \* the schedule table's row of the job
  calls,   \* store calls under way
  now,
  faults

vars == <<obj, cur, row, calls, now, faults>>

Job == [cadence : Cadences, busy : BOOLEAN, again : BOOLEAN,
        at : {"idle", "save", "run"},  \* where its pass is
        owed : BOOLEAN]                \* triggered, and since then neither a
                                       \* run began nor a save of it failed
Row == [last : Null..MaxTime,
        next : {Null} \cup {t + c : t \in 0..MaxTime, c \in Cadences \cup {0}}]
Calls == [op : {"save", "tick", "regRead", "regSave", "delete"},
          job : 0..MaxJobs, put : Row \cup {None}]

TypeOK ==
  /\ obj \in Seq(Job) /\ Len(obj) =< MaxJobs
  /\ cur \in 0..Len(obj)
  /\ row \in Row \cup {None}
  /\ calls \in Seq(Calls)
  /\ now \in 0..MaxTime /\ faults \in 0..MaxFaults

Init ==
  /\ obj = <<>> /\ cur = 0 /\ row = None /\ calls = <<>>
  /\ now = 0 /\ faults = 0

-----------------------------------------------------------------------------
\* Mutant: one unit late.
nextRun_Late(c, last, t) ==
  IF c = Manual THEN Null
  ELSE IF last = Null \/ last + c < t THEN t ELSE last + c + 1

\* nextRun: never before now; a job that has not run is due at once.
nextRun(c, last, t) ==
  CASE c = Manual -> Null
    [] c # Manual /\ (last = Null \/ last + c < t) -> t
    [] OTHER -> last + c

Last(r) == IF r = None THEN Null ELSE r.last
NextOf(r) == IF r = None THEN Null ELSE r.next

\* tick's test of one job against the row it read.
due(c, r) ==
  /\ c # Manual
  /\ IF NextOf(r) # Null THEN NextOf(r) =< now ELSE nextRun(c, Last(r), now) =< now

Call(op, j, put) == [op |-> op, job |-> j, put |-> put]

\* runOnce begins: the row says the job ran before it does.
SaveOf(j) == Call("save", j, [last |-> now, next |-> nextRun(obj[j].cadence, now, now)])

\* Mutant: a trigger in a pass is dropped.
fire_Drops(j, trig, queue) ==
  LET o == obj[j] IN
  \/ /\ o.busy
     /\ obj' = [obj EXCEPT ![j].owed = @ \/ trig]
     /\ calls' = queue
  \/ /\ ~o.busy
     /\ obj' = [obj EXCEPT ![j].busy = TRUE, ![j].again = FALSE, ![j].at = "save",
                           ![j].owed = @ \/ trig]
     /\ calls' = Append(queue, SaveOf(j))

\* fire: with trig the caller is trigger(), whose run is owed.
fire(j, trig, queue) ==
  LET o == obj[j] IN
  \/ /\ o.busy
     /\ obj' = [obj EXCEPT ![j].again = TRUE, ![j].owed = @ \/ trig]
     /\ calls' = queue
  \/ /\ ~o.busy
     /\ obj' = [obj EXCEPT ![j].busy = TRUE, ![j].again = FALSE, ![j].at = "save",
                           ![j].owed = @ \/ trig]
     /\ calls' = Append(queue, SaveOf(j))

-----------------------------------------------------------------------------
register(c) ==
  /\ Len(obj) < MaxJobs /\ Len(calls) < MaxCalls
  /\ obj' = Append(obj, [cadence |-> c, busy |-> FALSE, again |-> FALSE,
                         at |-> "idle", owed |-> FALSE])
  /\ cur' = Len(obj) + 1
  /\ calls' = Append(calls, Call("regRead", cur', None))
  /\ UNCHANGED <<row, now, faults>>

unregister ==
  /\ cur # 0 /\ Len(calls) < MaxCalls
  /\ cur' = 0
  /\ calls' = Append(calls, Call("delete", 0, None))
  /\ UNCHANGED <<obj, row, now, faults>>

trigger ==
  /\ cur # 0 /\ fire(cur, TRUE, calls)
  /\ UNCHANGED <<cur, row, now, faults>>

\* The interval's tick, unless the battery and the heat forbid it.
tick ==
  /\ Len(SelectSeq(calls, LAMBDA c : c.op = "tick")) < MaxTicks
  /\ calls' = Append(calls, Call("tick", 0, None))
  /\ UNCHANGED <<obj, cur, row, now, faults>>

\* job.run() ends, well or not; a follow-up begins if one was earned.
RunEnds(j) ==
  /\ obj[j].at = "run"
  /\ \/ /\ obj[j].again
        /\ obj' = [obj EXCEPT ![j].again = FALSE, ![j].at = "save"]
        /\ calls' = Append(calls, SaveOf(j))
     \/ /\ ~obj[j].again
        /\ obj' = [obj EXCEPT ![j].busy = FALSE, ![j].at = "idle"]
        /\ UNCHANGED calls
  /\ UNCHANGED <<cur, row, now, faults>>

-----------------------------------------------------------------------------
\* The store serves its first call.
SaveServed(c) ==
  /\ c.op = "save"
  /\ row' = c.put /\ obj' = [obj EXCEPT ![c.job].at = "run", ![c.job].owed = FALSE]
  /\ calls' = Tail(calls)

TickServed(c) ==
  /\ c.op = "tick"
  /\ \/ cur # 0 /\ due(obj[cur].cadence, row) /\ fire(cur, FALSE, Tail(calls))
     \/ /\ ~(cur # 0 /\ due(obj[cur].cadence, row))
        /\ calls' = Tail(calls) /\ UNCHANGED obj
  /\ UNCHANGED row

\* Mutant: the two times are swapped.
RegReadServed_Swapped(c) ==
  /\ c.op = "regRead"
  /\ LET put == [next |-> Last(row),
                 last |-> IF NextOf(row) # Null THEN NextOf(row)
                          ELSE nextRun(obj[c.job].cadence, Last(row), now)]
     IN calls' = Append(Tail(calls), Call("regSave", c.job, put))
  /\ UNCHANGED <<obj, row>>

\* register keeps the times of the row it finds.
RegReadServed(c) ==
  /\ c.op = "regRead"
  /\ LET put == [last |-> Last(row),
                 next |-> IF NextOf(row) # Null THEN NextOf(row)
                          ELSE nextRun(obj[c.job].cadence, Last(row), now)]
     IN calls' = Append(Tail(calls), Call("regSave", c.job, put))
  /\ UNCHANGED <<obj, row>>

WriteServed(c) ==
  /\ c.op \in {"regSave", "delete"}
  /\ row' = c.put /\ calls' = Tail(calls)
  /\ UNCHANGED obj

Served ==
  /\ calls # <<>>
  /\ LET c == Head(calls) IN
       SaveServed(c) \/ TickServed(c) \/ RegReadServed(c) \/ WriteServed(c)
  /\ UNCHANGED <<cur, now, faults>>

\* A pass whose save is rejected ends; the other callers only give up.
PassEnds(j) == [obj EXCEPT ![j].busy = FALSE, ![j].at = "idle", ![j].owed = FALSE]

CallFails ==
  /\ calls # <<>> /\ faults < MaxFaults
  /\ LET c == Head(calls) IN
     /\ \/ "rejected" \in Faults /\ row' = row
        \/ "lost" \in Faults /\ c.op \in {"save", "regSave", "delete"} /\ row' = c.put
     /\ obj' = IF c.op = "save" THEN PassEnds(c.job) ELSE obj
  /\ calls' = Tail(calls) /\ faults' = faults + 1
  /\ UNCHANGED <<cur, now>>

Crash ==
  /\ "crash" \in Faults /\ faults < MaxFaults
  /\ obj' = <<>> /\ cur' = 0 /\ calls' = <<>> /\ faults' = faults + 1
  /\ UNCHANGED <<row, now>>

TimePasses ==
  /\ now < MaxTime /\ now' = now + 1
  /\ UNCHANGED <<obj, cur, row, calls, faults>>

Next ==
  \/ \E c \in Cadences : register(c)
  \/ unregister \/ trigger \/ tick \/ Served \/ CallFails \/ Crash \/ TimePasses
  \/ \E j \in DOMAIN obj : RunEnds(j)

Spec == Init /\ [][Next]_vars

\* The store answers, the interval timer ticks, and a run ends.
Fairness ==
  /\ WF_vars(Served) /\ WF_vars(tick)
  /\ \A j \in 1..MaxJobs : WF_vars(j \in DOMAIN obj /\ RunEnds(j))
FairSpec == Spec /\ Fairness

-----------------------------------------------------------------------------
\* A trigger is followed by a run that begins after it, whether it comes before,
\* in or after a pass, and whatever is registered meanwhile: work that the pass
\* had already walked past is not stranded.  Only a pass whose save fails drops
\* it, with the follow-up it had earned (fire, runOnce).  And a window that is
\* due, be it since before the app started, is claimed by a pass (whose save
\* moves the row on), after failed store calls and crashes too (tick).
RunsFollow ==
  \A j \in 1..MaxJobs :
    /\ (j \in DOMAIN obj /\ obj[j].owed) ~> ~(j \in DOMAIN obj /\ obj[j].owed)
    /\ (cur = j /\ due(obj[cur].cadence, row)) ~> ~(cur = j /\ due(obj[cur].cadence, row))

\* A registered job is never more than its own interval away from its next run
\* once the store calls that registered it are done.
CadenceApplies ==
  calls = <<>> /\ cur # 0 /\ obj[cur].cadence # Manual
    => NextOf(row) =< now + obj[cur].cadence
=============================================================================
