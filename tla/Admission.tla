----------------------------- MODULE Admission -----------------------------
(***************************************************************************)
(* createAdmission: who may start a background unit, how the foreground    *)
(* holds them back, and the one timer that wakes those who wait.           *)
(*                                                                         *)
(* Time is kept as ages.  An age stops counting at the largest delay the   *)
(* code compares it with, so the behaviours are unbounded in time and      *)
(* finite in states.  waiters is in the order of enqueueing, so the first  *)
(* of several is the one with the smallest enq.                            *)
(*                                                                         *)
(* A method runs to its end before anything else does.  pump(), the last   *)
(* thing most of them do, takes one step per admitted unit; while pumping  *)
(* is TRUE nothing else moves.                                             *)
(***************************************************************************)
EXTENDS Integers, Sequences, SequencesExt, FiniteSets

CONSTANTS
  Units,      \* callers of acquire(), one unit at a time each
  Idlers,     \* callers of foregroundIdle()
  Kinds,      \* the unit kinds of this instance
  Slots,      \* deps.slots
  Grace,      \* FOREGROUND_GRACE_MS
  Aging,      \* KIND_AGING_MS
  MaxWait,    \* MAX_FOREGROUND_WAIT_MS
  MaxFg,      \* bound on foreground calls in flight
  LateTimers  \* a timer that is due may run after other callbacks

RANK == [ingest |-> 0, convert |-> 1, reconcile |-> 2, redrive |-> 3]

ASSUME CallersAssumption ==
  IsFiniteSet(Units) /\ IsFiniteSet(Idlers) /\ Kinds \subseteq DOMAIN RANK
ASSUME DelaysAssumption ==
  /\ Slots \in Nat \ {0} /\ MaxFg \in Nat /\ LateTimers \in BOOLEAN
  /\ Grace \in Nat \ {0} /\ Aging \in Nat /\ MaxWait \in Nat
  /\ Grace =< MaxWait /\ Aging =< MaxWait

NoWake == -1

VARIABLES
  waiters,         \* the waiters array
  kind,            \* the kind each unit asked for
  age,             \* now - enq of each waiter
  unit,            \* "out", "running", or "held" for the slow mode
  escaped,         \* the unit was admitted past a busy foreground
  running,         \* the counters of the code
  escapedRunning,
  fgInFlight,
  sinceLeave,      \* now - fgLastLeave
  idlers,          \* idleWaiters
  idleAge,         \* the age of their cap timer
  wake,            \* time left on the wake timer, or NoWake
  pumping          \* pump() is going on

vars == <<waiters, kind, age, unit, escaped, running, escapedRunning,
          fgInFlight, sinceLeave, idlers, idleAge, wake, pumping>>
unitVars == <<unit, escaped, running, escapedRunning>>
idleVars == <<idlers, idleAge>>
fgVars == <<fgInFlight, sinceLeave>>

TypeOK ==
  /\ waiters \in Seq(Units)
  /\ kind \in [Units -> DOMAIN RANK] /\ age \in [Units -> 0..MaxWait]
  /\ unit \in [Units -> {"out", "running", "held"}]
  /\ escaped \in [Units -> BOOLEAN]
  /\ running \in Nat /\ escapedRunning \in Nat
  /\ fgInFlight \in 0..MaxFg /\ sinceLeave \in 0..Grace
  /\ idlers \subseteq Idlers /\ idleAge \in [Idlers -> 0..MaxWait]
  /\ wake \in {NoWake} \cup 0..MaxWait /\ pumping \in BOOLEAN

Init ==
  /\ waiters = <<>> /\ kind = [u \in Units |-> "ingest"]
  /\ age = [u \in Units |-> 0]
  /\ unit = [u \in Units |-> "out"] /\ escaped = [u \in Units |-> FALSE]
  /\ running = 0 /\ escapedRunning = 0
  /\ fgInFlight = 0 /\ sinceLeave = Grace
  /\ idlers = {} /\ idleAge = [i \in Idlers |-> 0]
  /\ wake = NoWake /\ pumping = FALSE

-----------------------------------------------------------------------------
foregroundBusy == fgInFlight > 0 \/ sinceLeave < Grace

Waiting(u) == \E i \in DOMAIN waiters : waiters[i] = u

GraceEnd == Grace - sinceLeave
Deadline(u) == MaxWait - age[u]

\* Mutant: the starvation deadlines are left out.
Moments_GraceOnly == {t \in 0..MaxWait : fgInFlight = 0 /\ t = GraceEnd}

\* The moments armWake chooses from: the end of the grace, and while a slot is
\* free and no unit has escaped, each waiter's starvation deadline.
Moments ==
  {t \in 0..MaxWait :
     \/ fgInFlight = 0 /\ t = GraceEnd
     \/ /\ escapedRunning = 0 /\ running < Slots
        /\ \E i \in DOMAIN waiters : t = Deadline(waiters[i])}

\* What the timer is set to at the end of a method, from the state it leaves.
WakeTime ==
  IF (waiters = <<>> /\ idlers = {}) \/ ~foregroundBusy \/ Moments = {}
    THEN NoWake
    ELSE CHOOSE t \in Moments : \A s \in Moments : t =< s

armWake == wake' = WakeTime'

\* Callbacks run one at a time, and before those of a timer that is due only
\* where the event loop may delay it.
Turn == ~pumping /\ (LateTimers \/ wake # 0)

-----------------------------------------------------------------------------
\* The method ends in pump().
pump == pumping' = TRUE /\ UNCHANGED wake

acquire(u, k) ==
  /\ Turn /\ unit[u] = "out" /\ ~Waiting(u)
  /\ waiters' = Append(waiters, u)
  /\ kind' = [kind EXCEPT ![u] = k] /\ age' = [age EXCEPT ![u] = 0]
  /\ pump
  /\ UNCHANGED <<unitVars, fgVars, idleVars>>

\* The signal of a waiter fires.
onAbort(i) ==
  /\ Turn
  /\ waiters' = RemoveAt(waiters, i)
  /\ UNCHANGED <<kind, age, unitVars, fgVars, idleVars, pumping>>
  /\ armWake

\* The slot of a unit is free again.
freeSlot(u) ==
  /\ unit' = [unit EXCEPT ![u] = "out"] /\ running' = running - 1
  /\ escaped' = [escaped EXCEPT ![u] = FALSE]

\* Mutant: the slot of a held unit is given back at once, and again later.
release_FreesHeld(u) ==
  /\ Turn /\ unit[u] = "running"
  /\ escapedRunning' = escapedRunning - (IF escaped[u] THEN 1 ELSE 0)
  /\ \/ /\ unit' = [unit EXCEPT ![u] = "held"] /\ running' = running - 1
        /\ pump /\ UNCHANGED escaped
     \/ freeSlot(u) /\ pump
  /\ UNCHANGED <<waiters, kind, age, fgVars, idleVars>>

\* A finished unit gives its slot back, after a pause when the user is active
\* and the unit took time.
release(u) ==
  /\ Turn /\ unit[u] = "running"
  /\ escapedRunning' = escapedRunning - (IF escaped[u] THEN 1 ELSE 0)
  /\ \/ /\ unit' = [unit EXCEPT ![u] = "held"]
        /\ UNCHANGED <<running, wake, pumping>>
        /\ UNCHANGED escaped
     \/ freeSlot(u) /\ pump
  /\ UNCHANGED <<waiters, kind, age, fgVars, idleVars>>

HoldEnds(u) ==
  /\ Turn /\ unit[u] = "held"
  /\ freeSlot(u) /\ pump
  /\ UNCHANGED <<waiters, kind, age, escapedRunning, fgVars, idleVars>>

-----------------------------------------------------------------------------
\* pickNext: index i is the waiter that may start now.
Starved(i) == age[waiters[i]] >= MaxWait
Aged(i) == age[waiters[i]] >= Aging
Rank(i) == RANK[kind[waiters[i]]]
FirstOf(i, P(_)) == P(i) /\ \A j \in 1..(i - 1) : ~P(j)

\* Mutant: no aging.
pickNext_NoAging(i) ==
  IF foregroundBusy
    THEN escapedRunning = 0 /\ FirstOf(i, Starved)
    ELSE /\ \A j \in DOMAIN waiters : Rank(i) =< Rank(j)
         /\ \A j \in 1..(i - 1) : Rank(j) # Rank(i)

pickNext(i) ==
  IF foregroundBusy
    THEN escapedRunning = 0 /\ FirstOf(i, Starved)
    ELSE \/ FirstOf(i, Aged)
         \/ /\ \A j \in DOMAIN waiters : ~Aged(j) /\ Rank(i) =< Rank(j)
            /\ \A j \in 1..(i - 1) : Rank(j) # Rank(i)

admit(i) ==
  LET u == waiters[i] IN
  /\ waiters' = RemoveAt(waiters, i)
  /\ unit' = [unit EXCEPT ![u] = "running"] /\ running' = running + 1
  /\ escaped' = [escaped EXCEPT ![u] = foregroundBusy]
  /\ escapedRunning' = escapedRunning + (IF foregroundBusy THEN 1 ELSE 0)

AdmitNext ==
  /\ pumping /\ running < Slots
  /\ \E i \in DOMAIN waiters : pickNext(i) /\ admit(i)
  /\ UNCHANGED <<kind, age, fgVars, idleVars, wake, pumping>>

PumpEnds ==
  /\ pumping /\ ~(running < Slots /\ \E i \in DOMAIN waiters : pickNext(i))
  /\ pumping' = FALSE
  /\ UNCHANGED <<waiters, kind, age, unitVars, fgVars, idleVars>>
  /\ armWake

-----------------------------------------------------------------------------
foreground ==
  /\ Turn /\ fgInFlight < MaxFg
  /\ fgInFlight' = fgInFlight + 1
  /\ UNCHANGED <<waiters, kind, age, unitVars, sinceLeave, idleVars, pumping>>
  /\ armWake

\* Mutant: a second leave counts too.
leave_NotIdempotent ==
  /\ Turn
  /\ fgInFlight' = fgInFlight - 1
  /\ sinceLeave' = IF fgInFlight = 1 THEN 0 ELSE sinceLeave
  /\ UNCHANGED <<waiters, kind, age, unitVars, idleVars, pumping>>
  /\ armWake

leave ==
  /\ Turn /\ fgInFlight > 0
  /\ fgInFlight' = fgInFlight - 1
  /\ sinceLeave' = IF fgInFlight = 1 THEN 0 ELSE sinceLeave
  /\ UNCHANGED <<waiters, kind, age, unitVars, idleVars, pumping>>
  /\ armWake

foregroundIdle(i) ==
  /\ Turn /\ i \notin idlers /\ foregroundBusy
  /\ idlers' = idlers \cup {i} /\ idleAge' = [idleAge EXCEPT ![i] = 0]
  /\ UNCHANGED <<waiters, kind, age, unitVars, fgVars, pumping>>
  /\ armWake

\* The cap of an idle waiter ends it, or its signal does.
finish(i, why) ==
  /\ Turn /\ i \in idlers /\ (why = "cap" => idleAge[i] = MaxWait)
  /\ idlers' = idlers \ {i}
  /\ UNCHANGED <<waiters, kind, age, unitVars, fgVars, idleAge, wake, pumping>>

\* The wake timer runs.
WakeFires ==
  /\ ~pumping /\ wake = 0
  /\ wake' = NoWake /\ pumping' = TRUE
  /\ idlers' = IF foregroundBusy THEN idlers ELSE {}
  /\ UNCHANGED <<waiters, kind, age, unitVars, fgVars, idleAge>>

\* Time passes.
Older(a, top) == IF a < top THEN a + 1 ELSE a
Tick ==
  /\ Turn
  /\ age' = [u \in Units |-> IF Waiting(u) THEN Older(age[u], MaxWait) ELSE 0]
  /\ idleAge' = [i \in Idlers |-> IF i \in idlers THEN Older(idleAge[i], MaxWait) ELSE 0]
  /\ sinceLeave' = Older(sinceLeave, Grace)
  /\ wake' = IF wake > 0 THEN wake - 1 ELSE wake
  /\ UNCHANGED <<waiters, kind, unitVars, fgInFlight, idlers, pumping>>

Next ==
  \/ \E u \in Units : (\E k \in Kinds : acquire(u, k)) \/ release(u) \/ HoldEnds(u)
  \/ \E i \in DOMAIN waiters : onAbort(i)
  \/ AdmitNext \/ PumpEnds \/ foreground \/ leave \/ WakeFires \/ Tick
  \/ \E i \in Idlers : foregroundIdle(i) \/ \E why \in {"cap", "abort"} : finish(i, why)

Spec == Init /\ [][Next]_vars

\* Time passes whatever callbacks do, timers run, and an admitted unit ends (it
\* is "work in hand plus one bounded write"); a callback that is ready again and
\* again gets its turn in the event loop.  Nobody promises that the foreground
\* ever rests.
Fairness ==
  /\ WF_vars(AdmitNext \/ PumpEnds) /\ WF_vars(WakeFires) /\ SF_vars(Tick)
  /\ \A u \in Units : SF_vars(release(u) \/ HoldEnds(u))
FairSpec == Spec /\ Fairness
-----------------------------------------------------------------------------
\* The counter running counts exactly the units that hold a slot, those of the
\* slow mode included, and never passes deps.slots; and at most one unit that
\* was admitted past a busy foreground is at work.  A slot given back twice,
\* or never, would let two units too many in, or in the end none.
SlotsAccounted ==
  /\ running = Cardinality({u \in Units : unit[u] # "out"})
  /\ running =< Slots
  /\ escapedRunning = Cardinality({u \in Units : unit[u] = "running" /\ escaped[u]})
  /\ escapedRunning =< 1

\* armWake: a waiter with a free slot before it has the wake timer running,
\* and the timer runs no later than the end of the grace, nor, if no unit has
\* escaped, than any waiter's starvation deadline.  (A unit that escaped and is
\* held by the slow mode pumps when its hold ends.)  So whenever pickNext would
\* name a unit, the timer that starts it is due.
WakeArmed ==
  ~pumping /\ waiters # <<>> /\ running < Slots
    /\ (\A u \in Units : ~(unit[u] = "held" /\ escaped[u]))
  => /\ fgInFlight = 0 => wake \in 0..GraceEnd
     /\ escapedRunning = 0 => \A i \in DOMAIN waiters : wake \in 0..Deadline(waiters[i])

\* foregroundIdle "resolves when not busy": while no foreground call is in
\* flight, the timer that resolves its callers runs and is due when the grace
\* ends.
IdleWoken ==
  ~pumping /\ idlers # {} /\ fgInFlight = 0 => wake \in 0..GraceEnd

\* One timer serves both, and every method clears it and sets it again
\* (armWake): whatever it serves, it is set for the first moment that matters.
WakesUp == WakeArmed /\ IdleWoken

\* A unit that waits is admitted in the end (or its signal fires), also under
\* a foreground that never rests and under a stream of units of a better rank.
EventuallyAdmitted(u) == Waiting(u) ~> ~Waiting(u)
=============================================================================
