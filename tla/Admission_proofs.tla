-------------------------- MODULE Admission_proofs --------------------------
(***************************************************************************)
(* Proofs about Admission, for any callers, slots and delays: the slot     *)
(* counters are exact, and with timers that run as soon as they are due    *)
(* nobody who could go on is left without one.                             *)
(***************************************************************************)
EXTENDS Admission, TLAPS, FiniteSetTheorems, SequenceTheorems,
        WellFoundedInduction

-----------------------------------------------------------------------------
(* Facts about numbers and sequences.                                      *)

\* A set of numbers that is not empty has a least one: armWake's Math.min and
\* pickNext's oldest waiter exist.
LEMMA LeastNat ==
  ASSUME NEW T \in SUBSET Nat, T # {}
  PROVE  \E x \in T : \A y \in T : x =< y
<1>1. \E x \in T : \A y \in T : ~(<<y, x>> \in OpToRel(<, Nat))
  BY NatLessThanWellFounded, WFMin
<1>2. PICK x \in T : \A y \in T : ~(<<y, x>> \in OpToRel(<, Nat))
  BY <1>1
<1>3. ASSUME NEW y \in T PROVE x =< y
  <2>1. x \in Nat /\ y \in Nat
    OBVIOUS
  <2>2. ~(y < x)
    BY <1>2, <2>1, Zenon DEF OpToRel
  <2> QED BY <2>1, <2>2
<1> QED BY <1>3

\* waiters.splice(i, 1): the others keep their order.
LEMMA Splice ==
  ASSUME NEW S, NEW s \in Seq(S), NEW i \in 1..Len(s)
  PROVE  /\ RemoveAt(s, i) \in Seq(S)
         /\ Len(RemoveAt(s, i)) = Len(s) - 1
         /\ \A j \in 1..(Len(s) - 1) :
              RemoveAt(s, i)[j] = IF j < i THEN s[j] ELSE s[j + 1]
<1> DEFINE a == SubSeq(s, 1, i - 1)
           b == SubSeq(s, i + 1, Len(s))
<1>0. Len(s) \in Nat /\ i \in Nat /\ \A k \in 1..Len(s) : s[k] \in S
  BY LenProperties
<1>1. /\ a \in Seq(S) /\ Len(a) = i - 1
      /\ \A k \in 1..(i - 1) : a[k] = s[k]
  <2>1. \A k \in 1..(i - 1) : s[k] \in S
    BY <1>0
  <2>2. /\ a \in Seq(S) /\ Len(a) = IF 1 =< i - 1 THEN (i - 1) - 1 + 1 ELSE 0
        /\ \A k \in 1..((i - 1) - 1 + 1) : a[k] = s[1 + k - 1]
    BY <2>1, <1>0, SubSeqProperties
  <2> QED BY <2>2, <1>0
<1>2. /\ b \in Seq(S) /\ Len(b) = Len(s) - i
      /\ \A k \in 1..(Len(s) - i) : b[k] = s[i + k]
  <2>1. \A k \in (i + 1)..Len(s) : s[k] \in S
    BY <1>0
  <2>2. /\ b \in Seq(S)
        /\ Len(b) = IF i + 1 =< Len(s) THEN Len(s) - (i + 1) + 1 ELSE 0
        /\ \A k \in 1..(Len(s) - (i + 1) + 1) : b[k] = s[i + 1 + k - 1]
    BY <2>1, <1>0, SubSeqProperties
  <2> QED BY <2>2, <1>0
<1>3. /\ a \o b \in Seq(S) /\ Len(a \o b) = Len(a) + Len(b)
      /\ \A k \in 1..(Len(a) + Len(b)) :
           (a \o b)[k] = IF k =< Len(a) THEN a[k] ELSE b[k - Len(a)]
  <2> HIDE DEF a, b
  <2> QED BY <1>1, <1>2, ConcatProperties
<1>4. RemoveAt(s, i) = a \o b
  BY DEF RemoveAt
<1> HIDE DEF a, b
<1>5. Len(a) + Len(b) = Len(s) - 1
  BY <1>0, <1>1, <1>2
<1>6. ASSUME NEW j \in 1..(Len(s) - 1)
      PROVE  (a \o b)[j] = IF j < i THEN s[j] ELSE s[j + 1]
  <2>1. CASE j < i
    <3>1. j \in 1..(i - 1) /\ j =< Len(a)
      BY <2>1, <1>0, <1>1
    <3> QED BY <3>1, <2>1, <1>1, <1>3, <1>5
  <2>2. CASE ~(j < i)
    <3>1. /\ ~(j =< Len(a)) /\ j - Len(a) \in 1..(Len(s) - i)
          /\ i + (j - Len(a)) = j + 1
      BY <2>2, <1>0, <1>1
    <3> QED BY <3>1, <2>2, <1>2, <1>3, <1>5
  <2> QED BY <2>1, <2>2
<1> QED BY <1>3, <1>4, <1>5, <1>6

-----------------------------------------------------------------------------
(* The wake timer.                                                         *)

WakeTimes == {NoWake} \cup 0..MaxWait

\* TypeOK without the timer, which armWake computes from all the rest.
CoreTypes ==
  /\ waiters \in Seq(Units)
  /\ kind \in [Units -> DOMAIN RANK] /\ age \in [Units -> 0..MaxWait]
  /\ unit \in [Units -> {"out", "running", "held"}]
  /\ escaped \in [Units -> BOOLEAN]
  /\ running \in Nat /\ escapedRunning \in Nat
  /\ fgInFlight \in 0..MaxFg /\ sinceLeave \in 0..Grace
  /\ idlers \subseteq Idlers /\ idleAge \in [Idlers -> 0..MaxWait]
  /\ pumping \in BOOLEAN

\* What armWake achieves when it arms: no moment comes before the timer's.
Armed ==
  (waiters # <<>> \/ idlers # {}) /\ foregroundBusy
  => /\ fgInFlight = 0 => WakeTime \in 0..GraceEnd
     /\ escapedRunning = 0 /\ running < Slots
          => \A i \in DOMAIN waiters : WakeTime \in 0..Deadline(waiters[i])

LEMMA WakeTimeArmed == CoreTypes => WakeTime \in WakeTimes /\ Armed
<1> SUFFICES ASSUME CoreTypes PROVE WakeTime \in WakeTimes /\ Armed
  OBVIOUS
<1>1. Moments \in SUBSET Nat /\ Moments \subseteq 0..MaxWait
  BY DelaysAssumption DEF Moments
<1>2. CASE (waiters = <<>> /\ idlers = {}) \/ ~foregroundBusy \/ Moments = {}
  <2>1. WakeTime = NoWake
    BY <1>2 DEF WakeTime
  <2>2. CASE (waiters # <<>> \/ idlers # {}) /\ foregroundBusy
    <3>1. Moments = {}
      BY <1>2, <2>2
    <3>2. fgInFlight # 0
      <4> SUFFICES ASSUME fgInFlight = 0 PROVE FALSE
        OBVIOUS
      <4>1. GraceEnd \in 0..MaxWait
        BY DelaysAssumption DEF CoreTypes, GraceEnd
      <4>2. GraceEnd \in Moments
        BY <4>1 DEF Moments
      <4> QED BY <4>2, <3>1
    <3>3. ASSUME escapedRunning = 0, running < Slots, NEW i \in DOMAIN waiters
          PROVE  FALSE
      <4>1. waiters[i] \in Units
        BY ElementOfSeq DEF CoreTypes
      <4>2. Deadline(waiters[i]) \in 0..MaxWait
        BY <4>1, DelaysAssumption DEF CoreTypes, Deadline
      <4>3. Deadline(waiters[i]) \in Moments
        BY <4>2, <3>3 DEF Moments
      <4> QED BY <4>3, <3>1
    <3> QED BY <2>1, <3>2, <3>3 DEF Armed, WakeTimes
  <2> QED BY <2>1, <2>2 DEF Armed, WakeTimes
<1>3. CASE ~((waiters = <<>> /\ idlers = {}) \/ ~foregroundBusy \/ Moments = {})
  <2>1. WakeTime = CHOOSE t \in Moments : \A s \in Moments : t =< s
    BY <1>3 DEF WakeTime
  <2>2. \E t \in Moments : \A s \in Moments : t =< s
    BY <1>1, <1>3, LeastNat
  <2>3. WakeTime \in Moments /\ \A s \in Moments : WakeTime =< s
    BY <2>1, <2>2
  <2>4. WakeTime \in 0..MaxWait
    BY <2>3, <1>1
  <2>5. ASSUME fgInFlight = 0 PROVE WakeTime \in 0..GraceEnd
    <3>1. GraceEnd \in 0..MaxWait
      BY DelaysAssumption DEF CoreTypes, GraceEnd
    <3>2. GraceEnd \in Moments
      BY <2>5, <3>1 DEF Moments
    <3> QED BY <3>1, <3>2, <2>3, <2>4, DelaysAssumption
  <2>6. ASSUME escapedRunning = 0, running < Slots, NEW i \in DOMAIN waiters
        PROVE  WakeTime \in 0..Deadline(waiters[i])
    <3>1. waiters[i] \in Units
      BY ElementOfSeq DEF CoreTypes
    <3>2. Deadline(waiters[i]) \in 0..MaxWait
      BY <3>1, DelaysAssumption DEF CoreTypes, Deadline
    <3>3. Deadline(waiters[i]) \in Moments
      BY <3>2, <2>6 DEF Moments
    <3> QED BY <3>2, <3>3, <2>3, <2>4, DelaysAssumption
  <2> QED BY <2>4, <2>5, <2>6 DEF Armed, WakeTimes
<1> QED BY <1>2, <1>3

LEMMA NextWakeTimeArmed == (CoreTypes => WakeTime \in WakeTimes /\ Armed)'
BY WakeTimeArmed, PTL

-----------------------------------------------------------------------------
(* Slots.                                                                  *)

\* A waiter has no slot, and no unit waits twice.
QueueOK ==
  /\ \A i \in DOMAIN waiters : unit[waiters[i]] = "out"
  /\ \A i, j \in DOMAIN waiters : waiters[i] = waiters[j] => i = j

SlotInv == TypeOK /\ QueueOK /\ SlotsAccounted

Holding == {u \in Units : unit[u] # "out"}
Escapees == {u \in Units : unit[u] = "running" /\ escaped[u]}

LEMMA TypesSplit == TypeOK <=> CoreTypes /\ wake \in WakeTimes
BY DEF TypeOK, CoreTypes, WakeTimes

LEMMA NextTypesSplit == TypeOK' <=> CoreTypes' /\ wake' \in WakeTimes
BY DEF TypeOK, CoreTypes, WakeTimes

\* armWake keeps the timer's type.
LEMMA ArmWakeType ==
  ASSUME CoreTypes', armWake
  PROVE  TypeOK'
<1>1. WakeTime' \in WakeTimes
  BY NextWakeTimeArmed DEF WakeTimes, NoWake
<1> QED BY <1>1, NextTypesSplit DEF armWake

\* The parts of SlotInv' that follow when no unit and no waiter changes.
LEMMA SameUnits ==
  ASSUME SlotInv, UNCHANGED <<waiters, unitVars>>
  PROVE  QueueOK' /\ SlotsAccounted'
<1>1. /\ waiters' = waiters /\ unit' = unit /\ escaped' = escaped
      /\ running' = running /\ escapedRunning' = escapedRunning
  BY DEF unitVars
<1>2. QueueOK'
  BY <1>1 DEF SlotInv, QueueOK
<1>3. SlotsAccounted'
  BY <1>1 DEF SlotInv, SlotsAccounted
<1> QED BY <1>2, <1>3

LEMMA FiniteUnits == IsFiniteSet(Holding) /\ IsFiniteSet(Escapees)
BY CallersAssumption, FS_Subset DEF Holding, Escapees

\* A waiter taken out of the queue leaves it in order.
LEMMA SpliceQueue ==
  ASSUME CoreTypes, QueueOK, NEW i \in DOMAIN waiters,
         waiters' = RemoveAt(waiters, i)
  PROVE  /\ waiters' \in Seq(Units)
         /\ \A k \in DOMAIN waiters' :
              \E j \in DOMAIN waiters : j # i /\ waiters'[k] = waiters[j]
         /\ \A k, l \in DOMAIN waiters' : waiters'[k] = waiters'[l] => k = l
<1>0. waiters \in Seq(Units) /\ DOMAIN waiters = 1..Len(waiters) /\ Len(waiters) \in Nat
  BY LenProperties DEF CoreTypes
<1>1. /\ waiters' \in Seq(Units) /\ Len(waiters') = Len(waiters) - 1
      /\ \A j \in 1..(Len(waiters) - 1) :
           waiters'[j] = IF j < i THEN waiters[j] ELSE waiters[j + 1]
  BY <1>0, Splice
<1>2. DOMAIN waiters' = 1..(Len(waiters) - 1)
  BY <1>1, LenProperties
<1>3. ASSUME NEW k \in DOMAIN waiters'
      PROVE  \E j \in DOMAIN waiters :
               /\ j # i /\ waiters'[k] = waiters[j]
               /\ j = IF k < i THEN k ELSE k + 1
  <2>1. CASE k < i
    BY <1>0, <1>1, <1>2, <2>1
  <2>2. CASE ~(k < i)
    <3>1. k + 1 \in DOMAIN waiters /\ k + 1 # i
      BY <1>0, <1>2, <2>2
    <3> QED BY <1>0, <1>1, <1>2, <2>2, <3>1
  <2> QED BY <2>1, <2>2
<1>4. ASSUME NEW k \in DOMAIN waiters', NEW l \in DOMAIN waiters', waiters'[k] = waiters'[l]
      PROVE  k = l
  <2>1. PICK j \in DOMAIN waiters : /\ waiters'[k] = waiters[j]
                                    /\ j = IF k < i THEN k ELSE k + 1
    BY <1>3
  <2>2. PICK m \in DOMAIN waiters : /\ waiters'[l] = waiters[m]
                                    /\ m = IF l < i THEN l ELSE l + 1
    BY <1>3
  <2>3. j = m
    BY <1>4, <2>1, <2>2 DEF QueueOK
  <2>4. i \in Int /\ k \in Int /\ l \in Int
    BY <1>0, <1>2
  <2> QED BY <2>1, <2>2, <2>3, <2>4
<1> QED BY <1>1, <1>3, <1>4

LEMMA SlotInit == Init => SlotInv
<1> SUFFICES ASSUME Init PROVE SlotInv
  OBVIOUS
<1>1. TypeOK
  <2>1. waiters \in Seq(Units) /\ "ingest" \in DOMAIN RANK
    BY DEF Init, RANK
  <2>2. /\ 0 \in 0..MaxWait /\ 0 \in 0..MaxFg /\ Grace \in 0..Grace
        /\ 0 \in Nat
    BY DelaysAssumption
  <2>3. /\ kind \in [Units -> DOMAIN RANK] /\ age \in [Units -> 0..MaxWait]
        /\ unit \in [Units -> {"out", "running", "held"}]
        /\ escaped \in [Units -> BOOLEAN] /\ idleAge \in [Idlers -> 0..MaxWait]
    BY <2>1, <2>2 DEF Init
  <2> QED BY <2>1, <2>2, <2>3 DEF Init, TypeOK
<1>2. QueueOK
  BY DEF Init, QueueOK
<1>3. Holding = {} /\ Escapees = {}
  BY DEF Init, Holding, Escapees
<1>4. SlotsAccounted
  <2>1. running = Cardinality(Holding) /\ escapedRunning = Cardinality(Escapees)
    BY <1>3, FS_EmptySet DEF Init
  <2>2. running =< Slots /\ escapedRunning =< 1
    BY DelaysAssumption DEF Init
  <2> QED BY <2>1, <2>2 DEF SlotsAccounted, Holding, Escapees
<1> QED BY <1>1, <1>2, <1>4 DEF SlotInv

\* acquire: the new waiter has no slot and did not wait before.
LEMMA AcquireSlots ==
  ASSUME SlotInv, NEW u \in Units, NEW k \in Kinds, acquire(u, k)
  PROVE  SlotInv'
<1>0. CoreTypes /\ QueueOK /\ SlotsAccounted /\ wake \in WakeTimes
  BY TypesSplit DEF SlotInv
<1>1. /\ waiters' \in Seq(Units) /\ Len(waiters') = Len(waiters) + 1
      /\ \A i \in 1..Len(waiters) : waiters'[i] = waiters[i]
      /\ waiters'[Len(waiters) + 1] = u
  BY <1>0, AppendProperties DEF CoreTypes, acquire
<1>2. /\ DOMAIN waiters = 1..Len(waiters) /\ Len(waiters) \in Nat
      /\ DOMAIN waiters' = 1..(Len(waiters) + 1)
  BY <1>0, <1>1, LenProperties DEF CoreTypes
<1>3. TypeOK'
  <2>1. k \in DOMAIN RANK /\ 0 \in 0..MaxWait
    BY CallersAssumption, DelaysAssumption
  <2>2. kind' \in [Units -> DOMAIN RANK] /\ age' \in [Units -> 0..MaxWait]
    BY <1>0, <2>1 DEF CoreTypes, acquire
  <2> QED BY <1>0, <1>1, <2>2 DEF acquire, pump, TypeOK, CoreTypes, WakeTimes, unitVars, fgVars, idleVars
<1>4. QueueOK'
  <2>1. unit' = unit /\ unit[u] = "out" /\ \A i \in 1..Len(waiters) : waiters[i] # u
    BY <1>2 DEF acquire, unitVars, Waiting
  <2>2. ASSUME NEW i \in DOMAIN waiters' PROVE unit'[waiters'[i]] = "out"
    <3>1. CASE i \in 1..Len(waiters)
      BY <1>0, <1>1, <1>2, <2>1, <3>1 DEF QueueOK
    <3>2. CASE i = Len(waiters) + 1
      BY <1>1, <2>1, <3>2
    <3> QED BY <1>2, <3>1, <3>2
  <2>3. ASSUME NEW i \in DOMAIN waiters', NEW j \in DOMAIN waiters', waiters'[i] = waiters'[j]
        PROVE  i = j
    <3>1. CASE i \in 1..Len(waiters) /\ j \in 1..Len(waiters)
      BY <1>0, <1>1, <1>2, <2>3, <3>1 DEF QueueOK
    <3>2. CASE ~(i \in 1..Len(waiters) /\ j \in 1..Len(waiters))
      BY <1>1, <1>2, <2>1, <2>3, <3>2
    <3> QED BY <3>1, <3>2
  <2> QED BY <2>2, <2>3 DEF QueueOK
<1>5. SlotsAccounted'
  BY <1>0 DEF acquire, unitVars, SlotsAccounted
<1> QED BY <1>3, <1>4, <1>5 DEF SlotInv

\* onAbort: nobody else moves.
LEMMA AbortSlots ==
  ASSUME SlotInv, NEW i \in DOMAIN waiters, onAbort(i)
  PROVE  SlotInv'
<1>0. CoreTypes /\ QueueOK /\ SlotsAccounted
  BY TypesSplit DEF SlotInv
<1>1. /\ waiters' \in Seq(Units)
      /\ \A k \in DOMAIN waiters' :
           \E j \in DOMAIN waiters : j # i /\ waiters'[k] = waiters[j]
      /\ \A k, l \in DOMAIN waiters' : waiters'[k] = waiters'[l] => k = l
  <2>1. waiters' = RemoveAt(waiters, i)
    BY DEF onAbort
  <2> QED BY <1>0, <2>1, SpliceQueue
<1>2. CoreTypes' /\ armWake
  BY <1>0, <1>1 DEF onAbort, CoreTypes, unitVars, fgVars, idleVars
<1>3. QueueOK'
  BY <1>0, <1>1 DEF onAbort, QueueOK, unitVars
<1>4. SlotsAccounted'
  BY <1>0 DEF onAbort, unitVars, SlotsAccounted
<1> QED BY <1>2, <1>3, <1>4, ArmWakeType DEF SlotInv

\* release: the slot is free, or the slow mode holds it.
LEMMA ReleaseSlots ==
  ASSUME SlotInv, NEW u \in Units, release(u)
  PROVE  SlotInv'
<1>0. CoreTypes /\ QueueOK /\ SlotsAccounted /\ wake \in WakeTimes
  BY TypesSplit DEF SlotInv
<1>1. /\ u \in Holding /\ unit[u] = "running" /\ waiters' = waiters
      /\ unit \in [Units -> {"out", "running", "held"}] /\ escaped \in [Units -> BOOLEAN]
  BY <1>0 DEF release, Holding, CoreTypes
<1>2. \A i \in DOMAIN waiters : waiters[i] # u
  BY <1>0, <1>1 DEF QueueOK
<1>3. running = Cardinality(Holding) /\ escapedRunning = Cardinality(Escapees)
  BY <1>0 DEF SlotsAccounted, Holding, Escapees
<1>4. /\ Cardinality(Escapees \ {u}) = IF u \in Escapees THEN escapedRunning - 1 ELSE escapedRunning
      /\ Cardinality(Escapees \ {u}) \in Nat
      /\ Cardinality(Holding \ {u}) = running - 1 /\ Cardinality(Holding \ {u}) \in Nat
  BY <1>1, <1>3, FiniteUnits, FS_RemoveElement, FS_CardinalityType
<1>5. u \in Escapees <=> escaped[u]
  BY <1>1 DEF Escapees
<1>6. escapedRunning' = Cardinality(Escapees \ {u})
  BY <1>0, <1>4, <1>5 DEF release, CoreTypes
<1>7. Escapees' = Escapees \ {u}
  <2>1. \E x \in {"held", "out"} : unit' = [unit EXCEPT ![u] = x]
    BY DEF release, freeSlot
  <2>2. \A v \in Units \ {u} : unit'[v] = unit[v] /\ escaped'[v] = escaped[v]
    BY <1>1 DEF release, freeSlot
  <2>3. unit'[u] # "running"
    BY <1>1, <2>1
  <2> QED BY <2>2, <2>3 DEF Escapees
<1>8. ASSUME NEW x \in {"held", "out"}, unit' = [unit EXCEPT ![u] = x] PROVE QueueOK'
  BY <1>0, <1>1, <1>2, <1>8 DEF QueueOK, CoreTypes
<1>9. CASE unit' = [unit EXCEPT ![u] = "held"] /\ UNCHANGED <<running, wake, pumping>> /\ UNCHANGED escaped
  <2>1. Holding' = Holding
    BY <1>1, <1>9 DEF Holding
  <2>2. SlotsAccounted'
    <3>1. running' = Cardinality(Holding') /\ escapedRunning' = Cardinality(Escapees')
      BY <1>3, <1>6, <1>7, <1>9, <2>1
    <3>2. running' =< Slots /\ escapedRunning' =< 1
      BY <1>0, <1>4, <1>6, <1>9, DelaysAssumption DEF SlotsAccounted, CoreTypes
    <3> QED BY <3>1, <3>2 DEF SlotsAccounted, Holding, Escapees
  <2>3. TypeOK'
    BY <1>0, <1>1, <1>4, <1>6, <1>9 DEF release, TypeOK, CoreTypes, WakeTimes, fgVars, idleVars
  <2> QED BY <1>8, <1>9, <2>2, <2>3 DEF SlotInv
<1>10. CASE freeSlot(u) /\ pump
  <2>1. Holding' = Holding \ {u}
    BY <1>1, <1>10 DEF Holding, freeSlot
  <2>2. running' = running - 1
    BY <1>10 DEF freeSlot
  <2>3. SlotsAccounted'
    <3>1. running' = Cardinality(Holding') /\ escapedRunning' = Cardinality(Escapees')
      BY <1>4, <1>6, <1>7, <2>1, <2>2
    <3>2. running' =< Slots /\ escapedRunning' =< 1
      BY <1>0, <1>4, <1>6, <2>2, DelaysAssumption DEF SlotsAccounted, CoreTypes
    <3> QED BY <3>1, <3>2 DEF SlotsAccounted, Holding, Escapees
  <2>4. TypeOK'
    <3>1. unit' \in [Units -> {"out", "running", "held"}] /\ escaped' \in [Units -> BOOLEAN]
      BY <1>1, <1>10 DEF freeSlot
    <3> QED BY <1>0, <1>4, <1>6, <1>10, <2>2, <3>1 DEF release, pump, TypeOK, CoreTypes, WakeTimes, fgVars, idleVars
  <2>5. unit' = [unit EXCEPT ![u] = "out"]
    BY <1>10 DEF freeSlot
  <2> QED BY <1>8, <2>3, <2>4, <2>5 DEF SlotInv
<1> QED BY <1>9, <1>10 DEF release

\* The end of a hold frees the slot.
LEMMA HoldEndsSlots ==
  ASSUME SlotInv, NEW u \in Units, HoldEnds(u)
  PROVE  SlotInv'
<1>0. CoreTypes /\ QueueOK /\ SlotsAccounted /\ wake \in WakeTimes
  BY TypesSplit DEF SlotInv
<1>1. /\ u \in Holding /\ unit[u] = "held" /\ waiters' = waiters
      /\ unit \in [Units -> {"out", "running", "held"}] /\ escaped \in [Units -> BOOLEAN]
  BY <1>0 DEF HoldEnds, Holding, CoreTypes
<1>2. /\ unit' = [unit EXCEPT ![u] = "out"] /\ running' = running - 1
      /\ escaped' = [escaped EXCEPT ![u] = FALSE] /\ escapedRunning' = escapedRunning
  BY DEF HoldEnds, freeSlot
<1>3. running = Cardinality(Holding) /\ escapedRunning = Cardinality(Escapees)
  BY <1>0 DEF SlotsAccounted, Holding, Escapees
<1>4. Cardinality(Holding \ {u}) = running - 1 /\ Cardinality(Holding \ {u}) \in Nat
  BY <1>1, <1>3, FiniteUnits, FS_RemoveElement, FS_CardinalityType
<1>5. Holding' = Holding \ {u}
  BY <1>1, <1>2 DEF Holding
<1>6. Escapees' = Escapees
  BY <1>1, <1>2 DEF Escapees
<1>7. SlotsAccounted'
  <2>1. running' =< Slots /\ escapedRunning' =< 1
    BY <1>0, <1>2, DelaysAssumption DEF SlotsAccounted, CoreTypes
  <2> QED BY <1>2, <1>3, <1>4, <1>5, <1>6, <2>1 DEF SlotsAccounted, Holding, Escapees
<1>8. QueueOK'
  BY <1>0, <1>1, <1>2 DEF QueueOK, CoreTypes
<1>9. TypeOK'
  <2>1. unit' \in [Units -> {"out", "running", "held"}] /\ escaped' \in [Units -> BOOLEAN]
    BY <1>1, <1>2
  <2> QED BY <1>0, <1>2, <1>4, <2>1 DEF HoldEnds, pump, TypeOK, CoreTypes, WakeTimes, fgVars, idleVars
<1> QED BY <1>7, <1>8, <1>9 DEF SlotInv

\* pump: a waiter leaves the queue for a slot that is free; past a busy
\* foreground only while no unit that escaped is at work.
LEMMA AdmitSlots ==
  ASSUME SlotInv, AdmitNext
  PROVE  SlotInv'
<1>0. CoreTypes /\ QueueOK /\ SlotsAccounted /\ wake \in WakeTimes
  BY TypesSplit DEF SlotInv
<1>1. PICK i \in DOMAIN waiters : pickNext(i) /\ admit(i)
  BY DEF AdmitNext
<1> DEFINE w == waiters[i]
<1>2. w \in Units /\ unit[w] = "out"
  BY <1>0, <1>1, ElementOfSeq DEF CoreTypes, QueueOK
<1>3. /\ waiters' = RemoveAt(waiters, i)
      /\ unit' = [unit EXCEPT ![w] = "running"] /\ running' = running + 1
      /\ escaped' = [escaped EXCEPT ![w] = foregroundBusy]
      /\ escapedRunning' = escapedRunning + (IF foregroundBusy THEN 1 ELSE 0)
  BY <1>1 DEF admit
<1>4. /\ unit \in [Units -> {"out", "running", "held"}] /\ escaped \in [Units -> BOOLEAN]
      /\ running \in Nat /\ escapedRunning \in Nat /\ foregroundBusy \in BOOLEAN
  BY <1>0 DEF CoreTypes, foregroundBusy
<1>5. /\ waiters' \in Seq(Units)
      /\ \A k \in DOMAIN waiters' :
           \E j \in DOMAIN waiters : j # i /\ waiters'[k] = waiters[j]
      /\ \A k, l \in DOMAIN waiters' : waiters'[k] = waiters'[l] => k = l
  BY <1>0, <1>3, SpliceQueue
<1>6. running = Cardinality(Holding) /\ escapedRunning = Cardinality(Escapees)
  BY <1>0 DEF SlotsAccounted, Holding, Escapees
<1>7. w \notin Holding /\ w \notin Escapees
  BY <1>2 DEF Holding, Escapees
<1> HIDE DEF w
<1>8. /\ Cardinality(Holding \cup {w}) = running + 1
      /\ Cardinality(Escapees \cup {w}) = escapedRunning + 1
  BY <1>6, <1>7, FiniteUnits, FS_AddElement
<1>9. Holding' = Holding \cup {w}
  BY <1>2, <1>3, <1>4 DEF Holding
<1>10. escapedRunning' = Cardinality(Escapees') /\ escapedRunning' =< 1 /\ escapedRunning' \in Nat
  <2>1. CASE foregroundBusy
    <3>1. escapedRunning = 0
      BY <1>1, <2>1 DEF pickNext
    <3>2. Escapees' = Escapees \cup {w}
      BY <1>2, <1>3, <1>4, <2>1 DEF Escapees
    <3>3. escapedRunning' = escapedRunning + 1
      BY <1>3, <2>1
    <3> QED BY <1>8, <3>1, <3>2, <3>3
  <2>2. CASE ~foregroundBusy
    <3>1. Escapees' = Escapees
      BY <1>2, <1>3, <1>4, <2>2 DEF Escapees
    <3>2. escapedRunning' = escapedRunning
      BY <1>3, <1>4, <2>2
    <3>3. escapedRunning =< 1
      BY <1>0 DEF SlotsAccounted
    <3> QED BY <1>4, <1>6, <3>1, <3>2, <3>3
  <2> QED BY <2>1, <2>2
<1>11. running' = Cardinality(Holding') /\ running' =< Slots /\ running' \in Nat
  <2>1. running < Slots
    BY DEF AdmitNext
  <2> QED BY <1>3, <1>4, <1>8, <1>9, <2>1, DelaysAssumption
<1>12. SlotsAccounted'
  BY <1>10, <1>11 DEF SlotsAccounted, Holding, Escapees
<1>13. QueueOK'
  <2>1. ASSUME NEW k \in DOMAIN waiters' PROVE unit'[waiters'[k]] = "out"
    <3>1. PICK j \in DOMAIN waiters : j # i /\ waiters'[k] = waiters[j]
      BY <1>5
    <3>2. waiters[j] # w /\ waiters[j] \in Units /\ unit[waiters[j]] = "out"
      BY <1>0, <3>1, ElementOfSeq DEF QueueOK, CoreTypes, w
    <3> QED BY <1>3, <1>4, <3>1, <3>2
  <2> QED BY <2>1, <1>5 DEF QueueOK
<1>14. TypeOK'
  <2>1. unit' \in [Units -> {"out", "running", "held"}] /\ escaped' \in [Units -> BOOLEAN]
    BY <1>3, <1>4
  <2> QED BY <1>0, <1>5, <1>10, <1>11, <2>1 DEF AdmitNext, TypeOK, CoreTypes, WakeTimes, fgVars, idleVars
<1> QED BY <1>12, <1>13, <1>14 DEF SlotInv

\* The actions that move neither a unit nor a waiter.
LEMMA OtherSlots ==
  ASSUME SlotInv,
         \/ PumpEnds \/ foreground \/ leave \/ WakeFires \/ Tick
         \/ \E i \in Idlers : foregroundIdle(i) \/ \E why \in {"cap", "abort"} : finish(i, why)
  PROVE  SlotInv'
<1>0. CoreTypes /\ wake \in WakeTimes /\ 0 \in 0..MaxWait
  BY TypesSplit, DelaysAssumption DEF SlotInv
<1>1. UNCHANGED <<waiters, unitVars>>
  BY DEF PumpEnds, foreground, leave, WakeFires, Tick, foregroundIdle, finish
<1>2. QueueOK' /\ SlotsAccounted'
  BY <1>1, SameUnits
<1>3. CASE PumpEnds
  <2>1. CoreTypes' /\ armWake
    BY <1>0, <1>3 DEF PumpEnds, CoreTypes, unitVars, fgVars, idleVars
  <2> QED BY <2>1, <1>2, ArmWakeType DEF SlotInv
<1>4. CASE foreground
  <2>1. fgInFlight' \in 0..MaxFg
    BY <1>0, <1>4, DelaysAssumption DEF foreground, CoreTypes
  <2>2. CoreTypes' /\ armWake
    BY <1>0, <1>4, <2>1 DEF foreground, CoreTypes, unitVars, idleVars
  <2> QED BY <2>2, <1>2, ArmWakeType DEF SlotInv
<1>5. CASE leave
  <2>1. fgInFlight' \in 0..MaxFg /\ sinceLeave' \in 0..Grace
    BY <1>0, <1>5, DelaysAssumption DEF leave, CoreTypes
  <2>2. CoreTypes' /\ armWake
    BY <1>0, <1>5, <2>1 DEF leave, CoreTypes, unitVars, idleVars
  <2> QED BY <2>2, <1>2, ArmWakeType DEF SlotInv
<1>6. CASE WakeFires
  <2>1. TypeOK'
    BY <1>0, <1>6 DEF WakeFires, TypeOK, CoreTypes, WakeTimes, unitVars, fgVars
  <2> QED BY <2>1, <1>2 DEF SlotInv
<1>7. CASE Tick
  <2>1. ASSUME NEW n \in Nat, NEW a \in 0..n PROVE Older(a, n) \in 0..n
    BY DEF Older
  <2>2. /\ age' \in [Units -> 0..MaxWait] /\ idleAge' \in [Idlers -> 0..MaxWait]
        /\ sinceLeave' \in 0..Grace
    BY <1>0, <1>7, <2>1, DelaysAssumption DEF Tick, CoreTypes
  <2>3. wake' \in WakeTimes
    BY <1>0, <1>7, DelaysAssumption DEF Tick, WakeTimes, NoWake
  <2>4. TypeOK'
    BY <1>0, <1>7, <2>2, <2>3 DEF Tick, TypeOK, CoreTypes, WakeTimes, unitVars
  <2> QED BY <2>4, <1>2 DEF SlotInv
<1>8. ASSUME NEW i \in Idlers, foregroundIdle(i) PROVE SlotInv'
  <2>1. idleAge' \in [Idlers -> 0..MaxWait]
    BY <1>0, <1>8 DEF foregroundIdle, CoreTypes
  <2>2. CoreTypes' /\ armWake
    BY <1>0, <1>8, <2>1 DEF foregroundIdle, CoreTypes, unitVars, fgVars
  <2> QED BY <2>2, <1>2, ArmWakeType DEF SlotInv
<1>9. ASSUME NEW i \in Idlers, NEW why \in {"cap", "abort"}, finish(i, why) PROVE SlotInv'
  <2>1. TypeOK'
    BY <1>0, <1>9 DEF finish, TypeOK, CoreTypes, WakeTimes, unitVars, fgVars
  <2> QED BY <2>1, <1>2 DEF SlotInv
<1> QED BY <1>3, <1>4, <1>5, <1>6, <1>7, <1>8, <1>9

LEMMA SlotStep == SlotInv /\ [Next]_vars => SlotInv'
<1> SUFFICES ASSUME SlotInv, [Next]_vars PROVE SlotInv'
  OBVIOUS
<1>1. CASE UNCHANGED vars
  BY <1>1 DEF vars, SlotInv, TypeOK, QueueOK, SlotsAccounted
<1>2. CASE Next
  BY <1>2, AcquireSlots, AbortSlots, ReleaseSlots, HoldEndsSlots, AdmitSlots, OtherSlots DEF Next
<1> QED BY <1>1, <1>2

LEMMA SlotInvariant == Spec => []SlotInv
BY SlotInit, SlotStep, PTL DEF Spec

\* For any callers, slots and delays, every variable keeps its type: in
\* particular no counter of createAdmission ever drops below zero.
THEOREM TypeCorrect == Spec => []TypeOK
<1>1. SlotInv => TypeOK
  BY DEF SlotInv
<1> QED BY <1>1, SlotInvariant, PTL

\* For any callers, slots and delays: running counts the units that hold a slot
\* and never exceeds deps.slots, and at most one unit that was admitted past a
\* busy foreground is at work, however timers, aborts and calls interleave.
THEOREM SlotsNeverLeak == Spec => []SlotsAccounted
<1>1. SlotInv => SlotsAccounted
  BY DEF SlotInv
<1> QED BY <1>1, SlotInvariant, PTL

-----------------------------------------------------------------------------
(* Wake-ups, with timers that run as soon as they are due.                 *)

\* While pump() goes on with no foreground call in flight, an idle waiter is
\* still within the grace: it was resolved when the timer found it over.
PumpKnows == pumping /\ idlers # {} /\ fgInFlight = 0 => sinceLeave < Grace

WakeInv == SlotInv /\ WakeArmed /\ IdleWoken /\ PumpKnows

\* With the foreground at rest and someone waiting, pickNext names a waiter:
\* the first that has aged, or else the first of the best rank.
LEMMA SomeonePicked ==
  ASSUME CoreTypes, ~foregroundBusy, waiters # <<>>
  PROVE  \E i \in DOMAIN waiters : pickNext(i)
<1>0. /\ DOMAIN waiters = 1..Len(waiters) /\ Len(waiters) \in Nat \ {0}
      /\ \A i \in DOMAIN waiters : waiters[i] \in Units
  <2>1. waiters \in Seq(Units)
    BY DEF CoreTypes
  <2> QED BY <2>1, LenProperties, EmptySeq, ElementOfSeq
<1>1. CASE \E i \in DOMAIN waiters : Aged(i)
  <2> DEFINE A == {i \in DOMAIN waiters : Aged(i)}
  <2>1. A \in SUBSET Nat /\ A # {}
    BY <1>0, <1>1
  <2>2. PICK i \in A : \A j \in A : i =< j
    <3> HIDE DEF A
    <3> QED BY <2>1, LeastNat
  <2>3. \A j \in 1..(i - 1) : ~Aged(j)
    <3>1. ASSUME NEW j \in 1..(i - 1), Aged(j) PROVE FALSE
      <4>1. j \in A /\ ~(i =< j)
        BY <1>0, <3>1
      <4> QED BY <4>1, <2>2
    <3> QED BY <3>1
  <2> QED BY <2>2, <2>3 DEF pickNext, FirstOf
<1>2. CASE ~\E i \in DOMAIN waiters : Aged(i)
  <2>1. \A i \in DOMAIN waiters : Rank(i) \in Nat
    <3>1. \A k \in DOMAIN RANK : RANK[k] \in Nat
      BY DEF RANK
    <3> QED BY <1>0, <3>1 DEF Rank, CoreTypes
  <2> DEFINE R == {Rank(i) : i \in DOMAIN waiters}
  <2>2. R \in SUBSET Nat /\ R # {}
    BY <1>0, <2>1
  <2>3. PICK r \in R : \A q \in R : r =< q
    <3> HIDE DEF R
    <3> QED BY <2>2, LeastNat
  <2> DEFINE B == {i \in DOMAIN waiters : Rank(i) = r}
  <2>4. B \in SUBSET Nat /\ B # {}
    BY <1>0, <2>3
  <2>5. PICK i \in B : \A j \in B : i =< j
    <3> HIDE DEF B
    <3> QED BY <2>4, LeastNat
  <2>6. \A j \in DOMAIN waiters : ~Aged(j) /\ Rank(i) =< Rank(j)
    BY <1>2, <2>3, <2>5
  <2>7. ASSUME NEW j \in 1..(i - 1), Rank(j) = Rank(i) PROVE FALSE
    <3>1. j \in B /\ ~(i =< j)
      BY <1>0, <2>5, <2>7
    <3> QED BY <3>1, <2>5
  <2> QED BY <2>5, <2>6, <2>7 DEF pickNext
<1> QED BY <1>1, <1>2

\* armWake after a method that leaves the foreground busy.
LEMMA ArmBusy ==
  ASSUME CoreTypes', armWake, foregroundBusy'
  PROVE  WakeArmed' /\ IdleWoken'
<1>1. Armed' /\ wake' = WakeTime'
  BY NextWakeTimeArmed DEF armWake
<1>2. WakeArmed'
  BY <1>1 DEF WakeArmed, Armed
<1>3. IdleWoken'
  BY <1>1 DEF IdleWoken, Armed
<1> QED BY <1>2, <1>3

\* Outside pump(), with nothing due, whoever waits before a free slot, or for
\* the foreground, does so while the foreground is busy.
LEMMA NothingDue ==
  ASSUME WakeInv, ~LateTimers, Turn
  PROVE  /\ ~pumping /\ wake # 0
         /\ idlers # {} => foregroundBusy
         /\ waiters # <<>> /\ running < Slots
              /\ (\A u \in Units : ~(unit[u] = "held" /\ escaped[u]))
            => foregroundBusy
<1>0. ~pumping /\ wake # 0
  BY DEF Turn
<1>1. fgInFlight \in Nat /\ sinceLeave \in 0..Grace /\ Grace \in Nat
  BY DelaysAssumption DEF WakeInv, SlotInv, TypeOK
<1>2. ASSUME ~foregroundBusy PROVE fgInFlight = 0 /\ 0..GraceEnd = {0}
  <2>1. fgInFlight = 0 /\ sinceLeave = Grace
    BY <1>1, <1>2 DEF foregroundBusy
  <2> QED BY <1>1, <2>1 DEF GraceEnd
<1>3. ASSUME idlers # {}, ~foregroundBusy PROVE FALSE
  BY <1>0, <1>2, <1>3 DEF WakeInv, IdleWoken
<1>4. ASSUME waiters # <<>>, running < Slots, ~foregroundBusy,
             \A u \in Units : ~(unit[u] = "held" /\ escaped[u])
      PROVE  FALSE
  BY <1>0, <1>2, <1>4 DEF WakeInv, WakeArmed
<1> QED BY <1>0, <1>3, <1>4

LEMMA WakeInit == Init => WakeInv
<1> SUFFICES ASSUME Init PROVE WakeInv
  OBVIOUS
<1>1. SlotInv
  BY SlotInit
<1>2. WakeArmed /\ IdleWoken /\ PumpKnows
  BY DEF Init, WakeArmed, IdleWoken, PumpKnows
<1> QED BY <1>1, <1>2 DEF WakeInv

\* A method that ends in pump() leaves the timer to its end.
LEMMA PumpingWake ==
  ASSUME WakeInv, SlotInv', pumping', idlers' # {} /\ fgInFlight' = 0 => sinceLeave' < Grace
  PROVE  WakeInv'
BY DEF WakeInv, WakeArmed, IdleWoken, PumpKnows

\* armWake outside pump().
LEMMA ArmedWake ==
  ASSUME SlotInv', ~pumping', armWake, foregroundBusy'
  PROVE  WakeInv'
<1>1. CoreTypes'
  BY NextTypesSplit DEF SlotInv
<1>2. WakeArmed' /\ IdleWoken'
  BY <1>1, ArmBusy
<1>3. PumpKnows'
  BY DEF PumpKnows
<1> QED BY <1>2, <1>3 DEF WakeInv

LEMMA WakeStep ==
  ASSUME ~LateTimers, WakeInv, [Next]_vars
  PROVE  WakeInv'
<1>0. SlotInv /\ SlotInv'
  BY SlotStep DEF WakeInv
<1>t. /\ CoreTypes /\ CoreTypes' /\ Grace \in Nat \ {0} /\ MaxWait \in Nat
      /\ sinceLeave \in 0..Grace /\ sinceLeave' \in 0..Grace
      /\ fgInFlight \in Nat /\ fgInFlight' \in Nat /\ wake \in WakeTimes
  <2>1. CoreTypes /\ CoreTypes' /\ wake \in WakeTimes
    BY <1>0, TypesSplit, NextTypesSplit DEF SlotInv
  <2>2. Grace \in Nat \ {0} /\ MaxFg \in Nat /\ MaxWait \in Nat
    BY DelaysAssumption
  <2>3. sinceLeave \in 0..Grace /\ fgInFlight \in 0..MaxFg
    BY <2>1 DEF CoreTypes
  <2>4. sinceLeave' \in 0..Grace /\ fgInFlight' \in 0..MaxFg
    BY <2>1 DEF CoreTypes
  <2> QED BY <2>1, <2>2, <2>3, <2>4
<1>1. CASE UNCHANGED vars
  <2>1. WakeArmed'
    BY <1>1 DEF vars, WakeInv, WakeArmed, GraceEnd, Deadline
  <2>2. IdleWoken' /\ PumpKnows'
    BY <1>1 DEF vars, WakeInv, IdleWoken, PumpKnows, GraceEnd
  <2> QED BY <1>0, <2>1, <2>2 DEF WakeInv
<1>2. ASSUME Turn, pump, UNCHANGED <<fgVars, idleVars>>
      PROVE  WakeInv'
  <2>1. idlers # {} => foregroundBusy
    BY <1>2, NothingDue
  <2>2. idlers # {} /\ fgInFlight = 0 => sinceLeave < Grace
    BY <2>1 DEF foregroundBusy
  <2>3. pumping' /\ (idlers' # {} /\ fgInFlight' = 0 => sinceLeave' < Grace)
    BY <1>2, <2>2 DEF pump, fgVars, idleVars
  <2> QED BY <1>0, <2>3, PumpingWake
<1>3. ASSUME NEW u \in Units, NEW k \in Kinds, acquire(u, k)
      PROVE  WakeInv'
  BY <1>2, <1>3 DEF acquire
<1>4. ASSUME NEW u \in Units, HoldEnds(u) PROVE WakeInv'
  BY <1>2, <1>4 DEF HoldEnds
<1>5. ASSUME NEW u \in Units, release(u) PROVE WakeInv'
  <2>1. CASE pump
    BY <1>2, <1>5, <2>1 DEF release
  <2>2. CASE unit' = [unit EXCEPT ![u] = "held"] /\ UNCHANGED <<running, wake, pumping>> /\ UNCHANGED escaped
    <3>1. /\ waiters' = waiters /\ age' = age /\ running' = running /\ wake' = wake
          /\ pumping' = pumping /\ escaped' = escaped /\ fgInFlight' = fgInFlight
          /\ sinceLeave' = sinceLeave /\ idlers' = idlers
      BY <1>5, <2>2 DEF release, fgVars, idleVars
    <3>2. IdleWoken' /\ PumpKnows'
      BY <3>1 DEF WakeInv, IdleWoken, PumpKnows, GraceEnd
    <3>3. CASE escaped[u]
      <4>1. unit'[u] = "held" /\ escaped'[u]
        BY <1>t, <2>2, <3>1, <3>3 DEF CoreTypes
      <4>2. WakeArmed'
        BY <4>1 DEF WakeArmed
      <4> QED BY <1>0, <3>2, <4>2 DEF WakeInv
    <3>4. CASE ~escaped[u]
      <4>1. escapedRunning' = escapedRunning
        BY <1>t, <1>5, <3>4 DEF release, CoreTypes
      <4>2. \A v \in Units : (unit[v] = "held" /\ escaped[v]) => (unit'[v] = "held" /\ escaped'[v])
        BY <1>t, <2>2, <3>1, <3>4 DEF CoreTypes
      <4>3. WakeArmed'
        BY <3>1, <4>1, <4>2 DEF WakeInv, WakeArmed, GraceEnd, Deadline
      <4> QED BY <1>0, <3>2, <4>3 DEF WakeInv
    <3> QED BY <3>3, <3>4
  <2> QED BY <1>5, <2>1, <2>2 DEF release
<1>6. ASSUME NEW i \in DOMAIN waiters, onAbort(i) PROVE WakeInv'
  <2>1. /\ Turn /\ armWake /\ pumping' = pumping /\ unit' = unit /\ escaped' = escaped
        /\ running' = running /\ escapedRunning' = escapedRunning /\ idlers' = idlers
        /\ fgInFlight' = fgInFlight /\ sinceLeave' = sinceLeave
    BY <1>6 DEF onAbort, unitVars, fgVars, idleVars
  <2>2. ~pumping'
    BY <2>1, NothingDue
  <2>3. CASE foregroundBusy
    <3>1. foregroundBusy'
      BY <2>1, <2>3 DEF foregroundBusy
    <3> QED BY <1>0, <2>1, <2>2, <3>1, ArmedWake
  <2>4. CASE ~foregroundBusy
    <3>0. waiters # <<>>
      BY <1>6
    <3>1. idlers = {} /\ ~(/\ running < Slots
                           /\ \A u \in Units : ~(unit[u] = "held" /\ escaped[u]))
      BY <2>1, <2>4, <3>0, NothingDue
    <3>2. WakeArmed'
      BY <2>1, <3>1 DEF WakeArmed
    <3>3. IdleWoken' /\ PumpKnows'
      BY <2>1, <3>1 DEF IdleWoken, PumpKnows
    <3> QED BY <1>0, <3>2, <3>3 DEF WakeInv
  <2> QED BY <2>3, <2>4
<1>7. CASE AdmitNext
  <2>1. pumping' /\ (idlers' # {} /\ fgInFlight' = 0 => sinceLeave' < Grace)
    BY <1>7 DEF AdmitNext, WakeInv, PumpKnows, fgVars, idleVars
  <2> QED BY <1>0, <2>1, PumpingWake
<1>8. CASE PumpEnds
  <2>1. /\ pumping /\ ~pumping' /\ armWake /\ waiters' = waiters /\ running' = running
        /\ idlers' = idlers /\ fgInFlight' = fgInFlight /\ sinceLeave' = sinceLeave
        /\ ~(running < Slots /\ \E i \in DOMAIN waiters : pickNext(i))
    BY <1>8 DEF PumpEnds, unitVars, fgVars, idleVars
  <2>2. CASE foregroundBusy
    <3>1. foregroundBusy'
      BY <2>1, <2>2 DEF foregroundBusy
    <3> QED BY <1>0, <2>1, <3>1, ArmedWake
  <2>3. CASE ~foregroundBusy
    <3>1. ~(waiters # <<>> /\ running < Slots)
      BY <1>t, <2>1, <2>3, SomeonePicked
    <3>2. WakeArmed'
      BY <2>1, <3>1 DEF WakeArmed
    <3>3. idlers = {}
      <4>1. fgInFlight = 0 /\ ~(sinceLeave < Grace)
        BY <1>t, <2>3 DEF foregroundBusy
      <4> QED BY <2>1, <4>1 DEF WakeInv, PumpKnows
    <3>4. IdleWoken' /\ PumpKnows'
      BY <2>1, <3>3 DEF IdleWoken, PumpKnows
    <3> QED BY <1>0, <3>2, <3>4 DEF WakeInv
  <2> QED BY <2>2, <2>3
<1>9. CASE foreground
  <2>1. fgInFlight' > 0 /\ armWake /\ Turn /\ pumping' = pumping
    BY <1>t, <1>9 DEF foreground
  <2>2. foregroundBusy' /\ ~pumping'
    BY <2>1, NothingDue DEF foregroundBusy
  <2> QED BY <1>0, <2>1, <2>2, ArmedWake
<1>10. CASE leave
  <2>1. armWake /\ Turn /\ pumping' = pumping
    BY <1>10 DEF leave
  <2>2. fgInFlight' > 0 \/ sinceLeave' < Grace
    BY <1>t, <1>10 DEF leave
  <2>3. foregroundBusy' /\ ~pumping'
    BY <2>1, <2>2, NothingDue DEF foregroundBusy
  <2> QED BY <1>0, <2>1, <2>3, ArmedWake
<1>11. ASSUME NEW i \in Idlers, foregroundIdle(i) PROVE WakeInv'
  <2>1. /\ armWake /\ Turn /\ pumping' = pumping /\ foregroundBusy
        /\ fgInFlight' = fgInFlight /\ sinceLeave' = sinceLeave
    BY <1>11 DEF foregroundIdle, fgVars
  <2>2. foregroundBusy' /\ ~pumping'
    BY <2>1, NothingDue DEF foregroundBusy
  <2> QED BY <1>0, <2>1, <2>2, ArmedWake
<1>12. ASSUME NEW i \in Idlers, NEW why \in {"cap", "abort"}, finish(i, why) PROVE WakeInv'
  <2>1. /\ waiters' = waiters /\ age' = age /\ unit' = unit /\ escaped' = escaped
        /\ running' = running /\ escapedRunning' = escapedRunning /\ wake' = wake
        /\ pumping' = pumping /\ fgInFlight' = fgInFlight /\ sinceLeave' = sinceLeave
        /\ idlers' = idlers \ {i}
    BY <1>12 DEF finish, unitVars, fgVars
  <2>2. WakeArmed'
    BY <2>1 DEF WakeInv, WakeArmed, GraceEnd, Deadline
  <2>3. IdleWoken' /\ PumpKnows'
    BY <2>1 DEF WakeInv, IdleWoken, PumpKnows, GraceEnd
  <2> QED BY <1>0, <2>2, <2>3 DEF WakeInv
<1>13. CASE WakeFires
  <2>1. /\ pumping' /\ idlers' = (IF foregroundBusy THEN idlers ELSE {})
        /\ fgInFlight' = fgInFlight /\ sinceLeave' = sinceLeave
    BY <1>13 DEF WakeFires, fgVars
  <2>2. idlers' # {} /\ fgInFlight' = 0 => sinceLeave' < Grace
    BY <2>1 DEF foregroundBusy
  <2> QED BY <1>0, <2>1, <2>2, PumpingWake
<1>14. CASE Tick
  <2>1. /\ Turn /\ waiters' = waiters /\ unit' = unit /\ escaped' = escaped
        /\ running' = running /\ escapedRunning' = escapedRunning
        /\ pumping' = pumping /\ fgInFlight' = fgInFlight /\ idlers' = idlers
        /\ sinceLeave' = Older(sinceLeave, Grace)
        /\ wake' = IF wake > 0 THEN wake - 1 ELSE wake
    BY <1>14 DEF Tick, unitVars
  <2>2. wake # 0 /\ ~pumping
    BY <2>1, NothingDue
  <2>3. ASSUME wake \in 0..GraceEnd PROVE wake' \in 0..GraceEnd'
    <3>1. wake > 0 /\ wake \in Nat /\ wake' = wake - 1 /\ sinceLeave < Grace
      BY <1>t, <2>1, <2>2, <2>3 DEF GraceEnd
    <3>2. sinceLeave' = sinceLeave + 1
      BY <2>1, <3>1 DEF Older
    <3> QED BY <1>t, <2>3, <3>1, <3>2 DEF GraceEnd
  <2>4. ASSUME NEW i \in DOMAIN waiters, wake \in 0..Deadline(waiters[i])
        PROVE  wake' \in 0..Deadline(waiters[i])'
    <3>1. waiters[i] \in Units
      BY <1>t, ElementOfSeq DEF CoreTypes
    <3>2. age[waiters[i]] \in 0..MaxWait
      BY <1>t, <3>1 DEF CoreTypes
    <3>3. wake > 0 /\ wake \in Nat /\ wake' = wake - 1 /\ age[waiters[i]] < MaxWait
      BY <1>t, <2>1, <2>2, <2>4, <3>2 DEF Deadline
    <3>4. age'[waiters[i]] = age[waiters[i]] + 1
      BY <1>14, <3>1, <3>3 DEF Tick, Older, Waiting
    <3> QED BY <1>t, <2>1, <2>4, <3>2, <3>3, <3>4 DEF Deadline
  <2>5. WakeArmed'
    BY <2>1, <2>3, <2>4 DEF WakeInv, WakeArmed
  <2>6. IdleWoken'
    BY <2>1, <2>3 DEF WakeInv, IdleWoken
  <2>7. PumpKnows'
    BY <2>1, <2>2 DEF PumpKnows
  <2> QED BY <1>0, <2>5, <2>6, <2>7 DEF WakeInv
<1>15. CASE Next
  BY <1>15, <1>3, <1>4, <1>5, <1>6, <1>7, <1>8, <1>9, <1>10, <1>11, <1>12, <1>13, <1>14 DEF Next
<1> QED BY <1>1, <1>15

LEMMA WakeInvariant == ~LateTimers => (Spec => []WakeInv)
<1> SUFFICES ASSUME ~LateTimers PROVE Spec => []WakeInv
  OBVIOUS
<1>1. WakeInv /\ [Next]_vars => WakeInv'
  BY WakeStep
<1> QED BY <1>1, WakeInit, PTL DEF Spec

\* For any callers, slots and delays, if timers run as soon as they are due: a
\* unit that could start always has the wake timer due, one that waits out the
\* foreground has it set to the first moment that could let it in, and a caller
\* of foregroundIdle never waits past the end of the grace without it.
THEOREM NoWakeUpLost == ~LateTimers => (Spec => []WakesUp)
<1> SUFFICES ASSUME ~LateTimers PROVE Spec => []WakesUp
  OBVIOUS
<1>1. WakeInv => WakesUp
  BY DEF WakeInv, WakesUp
<1> QED BY <1>1, WakeInvariant, PTL
=============================================================================
