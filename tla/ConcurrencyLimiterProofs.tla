---------------------- MODULE ConcurrencyLimiterProofs ----------------------
(***************************************************************************)
(* The safety of ConcurrencyLimiter for any bound and any set of callers,  *)
(* infinite ones included.                                                 *)
(***************************************************************************)
EXTENDS ConcurrencyLimiter, FiniteSetTheorems, TLAPS

\* The queue lists the waiters once each, and only while every slot is taken;
\* a waiter was overtaken by nobody but those in front of it.
QueueInv ==
    /\ NoIdleSlot
    /\ \A i \in DOMAIN queue : ahead[queue[i]] \subseteq {queue[j] : j \in 1..(i - 1)}
    /\ NoOvertaking

\* The counter is the number of slots taken.
SlotInv ==
    /\ IsFiniteSet(Admitted)
    /\ NoSlotLeaks
    /\ active <= MaxConcurrent

IInv == TypeOK /\ SlotInv /\ QueueInv

LEMMA InitIInv == Init => IInv
<1> SUFFICES ASSUME Init PROVE IInv
  OBVIOUS
<1>1. Admitted = {} /\ Waiting = {}
  BY DEF Init, Admitted, Waiting
<1>2. SlotInv
  BY <1>1, FS_EmptySet, MaxConcurrentAssumption DEF Init, SlotInv, NoSlotLeaks
<1>3. TypeOK /\ QueueInv
  BY <1>1 DEF Init, TypeOK, QueueInv, NoIdleSlot, NoOvertaking
<1> QED
  BY <1>2, <1>3 DEF IInv

\* acquire() with a free slot: nobody is waiting, and one more slot is taken.
LEMMA AcquireSlot ==
    ASSUME IInv, NEW c \in Callers, Acquire(c), active < MaxConcurrent
    PROVE  IInv'
<1> USE DEF IInv
<1>1. /\ active' = active + 1 /\ queue' = queue
      /\ place' = [place EXCEPT ![c] = "admitted"]
      /\ ahead' = [ahead EXCEPT ![c] = Waiting]
      /\ place[c] = "outside"
  BY DEF Acquire
<1>2. queue = <<>> /\ Waiting = {}
  BY MaxConcurrentAssumption DEF QueueInv, NoIdleSlot, TypeOK
<1>3. TypeOK'
  BY <1>1, <1>2 DEF TypeOK
<1>4. Admitted' = Admitted \cup {c} /\ c \notin Admitted /\ Waiting' = Waiting
  BY <1>1 DEF Admitted, Waiting, TypeOK
<1>5. SlotInv'
  BY <1>1, <1>4, FS_AddElement, MaxConcurrentAssumption DEF SlotInv, NoSlotLeaks, TypeOK
<1>6. NoIdleSlot'
  BY <1>1, <1>2, <1>4 DEF NoIdleSlot
<1>7. NoOvertaking'
  BY <1>1, <1>2, <1>4 DEF NoOvertaking, QueueInv, TypeOK
<1> QED
  BY <1>1, <1>2, <1>3, <1>5, <1>6, <1>7 DEF QueueInv

\* acquire() with no free slot: the caller joins the end of the queue.
LEMMA AcquireQueued ==
    ASSUME IInv, NEW c \in Callers, Acquire(c), ~(active < MaxConcurrent)
    PROVE  IInv'
<1> USE DEF IInv
<1>1. /\ active' = active /\ queue' = Append(queue, c)
      /\ place' = [place EXCEPT ![c] = "queued"]
      /\ ahead' = [ahead EXCEPT ![c] = Waiting]
      /\ place[c] = "outside"
  BY DEF Acquire
<1>2. TypeOK'
  BY <1>1 DEF TypeOK, Waiting
<1>3. Admitted' = Admitted /\ Waiting' = Waiting \cup {c}
      /\ c \notin Waiting /\ c \notin Admitted
  BY <1>1 DEF Admitted, Waiting, TypeOK
<1>4. SlotInv'
  BY <1>1, <1>3 DEF SlotInv, NoSlotLeaks
<1>5. /\ Len(queue') = Len(queue) + 1 /\ queue'[Len(queue) + 1] = c
      /\ \A i \in DOMAIN queue : queue'[i] = queue[i] /\ i \in DOMAIN queue'
      /\ DOMAIN queue = 1..Len(queue) /\ DOMAIN queue' = 1..(Len(queue) + 1)
      /\ Len(queue) \in Nat
  BY <1>1 DEF TypeOK
<1>6. {queue[i] : i \in DOMAIN queue} = Waiting
  BY DEF QueueInv, NoIdleSlot
<1>7. NoIdleSlot'
  <2>1. active' = MaxConcurrent
    BY <1>1, MaxConcurrentAssumption DEF SlotInv, TypeOK
  <2>2. \A i, j \in DOMAIN queue' : queue'[i] = queue'[j] => i = j
    BY <1>3, <1>5, <1>6 DEF QueueInv, NoIdleSlot
  <2>3. {queue'[i] : i \in DOMAIN queue'} = Waiting'
    BY <1>3, <1>5, <1>6
  <2> QED
    BY <2>1, <2>2, <2>3 DEF NoIdleSlot
<1>8. \A i \in DOMAIN queue' : ahead'[queue'[i]] \subseteq {queue'[j] : j \in 1..(i - 1)}
  <2>1. ASSUME NEW i \in DOMAIN queue
        PROVE  ahead'[queue'[i]] \subseteq {queue'[j] : j \in 1..(i - 1)}
    <3>1. queue[i] # c /\ queue[i] \in Callers
      BY <1>3, <1>6, <1>5 DEF Waiting
    <3>2. ahead'[queue'[i]] = ahead[queue[i]]
      BY <1>1, <1>5, <3>1 DEF TypeOK
    <3> QED
      BY <1>5, <3>2 DEF QueueInv
  <2>2. ahead'[queue'[Len(queue) + 1]] \subseteq {queue'[j] : j \in 1..Len(queue)}
    BY <1>1, <1>5, <1>6 DEF TypeOK
  <2> QED
    BY <1>5, <2>1, <2>2
<1>9. NoOvertaking'
  BY <1>1, <1>3 DEF NoOvertaking, QueueInv, TypeOK
<1> QED
  BY <1>2, <1>4, <1>7, <1>8, <1>9 DEF QueueInv

\* The continuation of acquire(): a slot that was taken stays taken.
LEMMA StartStep ==
    ASSUME IInv, NEW c \in Callers, Start(c)
    PROVE  IInv'
<1> USE DEF IInv
<1>1. /\ UNCHANGED <<active, queue, ahead>>
      /\ place' = [place EXCEPT ![c] = "running"] /\ place[c] = "admitted"
  BY DEF Start
<1>2. TypeOK'
  BY <1>1 DEF TypeOK
<1>3. Admitted' = Admitted /\ Waiting' = Waiting
  BY <1>1 DEF Admitted, Waiting, TypeOK
<1> QED
  BY <1>1, <1>2, <1>3
  DEF SlotInv, NoSlotLeaks, QueueInv, NoIdleSlot, NoOvertaking

\* release() with an empty queue: one slot less.
LEMMA ReleaseSlot ==
    ASSUME IInv, NEW c \in Callers, Settle(c), queue = <<>>
    PROVE  IInv'
<1> USE DEF IInv
<1>1. /\ active' = active - 1 /\ UNCHANGED <<queue, ahead>>
      /\ place' = [place EXCEPT ![c] = "outside"] /\ place[c] = "running"
  BY DEF Settle, Release
<1>2. Admitted' = Admitted \ {c} /\ c \in Admitted /\ Waiting' = Waiting
  BY <1>1 DEF Admitted, Waiting, TypeOK
<1>3. SlotInv' /\ active' \in Nat
  <2>1. IsFiniteSet(Admitted') /\ Cardinality(Admitted') = active - 1
    BY <1>2, FS_RemoveElement DEF SlotInv, NoSlotLeaks
  <2>2. Cardinality(Admitted') \in Nat
    BY <2>1, FS_CardinalityType
  <2> QED
    BY <1>1, <2>1, <2>2, MaxConcurrentAssumption DEF SlotInv, NoSlotLeaks, TypeOK
<1>4. TypeOK'
  BY <1>1, <1>3 DEF TypeOK
<1>5. NoOvertaking'
  BY <1>1, <1>2 DEF QueueInv, NoOvertaking
<1>6. NoIdleSlot'
  BY <1>1, <1>2 DEF QueueInv, NoIdleSlot
<1> QED
  BY <1>1, <1>3, <1>4, <1>5, <1>6 DEF QueueInv

\* release() with waiters: the slot passes from the caller to the oldest one.
LEMMA ReleaseHandsOver ==
    ASSUME IInv, NEW c \in Callers, Settle(c), queue # <<>>
    PROVE  IInv'
<1> USE DEF IInv
<1>1. PICK next : next = Head(queue)
  OBVIOUS
<1>2. /\ active' = active /\ queue' = Tail(queue)
      /\ place' = [place EXCEPT ![c] = "outside", ![next] = "admitted"]
      /\ ahead' = [d \in Callers |-> ahead[d] \ {next}]
      /\ place[c] = "running"
  BY <1>1 DEF Settle, Release
<1>3. /\ Len(queue) \in Nat \ {0} /\ DOMAIN queue = 1..Len(queue)
      /\ DOMAIN queue' = 1..(Len(queue) - 1)
      /\ \A i \in 1..(Len(queue) - 1) : queue'[i] = queue[i + 1]
      /\ next = queue[1] /\ next \in Callers
      /\ queue' \in Seq(Callers)
  BY <1>1, <1>2 DEF TypeOK
<1>4. next \in Waiting /\ next # c
  BY <1>2, <1>3 DEF QueueInv, NoIdleSlot, Waiting
<1>5. TypeOK'
  BY <1>2, <1>3 DEF TypeOK
<1>6. /\ Admitted' = (Admitted \ {c}) \cup {next} /\ Waiting' = Waiting \ {next}
      /\ c \in Admitted /\ next \notin Admitted
  BY <1>2, <1>3, <1>4 DEF Admitted, Waiting, TypeOK
<1>7. SlotInv'
  <2>1. IsFiniteSet(Admitted \ {c}) /\ Cardinality(Admitted \ {c}) = active - 1
    BY <1>6, FS_RemoveElement DEF SlotInv, NoSlotLeaks
  <2>2. next \notin Admitted \ {c}
    BY <1>6
  <2>3. IsFiniteSet(Admitted') /\ Cardinality(Admitted') = active - 1 + 1
    BY <1>6, <2>1, <2>2, FS_AddElement
  <2> QED
    BY <1>2, <2>3 DEF SlotInv, NoSlotLeaks, TypeOK
<1>8. NoIdleSlot'
  <2>1. active' = MaxConcurrent
    BY <1>2 DEF QueueInv, NoIdleSlot
  <2>2. \A i, j \in DOMAIN queue' : queue'[i] = queue'[j] => i = j
    BY <1>3 DEF QueueInv, NoIdleSlot
  <2>3. \A x \in Waiting' : \E i \in DOMAIN queue' : x = queue'[i]
    <3>1. ASSUME NEW x \in Waiting' PROVE \E i \in DOMAIN queue' : x = queue'[i]
      <4>1. PICK k \in DOMAIN queue : x = queue[k] /\ k # 1
        BY <1>3, <1>6, <3>1 DEF QueueInv, NoIdleSlot
      <4>2. k - 1 \in DOMAIN queue' /\ queue'[k - 1] = x
        BY <1>3, <4>1
      <4> QED
        BY <4>2
    <3> QED
      BY <3>1
  <2>4. \A i \in DOMAIN queue' : queue'[i] \in Waiting'
    BY <1>3, <1>6 DEF QueueInv, NoIdleSlot
  <2> QED
    BY <2>1, <2>2, <2>3, <2>4 DEF NoIdleSlot
<1>9. \A i \in DOMAIN queue' : ahead'[queue'[i]] \subseteq {queue'[j] : j \in 1..(i - 1)}
  <2>1. ASSUME NEW i \in DOMAIN queue', NEW x \in ahead'[queue'[i]]
        PROVE  \E j \in 1..(i - 1) : x = queue'[j]
    <3>1. queue'[i] = queue[i + 1] /\ i + 1 \in DOMAIN queue /\ queue[i + 1] \in Callers
      BY <1>3, <2>1 DEF TypeOK
    <3>2. x \in ahead[queue[i + 1]] /\ x # queue[1]
      BY <1>2, <1>3, <2>1, <3>1
    <3>3. PICK k \in 1..i : x = queue[k]
      BY <3>1, <3>2, <1>3 DEF QueueInv
    <3>4. k - 1 \in 1..(i - 1) /\ queue'[k - 1] = x
      BY <1>3, <3>2, <3>3
    <3> QED
      BY <3>4
  <2> QED
    BY <2>1
<1>10. NoOvertaking'
  <2>1. ahead[next] = {}
    BY <1>3 DEF QueueInv
  <2>2. \A d \in Admitted : ahead[d] = {}
    BY DEF QueueInv, NoOvertaking
  <2> QED
    BY <1>2, <1>3, <1>6, <2>1, <2>2 DEF NoOvertaking, Admitted
<1> QED
  BY <1>5, <1>7, <1>8, <1>9, <1>10 DEF QueueInv

LEMMA NextIInv == IInv /\ [Next]_vars => IInv'
<1> SUFFICES ASSUME IInv, [Next]_vars PROVE IInv'
  OBVIOUS
<1>1. ASSUME NEW c \in Callers, Acquire(c) PROVE IInv'
  BY <1>1, AcquireSlot, AcquireQueued
<1>2. ASSUME NEW c \in Callers, Start(c) PROVE IInv'
  BY <1>2, StartStep
<1>3. ASSUME NEW c \in Callers, Settle(c) PROVE IInv'
  BY <1>3, ReleaseSlot, ReleaseHandsOver
<1>4. CASE UNCHANGED vars
  BY <1>4 DEF vars, IInv, TypeOK, SlotInv, NoSlotLeaks, QueueInv, NoIdleSlot, NoOvertaking,
              Admitted, Waiting
<1> QED
  BY <1>1, <1>2, <1>3, <1>4 DEF Next

LEMMA LimiterInv == Spec => []IInv
BY InitIInv, NextIInv, PTL DEF Spec

\* Whatever the bound and however many callers, at most the bound's number of
\* them own a slot.
THEOREM CapHeldHolds == Spec => []CapHeld
<1>1. IInv => CapHeld
  BY DEF IInv, SlotInv, NoSlotLeaks, CapHeld
<1> QED
  BY <1>1, LimiterInv, PTL

\* No handoff and no failed task ever loses or invents a slot.
THEOREM NoSlotLeaksHolds == Spec => []NoSlotLeaks
<1>1. IInv => NoSlotLeaks
  BY DEF IInv, SlotInv
<1> QED
  BY <1>1, LimiterInv, PTL

\* Nobody ever waits beside a free slot, and no waiter is lost from the queue.
THEOREM NoIdleSlotHolds == Spec => []NoIdleSlot
<1>1. IInv => NoIdleSlot
  BY DEF IInv, QueueInv
<1> QED
  BY <1>1, LimiterInv, PTL

\* Nobody is ever overtaken, however long the queue.
THEOREM NoOvertakingHolds == Spec => []NoOvertaking
<1>1. IInv => NoOvertaking
  BY DEF IInv, QueueInv
<1> QED
  BY <1>1, LimiterInv, PTL
=============================================================================
