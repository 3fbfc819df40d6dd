------------------------- MODULE ConcurrencyLimiter -------------------------
(***************************************************************************)
(* createConcurrencyLimiter of services/concurrencyLimiter.ts: a counting  *)
(* semaphore whose free slot is handed to the oldest waiter.  A caller is  *)
(* one call of run(); a step ends where the event loop may run something   *)
(* else, so a waiter whose promise was resolved is "admitted" until its    *)
(* continuation starts the task.                                           *)
(***************************************************************************)
EXTENDS Integers, Sequences, FiniteSets

CONSTANTS
    Callers,
    MaxConcurrent

ASSUME MaxConcurrentAssumption == MaxConcurrent \in Nat \ {0}

VARIABLES
    active,     \* the counter of the closure
    queue,      \* the callers whose resolve functions are queued
    place,      \* where each caller is
    ahead       \* history: who was already waiting when a caller arrived, and still is

vars == <<active, queue, place, ahead>>

Waiting == {c \in Callers : place[c] = "queued"}

\* Callers that own a slot: their task runs, or is about to.
Admitted == {c \in Callers : place[c] \in {"admitted", "running"}}

Init ==
    /\ active = 0
    /\ queue = <<>>
    /\ place = [c \in Callers |-> "outside"]
    /\ ahead = [c \in Callers |-> {}]

\* Fault: the bound is compared after the increment it should prevent.
Acquire_OffByOne(c) ==
    /\ place[c] = "outside"
    /\ ahead' = [ahead EXCEPT ![c] = Waiting]
    /\ IF active <= MaxConcurrent
       THEN /\ active' = active + 1
            /\ place' = [place EXCEPT ![c] = "admitted"]
            /\ UNCHANGED queue
       ELSE /\ queue' = Append(queue, c)
            /\ place' = [place EXCEPT ![c] = "queued"]
            /\ UNCHANGED active

\* run() up to `await acquire()`.
Acquire(c) ==
    /\ place[c] = "outside"
    /\ ahead' = [ahead EXCEPT ![c] = Waiting]
    /\ IF active < MaxConcurrent
       THEN /\ active' = active + 1
            /\ place' = [place EXCEPT ![c] = "admitted"]
            /\ UNCHANGED queue
       ELSE /\ queue' = Append(queue, c)
            /\ place' = [place EXCEPT ![c] = "queued"]
            /\ UNCHANGED active

\* The continuation of acquire() runs and calls task().
Start(c) ==
    /\ place[c] = "admitted"
    /\ place' = [place EXCEPT ![c] = "running"]
    /\ UNCHANGED <<active, queue, ahead>>

\* Fault: the slot is freed and taken again by whoever comes first.
Release_TwoStep(c) ==
    IF queue # <<>>
    THEN LET next == Head(queue) IN
         /\ queue' = Tail(queue)
         /\ place' = [place EXCEPT ![c] = "outside", ![next] = "admitted"]
         /\ ahead' = [d \in Callers |-> ahead[d] \ {next}]
         /\ active' = active - 1
    ELSE /\ active' = active - 1
         /\ place' = [place EXCEPT ![c] = "outside"]
         /\ UNCHANGED <<queue, ahead>>

\* Fault: the youngest waiter is served first.
Release_Stack(c) ==
    IF queue # <<>>
    THEN LET next == queue[Len(queue)] IN
         /\ queue' = SubSeq(queue, 1, Len(queue) - 1)
         /\ place' = [place EXCEPT ![c] = "outside", ![next] = "admitted"]
         /\ ahead' = [d \in Callers |-> ahead[d] \ {next}]
         /\ UNCHANGED active
    ELSE /\ active' = active - 1
         /\ place' = [place EXCEPT ![c] = "outside"]
         /\ UNCHANGED <<queue, ahead>>

\* Fault: a task that rejects skips the release, a `finally` that was lost.
Release_Leaks(c) ==
    /\ place' = [place EXCEPT ![c] = "outside"]
    /\ UNCHANGED <<active, queue, ahead>>

\* release(): the oldest waiter inherits the slot of c, or the slot is freed.
Release(c) ==
    IF queue # <<>>
    THEN LET next == Head(queue) IN
         /\ queue' = Tail(queue)
         /\ place' = [place EXCEPT ![c] = "outside", ![next] = "admitted"]
         /\ ahead' = [d \in Callers |-> ahead[d] \ {next}]
         /\ UNCHANGED active
    ELSE /\ active' = active - 1
         /\ place' = [place EXCEPT ![c] = "outside"]
         /\ UNCHANGED <<queue, ahead>>

\* The task settles, by a value or an error; `finally` releases.
Settle(c) == place[c] = "running" /\ Release(c)

Next == \E c \in Callers : Acquire(c) \/ Start(c) \/ Settle(c)

Spec == Init /\ [][Next]_vars

\* Continuations run, and every task settles.
FairSpec == Spec /\ \A c \in Callers : WF_vars(Start(c)) /\ WF_vars(Settle(c))

-----------------------------------------------------------------------------
\* Type invariant.
TypeOK ==
    /\ active \in Nat
    /\ queue \in Seq(Callers)
    /\ place \in [Callers -> {"outside", "queued", "admitted", "running"}]
    /\ ahead \in [Callers -> SUBSET Callers]

\* At most MaxConcurrent callers ever own a slot ("at most maxConcurrent tasks
\* run their work at once").
CapHeld == Cardinality(Admitted) <= MaxConcurrent

\* The counter never drifts from the slots really taken, through every handoff
\* and every failed task: a leaked slot would be gone for the life of the
\* process.
NoSlotLeaks == active = Cardinality(Admitted)

\* Nobody waits while a slot is free, and the queue holds exactly the waiters,
\* each once: "each runs as soon as an earlier one finishes".
NoIdleSlot ==
    /\ queue # <<>> => active = MaxConcurrent
    /\ \A i, j \in DOMAIN queue : queue[i] = queue[j] => i = j
    /\ {queue[i] : i \in DOMAIN queue} = Waiting

\* Nobody is overtaken: a caller that owns a slot leaves no one waiting who was
\* waiting when it arrived ("callers beyond that queue in arrival order").
NoOvertaking == \A c \in Admitted : ahead[c] = {}

\* Every caller's task is started, as long as tasks settle.
EveryCallerRuns == \A c \in Callers : place[c] = "queued" ~> place[c] = "running"
=============================================================================
