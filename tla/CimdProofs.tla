----------------------------- MODULE CimdProofs -----------------------------
(***************************************************************************)
(* Theorems about Cimd, for any requests, URLs and documents, any limit    *)
(* and with outages: what ConcurrencyLimiterProofs shows of the limiter    *)
(* holds of the one inside resolveCimdClient.                              *)
(***************************************************************************)
EXTENDS Cimd, TLAPS

LP == INSTANCE ConcurrencyLimiterProofs WITH Callers <- Reqs

(* The limiter inside.                                                     *)

LEMMA LimiterInit == Init => LP!Init
BY DEF Init, Limiter!Init, LP!Init

LEMMA AcquireStep == ASSUME NEW r \in Reqs, Limiter!Acquire(r) PROVE LP!Acquire(r)
BY DEF Limiter!Acquire, LP!Acquire, Limiter!Waiting, LP!Waiting

LEMMA StartStep == ASSUME NEW r \in Reqs, Limiter!Start(r) PROVE LP!Start(r)
BY DEF Limiter!Start, LP!Start

LEMMA SettleStep == ASSUME NEW r \in Reqs, Limiter!Settle(r) PROVE LP!Settle(r)
BY DEF Limiter!Settle, LP!Settle, Limiter!Release, LP!Release

\* Every step of Cimd is one of its limiter, or leaves it alone.
LEMMA LimiterStep == [Next]_vars => [LP!Next]_(LP!vars)
<1> SUFFICES ASSUME [Next]_vars PROVE [LP!Next]_(LP!vars)
  OBVIOUS
<1>1. ASSUME NEW r \in Reqs, CheckFailures(r) PROVE LP!Next \/ UNCHANGED LP!vars
  BY <1>1, AcquireStep DEF CheckFailures, LP!Next, LP!vars, limiter
<1>2. ASSUME NEW r \in Reqs, BeginFetch(r) PROVE LP!Next
  BY <1>2, StartStep DEF BeginFetch, LP!Next
<1>3. ASSUME NEW r \in Reqs, Resolve(r) \/ Download(r) PROVE LP!Next \/ UNCHANGED LP!vars
  BY <1>3, SettleStep DEF Resolve, Download, LP!Next, LP!vars, limiter
<1>4. ASSUME UNCHANGED limiter PROVE UNCHANGED LP!vars
  BY <1>4 DEF limiter, LP!vars
<1> QED
  BY <1>1, <1>2, <1>3, <1>4
  DEF Next, Proceed, ReadCache, FindClient, CacheDocument, MarkFailed, Upsert, Expire, Publish, vars

\* resolveCimdClient uses its limiter only as createConcurrencyLimiter allows: what
\* holds of every limiter holds of this one.
THEOREM LimiterInside == Spec => LP!Spec
BY LimiterInit, LimiterStep, PTL DEF Spec, LP!Spec

LEMMA LimiterHolds == Spec => []LP!IInv
BY LimiterInside, LP!LimiterInv, ConcurrencyAssumption, PTL

\* What Limiter says of the state is what LP says of it.
LEMMA SameLimiter ==
    /\ LP!TypeOK <=> Limiter!TypeOK
    /\ LP!CapHeld <=> Limiter!CapHeld
    /\ LP!NoSlotLeaks <=> Limiter!NoSlotLeaks
<1>1. LP!Admitted = Limiter!Admitted
  BY DEF LP!Admitted, Limiter!Admitted
<1>2. LP!TypeOK <=> Limiter!TypeOK
  BY DEF LP!TypeOK, Limiter!TypeOK
<1>3. LP!Cardinality(LP!Admitted) = Limiter!Cardinality(Limiter!Admitted)
  BY <1>1 DEF LP!Cardinality, Limiter!Cardinality
<1>4. LP!CapHeld <=> Limiter!CapHeld
  BY <1>3 DEF LP!CapHeld, Limiter!CapHeld
<1>5. LP!NoSlotLeaks <=> Limiter!NoSlotLeaks
  BY <1>3 DEF LP!NoSlotLeaks, Limiter!NoSlotLeaks
<1> QED
  BY <1>2, <1>4, <1>5

-----------------------------------------------------------------------------
(* Types.                                                                  *)

\* A request is in one of three situations: it has not begun or has its answer,
\* it looks for a document, or it carries one.
LEMMA JobKinds ==
    ASSUME NEW j \in Job, j.pc # "new"
    PROVE  /\ j.url \in Urls /\ j.known \in Docs \cup {None}
           /\ j.pc \in {"refilling", "upserting", "filling"} => j.doc \in Docs
BY DEF Job, FetchPcs

\* The ways a request goes on are jobs.
LEMMA GoTyped ==
    ASSUME job \in [Reqs -> Job], NEW r \in Reqs, job[r].pc # "new",
           NEW pc \in {"finding", "checkingFailures", "markingFailed"} \cup FetchPcs, Go(r, pc)
    PROVE  job' \in [Reqs -> Job]
<1>1. [pc |-> pc, url |-> job[r].url, known |-> job[r].known] \in Job
  BY JobKinds DEF Job, FetchPcs
<1> QED
  BY <1>1 DEF Go

LEMMA CarryTyped ==
    ASSUME job \in [Reqs -> Job], NEW r \in Reqs, job[r].pc # "new",
           NEW pc \in {"refilling", "upserting", "filling"}, NEW d \in Docs, Carry(r, pc, d)
    PROVE  job' \in [Reqs -> Job]
<1>1. [pc |-> pc, url |-> job[r].url, known |-> job[r].known, doc |-> d] \in Job
  BY JobKinds DEF Job
<1> QED
  BY <1>1 DEF Carry

LEMMA AnswerTyped ==
    ASSUME job \in [Reqs -> Job], NEW r \in Reqs, job[r].pc # "new",
           NEW a \in Docs \cup {"refused", "error"}, Answer(r, a)
    PROVE  job' \in [Reqs -> Job]
<1>1. [pc |-> "answered", url |-> job[r].url, known |-> job[r].known, answer |-> a] \in Job
  BY JobKinds DEF Job
<1> QED
  BY <1>1 DEF Answer

\* The types of everything but the limiter.
StoresTyped ==
    /\ web \in [Urls -> Docs \cup {None}]
    /\ positive \in [Urls -> Docs \cup {None}]
    /\ negative \subseteq Urls
    /\ stored \in [Urls -> Docs \cup {None}]
    /\ job \in [Reqs -> Job]
    /\ failed \subseteq Urls

LEMMA InitStoresTyped == Init => StoresTyped
BY DEF Init, StoresTyped, Job

LEMMA NextStoresTyped == StoresTyped /\ [Next]_vars => StoresTyped'
<1> SUFFICES ASSUME StoresTyped, [Next]_vars PROVE StoresTyped'
  OBVIOUS
<1> USE DEF StoresTyped
<1>0. ASSUME NEW r \in Reqs, job[r].pc # "new"
      PROVE  /\ job[r].url \in Urls
             /\ job[r].pc \in {"refilling", "upserting", "filling"} => job[r].doc \in Docs
  BY <1>0, JobKinds
<1>1. ASSUME NEW r \in Reqs, NEW u \in Urls, ReadCache(r, u) PROVE StoresTyped'
  <2>1. positive[u] # None
           => [pc |-> "answered", url |-> u, known |-> stored[u], answer |-> positive[u]] \in Job
    BY DEF Job
  <2>2. [pc |-> "finding", url |-> u, known |-> stored[u]] \in Job
    BY DEF Job
  <2> QED
    BY <1>1, <2>1, <2>2 DEF ReadCache, stores
<1>2. ASSUME NEW r \in Reqs, FindClient(r) PROVE StoresTyped'
  <2>1. job[r].pc = "finding" /\ job[r].url \in Urls /\ stored[job[r].url] \in Docs \cup {None}
    BY <1>0, <1>2 DEF FindClient
  <2>2. job' \in [Reqs -> Job]
    BY <1>2, <2>1, GoTyped, CarryTyped, AnswerTyped DEF FindClient
  <2> QED
    BY <1>2, <2>2 DEF FindClient, stores
<1>3. ASSUME NEW r \in Reqs, CacheDocument(r) PROVE StoresTyped'
  <2>1. job[r].pc # "new" /\ job[r].url \in Urls /\ job[r].doc \in Docs
    BY <1>0, <1>3 DEF CacheDocument
  <2>2. job' \in [Reqs -> Job]
    BY <1>3, <2>1, AnswerTyped DEF CacheDocument
  <2> QED
    BY <1>3, <2>1, <2>2 DEF CacheDocument
<1>4. ASSUME NEW r \in Reqs, CheckFailures(r) PROVE StoresTyped'
  <2>1. job' \in [Reqs -> Job]
    BY <1>4, GoTyped, AnswerTyped DEF CheckFailures, FetchPcs
  <2> QED
    BY <1>4, <2>1 DEF CheckFailures, stores
<1>5. ASSUME NEW r \in Reqs, BeginFetch(r) PROVE StoresTyped'
  <2>1. job' \in [Reqs -> Job]
    BY <1>5, GoTyped DEF BeginFetch, FetchPcs
  <2> QED
    BY <1>5, <2>1 DEF BeginFetch, stores
<1>6. ASSUME NEW r \in Reqs, Resolve(r) PROVE StoresTyped'
  <2>1. job' \in [Reqs -> Job]
    BY <1>6, GoTyped DEF Resolve, FetchPcs
  <2> QED
    BY <1>0, <1>6, <2>1 DEF Resolve, stores
<1>7. ASSUME NEW r \in Reqs, Download(r) PROVE StoresTyped'
  <2>1. job[r].pc # "new" /\ web[job[r].url] \in Docs \cup {None}
    BY <1>0, <1>7 DEF Download
  <2>2. job' \in [Reqs -> Job]
    BY <1>7, <2>1, GoTyped, CarryTyped DEF Download
  <2> QED
    BY <1>0, <1>7, <2>2 DEF Download, stores
<1>8. ASSUME NEW r \in Reqs, MarkFailed(r) PROVE StoresTyped'
  <2>1. job' \in [Reqs -> Job]
    BY <1>8, AnswerTyped DEF MarkFailed
  <2> QED
    BY <1>0, <1>8, <2>1 DEF MarkFailed
<1>9. ASSUME NEW r \in Reqs, Upsert(r) PROVE StoresTyped'
  <2>1. job[r].pc # "new" /\ job[r].url \in Urls /\ job[r].doc \in Docs
    BY <1>0, <1>9 DEF Upsert
  <2>2. job' \in [Reqs -> Job]
    BY <1>9, <2>1, CarryTyped DEF Upsert
  <2> QED
    BY <1>9, <2>1, <2>2 DEF Upsert
<1>10. ASSUME NEW u \in Urls, Expire(u) PROVE StoresTyped'
  BY <1>10 DEF Expire
<1>11. ASSUME NEW u \in Urls, NEW d \in Docs \cup {None}, Publish(u, d) PROVE StoresTyped'
  BY <1>11 DEF Publish, stores
<1>12. CASE UNCHANGED vars
  BY <1>12 DEF vars, stores
<1> QED
  BY <1>1, <1>2, <1>3, <1>4, <1>5, <1>6, <1>7, <1>8, <1>9, <1>10, <1>11, <1>12
  DEF Next, Proceed

LEMMA StoresTypedAlways == Spec => []StoresTyped
BY InitStoresTyped, NextStoresTyped, PTL DEF Spec

\* Whatever is published, expires or is out, every stored value keeps its shape.
THEOREM TypeCorrect == Spec => []TypeOK
<1>1. LP!IInv /\ StoresTyped => TypeOK
  BY SameLimiter DEF LP!IInv, StoresTyped, TypeOK
<1> QED
  BY <1>1, LimiterHolds, StoresTypedAlways, PTL

-----------------------------------------------------------------------------
(* Slots.                                                                  *)

FetchersHold == \A r \in Reqs : place[r] # "outside" <=> job[r].pc \in FetchPcs

\* Who enters the limiter, and who leaves it: a handover is from one inside to
\* another.
LEMMA EntersAlone ==
    ASSUME LP!TypeOK, NEW r \in Reqs, Limiter!Acquire(r)
    PROVE  \A x \in Reqs : place'[x] # "outside" <=> (place[x] # "outside" \/ x = r)
BY DEF LP!TypeOK, Limiter!Acquire

LEMMA StaysInside ==
    ASSUME LP!TypeOK, NEW r \in Reqs, Limiter!Start(r)
    PROVE  \A x \in Reqs : place'[x] # "outside" <=> place[x] # "outside"
BY DEF LP!TypeOK, Limiter!Start

LEMMA LeavesAlone ==
    ASSUME LP!IInv, NEW r \in Reqs, Limiter!Settle(r)
    PROVE  \A x \in Reqs : place'[x] # "outside" <=> (place[x] # "outside" /\ x # r)
<1>0. LP!TypeOK /\ LP!NoIdleSlot
  BY DEF LP!IInv, LP!QueueInv
<1>1. CASE queue = <<>>
  BY <1>0, <1>1 DEF Limiter!Settle, Limiter!Release, LP!TypeOK
<1>2. CASE queue # <<>>
  <2>1. Head(queue) \in LP!Waiting
    <3>1. 1 \in DOMAIN queue /\ Head(queue) = queue[1]
      BY <1>0, <1>2 DEF LP!TypeOK
    <3> QED
      BY <1>0, <3>1 DEF LP!NoIdleSlot
  <2>2. /\ Head(queue) \in Reqs /\ place[Head(queue)] = "queued" /\ place[r] = "running"
        /\ place' = [place EXCEPT ![r] = "outside", ![Head(queue)] = "admitted"]
    BY <1>2, <2>1 DEF Limiter!Settle, Limiter!Release, LP!Waiting
  <2> QED
    BY <1>0, <2>2 DEF LP!TypeOK
<1> QED
  BY <1>1, <1>2

LEMMA InitFetchersHold == Init => FetchersHold
BY DEF Init, Limiter!Init, FetchersHold, FetchPcs

LEMMA NextFetchersHold ==
    StoresTyped /\ LP!IInv /\ FetchersHold /\ [Next]_vars => FetchersHold'
<1> SUFFICES ASSUME StoresTyped, LP!IInv, FetchersHold, [Next]_vars PROVE FetchersHold'
  OBVIOUS
<1> USE DEF FetchersHold, FetchPcs
<1>0. job \in [Reqs -> Job] /\ LP!TypeOK
  BY DEF StoresTyped, LP!IInv
<1>1. ASSUME NEW r \in Reqs, NEW u \in Urls, ReadCache(r, u) PROVE FetchersHold'
  BY <1>0, <1>1 DEF ReadCache, limiter
<1>2. ASSUME NEW r \in Reqs, FindClient(r) PROVE FetchersHold'
  BY <1>0, <1>2 DEF FindClient, limiter, Go, Carry, Answer
<1>3. ASSUME NEW r \in Reqs, CacheDocument(r) \/ MarkFailed(r) \/ Upsert(r) PROVE FetchersHold'
  BY <1>0, <1>3 DEF CacheDocument, MarkFailed, Upsert, limiter, Carry, Answer
<1>4. ASSUME NEW r \in Reqs, CheckFailures(r) PROVE FetchersHold'
  <2>1. CASE Answer(r, "refused") /\ UNCHANGED limiter
    BY <1>0, <1>4, <2>1 DEF CheckFailures, Answer, limiter
  <2>2. CASE Go(r, "limited") /\ Limiter!Acquire(r)
    BY <1>0, <2>2, EntersAlone DEF Go
  <2> QED
    BY <1>4, <2>1, <2>2 DEF CheckFailures
<1>5. ASSUME NEW r \in Reqs, BeginFetch(r) PROVE FetchersHold'
  BY <1>0, <1>5, StaysInside DEF BeginFetch, Go
<1>6. ASSUME NEW r \in Reqs, Resolve(r) PROVE FetchersHold'
  <2>1. CASE Go(r, "downloading") /\ UNCHANGED limiter
    BY <1>0, <1>6, <2>1 DEF Resolve, Go, limiter
  <2>2. CASE Limiter!Settle(r) /\ Go(r, "markingFailed")
    BY <1>0, <2>2, LeavesAlone DEF Go
  <2> QED
    BY <1>6, <2>1, <2>2 DEF Resolve
<1>7. ASSUME NEW r \in Reqs, Download(r) PROVE FetchersHold'
  <2>1. \A x \in Reqs : place'[x] # "outside" <=> (place[x] # "outside" /\ x # r)
    BY <1>7, LeavesAlone DEF Download
  <2>2. /\ \A x \in Reqs : x # r => job'[x] = job[x]
        /\ job'[r].pc \in {"upserting", "markingFailed"}
    BY <1>0, <1>7 DEF Download, Go, Carry
  <2> QED
    BY <2>1, <2>2
<1>8. ASSUME UNCHANGED <<job, limiter>> PROVE FetchersHold'
  BY <1>8 DEF limiter
<1> QED
  BY <1>1, <1>2, <1>3, <1>4, <1>5, <1>6, <1>7, <1>8 DEF Next, Proceed, Expire, Publish, vars

\* A slot is held by a fetch and by nothing else, on every way out of fetchCimd.
THEOREM SlotsAreFetchesHolds == Spec => []SlotsAreFetches
<1>1. LP!IInv /\ LP!CapHeld /\ FetchersHold => SlotsAreFetches
  BY SameLimiter DEF LP!IInv, LP!SlotInv, FetchersHold, SlotsAreFetches
<1>2. Spec => []LP!CapHeld
  BY LimiterInside, LP!CapHeldHolds, ConcurrencyAssumption, PTL
<1> QED
  BY <1>1, <1>2, InitFetchersHold, NextFetchersHold, LimiterHolds, StoresTypedAlways, PTL DEF Spec

-----------------------------------------------------------------------------
(* Verdicts.                                                               *)

\* A request that is about to write a failure marker has seen a fetch fail.
VerdictInv ==
    /\ VerdictsAreEarned
    /\ \A r \in Reqs : job[r].pc = "markingFailed" => job[r].url \in failed

LEMMA InitVerdictInv == Init => VerdictInv
BY DEF Init, VerdictInv, VerdictsAreEarned

LEMMA NextVerdictInv == StoresTyped /\ VerdictInv /\ [Next]_vars => VerdictInv'
<1> SUFFICES ASSUME StoresTyped, VerdictInv, [Next]_vars PROVE VerdictInv'
  OBVIOUS
<1> USE DocsAssumption DEF VerdictInv, VerdictsAreEarned
<1>0. /\ job \in [Reqs -> Job] /\ positive \in [Urls -> Docs \cup {None}]
      /\ \A r \in Reqs : job[r].pc \in {"refilling", "filling"} => job[r].doc \in Docs
  BY JobKinds DEF StoresTyped
<1>1. ASSUME NEW r \in Reqs, NEW u \in Urls, ReadCache(r, u) PROVE VerdictInv'
  BY <1>0, <1>1 DEF ReadCache, stores
<1>2. ASSUME NEW r \in Reqs, FindClient(r) PROVE VerdictInv'
  BY <1>0, <1>2 DEF FindClient, stores, Go, Carry, Answer
<1>3. ASSUME NEW r \in Reqs, CacheDocument(r) PROVE VerdictInv'
  BY <1>0, <1>3 DEF CacheDocument, Answer
<1>4. ASSUME NEW r \in Reqs, CheckFailures(r) PROVE VerdictInv'
  BY <1>0, <1>4 DEF CheckFailures, stores, Go, Answer
<1>5. ASSUME NEW r \in Reqs, BeginFetch(r) PROVE VerdictInv'
  BY <1>0, <1>5 DEF BeginFetch, stores, Go
<1>6. ASSUME NEW r \in Reqs, Resolve(r) PROVE VerdictInv'
  BY <1>0, <1>6 DEF Resolve, stores, Go
<1>7. ASSUME NEW r \in Reqs, Download(r) PROVE VerdictInv'
  BY <1>0, <1>7 DEF Download, stores, Go, Carry
<1>8. ASSUME NEW r \in Reqs, MarkFailed(r) PROVE VerdictInv'
  BY <1>0, <1>8 DEF MarkFailed, Answer
<1>9. ASSUME NEW r \in Reqs, Upsert(r) PROVE VerdictInv'
  BY <1>0, <1>9 DEF Upsert, Carry
<1>10. ASSUME NEW u \in Urls, Expire(u) PROVE VerdictInv'
  BY <1>10 DEF Expire
<1>11. ASSUME UNCHANGED <<negative, job, failed>> PROVE VerdictInv'
  BY <1>11
<1> QED
  BY <1>1, <1>2, <1>3, <1>4, <1>5, <1>6, <1>7, <1>8, <1>9, <1>10, <1>11
  DEF Next, Proceed, Publish, stores, vars

\* A client is refused only if a fetch of its URL failed, through every outage.
THEOREM VerdictsAreEarnedHolds == Spec => []VerdictsAreEarned
<1>1. VerdictInv => VerdictsAreEarned
  BY DEF VerdictInv
<1> QED
  BY <1>1, InitVerdictInv, NextVerdictInv, StoresTypedAlways, PTL DEF Spec

-----------------------------------------------------------------------------
(* Stored documents.                                                       *)

LEMMA InitStoredWins == Init => StoredWins
BY DEF Init, StoredWins

LEMMA NextStoredWins == StoresTyped /\ StoredWins /\ [Next]_vars => StoredWins'
<1> SUFFICES ASSUME StoresTyped, StoredWins, [Next]_vars PROVE StoredWins'
  OBVIOUS
<1> USE DocsAssumption DEF StoredWins
<1>0. /\ job \in [Reqs -> Job] /\ positive \in [Urls -> Docs \cup {None}]
      /\ stored \in [Urls -> Docs \cup {None}]
      /\ \A r \in Reqs : job[r].pc # "new" => job[r].url \in Urls
      /\ \A r \in Reqs : job[r].pc \in {"refilling", "filling"} => job[r].doc \in Docs
  BY JobKinds DEF StoresTyped
<1>1. ASSUME NEW r \in Reqs, NEW u \in Urls, ReadCache(r, u) PROVE StoredWins'
  <2>1. /\ stored' = stored
        /\ \A x \in Reqs : x # r => job'[x] = job[x]
    BY <1>0, <1>1 DEF ReadCache, stores
  <2>2. /\ job'[r].url = u /\ job'[r].known = stored[u]
        /\ \/ job'[r].pc = "answered" /\ job'[r].answer \in Docs
           \/ job'[r].pc = "finding"
    BY <1>0, <1>1 DEF ReadCache
  <2> QED
    BY <2>1, <2>2
<1>2. ASSUME NEW r \in Reqs, FindClient(r) PROVE StoredWins'
  BY <1>0, <1>2 DEF FindClient, stores, Go, Carry, Answer
<1>3. ASSUME NEW r \in Reqs, CacheDocument(r) PROVE StoredWins'
  BY <1>0, <1>3 DEF CacheDocument, Answer
<1>4. ASSUME NEW r \in Reqs, CheckFailures(r) PROVE StoredWins'
  BY <1>0, <1>4 DEF CheckFailures, stores, Go, Answer
<1>5. ASSUME NEW r \in Reqs, BeginFetch(r) PROVE StoredWins'
  BY <1>0, <1>5 DEF BeginFetch, stores, Go
<1>6. ASSUME NEW r \in Reqs, Resolve(r) PROVE StoredWins'
  BY <1>0, <1>6 DEF Resolve, stores, Go
<1>7. ASSUME NEW r \in Reqs, Download(r) PROVE StoredWins'
  BY <1>0, <1>7 DEF Download, stores, Go, Carry
<1>8. ASSUME NEW r \in Reqs, MarkFailed(r) PROVE StoredWins'
  BY <1>0, <1>8 DEF MarkFailed, Answer
<1>9. ASSUME NEW r \in Reqs, Upsert(r) PROVE StoredWins'
  <2>1. job[r].pc = "upserting" /\ job[r].url \in Urls
        /\ \A u \in Urls : stored[u] # None => stored'[u] = stored[u]
    BY <1>0, <1>9 DEF Upsert
  <2>2. /\ job'[r].pc = "filling" /\ job'[r].known = None
        /\ \A x \in Reqs : x # r => job'[x] = job[x]
    BY <1>0, <1>9, <2>1 DEF Upsert, Carry
  <2> QED
    BY <1>0, <2>1, <2>2
<1>10. ASSUME NEW u \in Urls, Expire(u) PROVE StoredWins'
  BY <1>10 DEF Expire
<1>11. ASSUME UNCHANGED <<stored, job>> PROVE StoredWins'
  BY <1>11
<1> QED
  BY <1>1, <1>2, <1>3, <1>4, <1>5, <1>6, <1>7, <1>8, <1>9, <1>10, <1>11
  DEF Next, Proceed, Publish, stores, vars

\* Whoever comes in when a document is stored is neither fetched for nor refused,
\* through every failure, outage and fetch in flight.
THEOREM StoredWinsHolds == Spec => []StoredWins
BY InitStoredWins, NextStoredWins, StoresTypedAlways, PTL DEF Spec

-----------------------------------------------------------------------------
(* Settled clients.                                                        *)

\* What SettledForGood asks of a step, for one URL.
Keeps(u) ==
    /\ Settled(u)'
    /\ stored'[u] = stored[u]
    /\ \A r \in Reqs :
          (job'[r] # job[r] /\ job'[r].pc \in {"markingFailed", "answered"}
                           /\ job'[r].url = u)
             => /\ job'[r].pc = "answered"
                /\ \/ job'[r].answer \in {stored[u], "error"}
                   \/ job[r].pc = "markingFailed"

LEMMA SettledStep ==
    ASSUME StoresTyped, [Next]_vars, NEW u \in Urls, Settled(u)
    PROVE  Keeps(u)
<1> USE DEF Settled, Keeps
<1>0. /\ job \in [Reqs -> Job] /\ positive \in [Urls -> Docs \cup {None}]
      /\ stored \in [Urls -> Docs \cup {None}]
      /\ \A r \in Reqs : job[r].pc # "new" => job[r].url \in Urls
  BY JobKinds DEF StoresTyped
<1>1. ASSUME NEW r \in Reqs, NEW v \in Urls, ReadCache(r, v) PROVE Keeps(u)
  BY <1>0, <1>1 DEF ReadCache, stores
<1>2. ASSUME NEW r \in Reqs, FindClient(r) PROVE Keeps(u)
  BY <1>0, <1>2 DEF FindClient, stores, Go, Carry, Answer
<1>3. ASSUME NEW r \in Reqs, CacheDocument(r) PROVE Keeps(u)
  BY <1>0, <1>3 DEF CacheDocument, Answer
<1>4. ASSUME NEW r \in Reqs, CheckFailures(r) PROVE Keeps(u)
  BY <1>0, <1>4 DEF CheckFailures, stores, Go, Answer
<1>5. ASSUME NEW r \in Reqs, BeginFetch(r) PROVE Keeps(u)
  BY <1>0, <1>5 DEF BeginFetch, stores, Go
<1>6. ASSUME NEW r \in Reqs, Resolve(r) PROVE Keeps(u)
  BY <1>0, <1>6 DEF Resolve, stores, Go
<1>7. ASSUME NEW r \in Reqs, Download(r) PROVE Keeps(u)
  BY <1>0, <1>7 DEF Download, stores, Go, Carry
<1>8. ASSUME NEW r \in Reqs, MarkFailed(r) PROVE Keeps(u)
  BY <1>0, <1>8 DEF MarkFailed, Answer
<1>9. ASSUME NEW r \in Reqs, Upsert(r) PROVE Keeps(u)
  BY <1>0, <1>9 DEF Upsert, Carry
<1>10. ASSUME NEW v \in Urls, Expire(v) PROVE Keeps(u)
  BY <1>0, <1>10 DEF Expire
<1>11. ASSUME UNCHANGED <<stores, job>> PROVE Keeps(u)
  BY <1>11 DEF stores
<1> QED
  BY <1>1, <1>2, <1>3, <1>4, <1>5, <1>6, <1>7, <1>8, <1>9, <1>10, <1>11
  DEF Next, Proceed, Publish, vars

\* No step leaves a settled state: once the stored document, the cache and every
\* document still carried agree, they do so for good.
THEOREM SettledForGoodHolds == Spec => SettledForGood
<1>1. ASSUME StoresTyped, [Next]_vars
      PROVE  [\A u \in Urls : Settled(u) => Keeps(u)]_vars
  BY <1>1, SettledStep
<1> QED
  BY <1>1, StoresTypedAlways, PTL DEF Spec, SettledForGood, Keeps
=============================================================================
