-------------------------------- MODULE Cimd --------------------------------
(***************************************************************************)
(* resolveCimdClient of services/cimd.ts: a client whose id is an https    *)
(* URL is looked up in the positive cache, in storage, in the cache of     *)
(* failures, and at last fetched through the process-wide concurrency      *)
(* limiter, stored and cached.  Requests interleave at every `await`.      *)
(* ConcurrencyLimiter is composed by its actions: a request is a caller.   *)
(***************************************************************************)
EXTENDS Integers, Sequences, FiniteSets

CONSTANTS
    Reqs,           \* /authorize requests
    Urls,           \* CIMD client ids
    Docs,           \* valid CIMD documents
    MaxConcurrent,  \* cimdFetchConcurrency
    Outages,        \* TRUE: calls to the cache and to storage may reject
    None

ASSUME DocsAssumption == None \notin Docs /\ {"refused", "error"} \cap Docs = {}
ASSUME ConcurrencyAssumption == MaxConcurrent \in Nat \ {0}
ASSUME OutagesAssumption == Outages \in BOOLEAN

VARIABLES
    web,        \* what each URL serves now: a document, or None
    positive,   \* CACHE_PREFIX entries
    negative,   \* URLs with a NEGATIVE_CACHE_PREFIX entry
    stored,     \* OAuthStorage: the row of each CIMD client
    job,        \* what each request is doing
    failed,     \* history: URLs of which a fetch failed
    active, queue, place, ahead     \* the limiter

Limiter == INSTANCE ConcurrencyLimiter WITH Callers <- Reqs

limiter == <<active, queue, place, ahead>>
stores == <<positive, negative, stored>>
vars == <<web, positive, negative, stored, job, failed, limiter>>

FetchPcs == {"limited", "resolving", "downloading"}

\* `known` is history: the document that was stored when the request came in.
Job ==    {[pc |-> "new"]}
     \cup [pc : {"finding", "checkingFailures", "markingFailed"} \cup FetchPcs,
           url : Urls, known : Docs \cup {None}]
     \cup [pc : {"refilling", "upserting", "filling"},
           url : Urls, known : Docs \cup {None}, doc : Docs]
     \cup [pc : {"answered"}, url : Urls, known : Docs \cup {None},
           answer : Docs \cup {"refused", "error"}]

Go(r, pc) == job' = [job EXCEPT ![r] = [pc |-> pc, url |-> @.url, known |-> @.known]]
Carry(r, pc, doc) ==
    job' = [job EXCEPT ![r] = [pc |-> pc, url |-> @.url, known |-> @.known, doc |-> doc]]
Answer(r, answer) ==
    job' = [job EXCEPT ![r] = [pc |-> "answered", url |-> @.url, known |-> @.known,
                               answer |-> answer]]

Init ==
    /\ web \in [Urls -> Docs \cup {None}]
    /\ positive = [u \in Urls |-> None]
    /\ negative = {}
    /\ stored = [u \in Urls |-> None]
    /\ job = [r \in Reqs |-> [pc |-> "new"]]
    /\ failed = {}
    /\ Limiter!Init

-----------------------------------------------------------------------------
\* Fault: both caches are read before storage is.
ReadCache_MarkerFirst(r, u) ==
    /\ job[r].pc \in {"new", "answered"}
    /\ \/ /\ positive[u] # None
          /\ job' = [job EXCEPT ![r] = [pc |-> "answered", url |-> u, known |-> stored[u],
                                        answer |-> positive[u]]]
       \/ /\ positive[u] = None /\ u \in negative
          /\ job' = [job EXCEPT ![r] = [pc |-> "answered", url |-> u, known |-> stored[u],
                                        answer |-> "refused"]]
       \/ /\ positive[u] = None /\ u \notin negative
          /\ job' = [job EXCEPT ![r] = [pc |-> "finding", url |-> u, known |-> stored[u]]]
    /\ UNCHANGED <<web, stores, failed, limiter>>

\* The request comes in and reads the positive cache: a hit is the answer; a
\* miss or an outage goes on to storage.
ReadCache(r, u) ==
    /\ job[r].pc \in {"new", "answered"}
    /\ \/ /\ positive[u] # None
          /\ job' = [job EXCEPT ![r] = [pc |-> "answered", url |-> u, known |-> stored[u],
                                        answer |-> positive[u]]]
       \/ /\ positive[u] = None \/ Outages
          /\ job' = [job EXCEPT ![r] = [pc |-> "finding", url |-> u, known |-> stored[u]]]
    /\ UNCHANGED <<web, stores, failed, limiter>>

\* Fault: a storage outage is taken for a verdict on the client.
FindClient_Blames(r) ==
    /\ job[r].pc = "finding"
    /\ \/ stored[job[r].url] # None /\ Carry(r, "refilling", stored[job[r].url])
       \/ stored[job[r].url] = None /\ Go(r, "checkingFailures")
       \/ Outages /\ Go(r, "markingFailed")
    /\ UNCHANGED <<web, stores, failed, limiter>>

\* storage.findClient, "left unguarded deliberately": a rejection is a 500.
FindClient(r) ==
    /\ job[r].pc = "finding"
    /\ \/ stored[job[r].url] # None /\ Carry(r, "refilling", stored[job[r].url])
       \/ stored[job[r].url] = None /\ Go(r, "checkingFailures")
       \/ Outages /\ Answer(r, "error")
    /\ UNCHANGED <<web, stores, failed, limiter>>

\* A document's cache.set, whose rejection is swallowed, and the answer: the
\* end of the stored branch ("refilling") and of a fetch ("filling").
CacheDocument(r) ==
    /\ job[r].pc \in {"refilling", "filling"}
    /\ \/ positive' = [positive EXCEPT ![job[r].url] = job[r].doc]
       \/ Outages /\ UNCHANGED positive
    /\ Answer(r, job[r].doc)
    /\ UNCHANGED <<web, negative, stored, failed, limiter>>

\* A live failure marker is the answer; without one, or when the cache is out,
\* the request asks the limiter for a slot.
CheckFailures(r) ==
    /\ job[r].pc = "checkingFailures"
    /\ \/ job[r].url \in negative /\ Answer(r, "refused") /\ UNCHANGED limiter
       \/ /\ job[r].url \notin negative \/ Outages
          /\ Go(r, "limited")
          /\ Limiter!Acquire(r)
    /\ UNCHANGED <<web, stores, failed>>

\* The slot is there and fetchCimd starts: assertPublicHost asks the resolver.
BeginFetch(r) ==
    /\ job[r].pc = "limited"
    /\ Limiter!Start(r)
    /\ Go(r, "resolving")
    /\ UNCHANGED <<web, stores, failed>>

\* Fault: an address that is refused leaves fetchCimd past the `finally`.
Resolve_KeepsSlot(r) ==
    /\ job[r].pc = "resolving"
    /\ \/ Go(r, "downloading") /\ UNCHANGED failed
       \/ Go(r, "markingFailed") /\ failed' = failed \cup {job[r].url}
    /\ UNCHANGED <<web, stores, limiter>>

\* dns.lookup settles: public addresses, or a private one or an error, which
\* rejects the task with an OAuthError and gives the slot back.
Resolve(r) ==
    /\ job[r].pc = "resolving"
    /\ \/ Go(r, "downloading") /\ UNCHANGED <<failed, limiter>>
       \/ /\ Limiter!Settle(r)
          /\ Go(r, "markingFailed")
          /\ failed' = failed \cup {job[r].url}
    /\ UNCHANGED <<web, stores>>

\* Fault: what the URL serves is not checked to be a valid document.
Download_Unchecked(r) ==
    /\ job[r].pc = "downloading"
    /\ Limiter!Settle(r)
    /\ \/ Carry(r, "upserting", web[job[r].url]) /\ UNCHANGED failed
       \/ Go(r, "markingFailed") /\ failed' = failed \cup {job[r].url}
    /\ UNCHANGED <<web, stores>>

\* The fetch ends, within TIMEOUT_MS: a valid document, or any of the failures
\* that are OAuthErrors (network, abort, status, size, JSON, schema).
Download(r) ==
    /\ job[r].pc = "downloading"
    /\ Limiter!Settle(r)
    /\ \/ /\ web[job[r].url] # None
          /\ Carry(r, "upserting", web[job[r].url])
          /\ UNCHANGED failed
       \/ Go(r, "markingFailed") /\ failed' = failed \cup {job[r].url}
    /\ UNCHANGED <<web, stores>>

\* The marker's cache.set, whose rejection is swallowed; the error is rethrown.
MarkFailed(r) ==
    /\ job[r].pc = "markingFailed"
    /\ \/ negative' = negative \cup {job[r].url}
       \/ Outages /\ UNCHANGED negative
    /\ Answer(r, "refused")
    /\ UNCHANGED <<web, positive, stored, failed, limiter>>

\* upsertCimdClient: inserts if absent; its result is not used, and its
\* rejection is logged.
Upsert(r) ==
    /\ job[r].pc = "upserting"
    /\ \/ stored' = [stored EXCEPT ![job[r].url] = IF @ = None THEN job[r].doc ELSE @]
       \/ Outages /\ UNCHANGED stored
    /\ Carry(r, "filling", job[r].doc)
    /\ UNCHANGED <<web, positive, negative, failed, limiter>>

\* A cache entry's ttl ends, or the cache loses it.
Expire(u) ==
    /\ \/ positive[u] # None /\ positive' = [positive EXCEPT ![u] = None] /\ UNCHANGED negative
       \/ u \in negative /\ negative' = negative \ {u} /\ UNCHANGED positive
    /\ UNCHANGED <<web, stored, job, failed, limiter>>

\* The client's owner publishes another document, or breaks the URL.
Publish(u, d) ==
    /\ web[u] # d
    /\ web' = [web EXCEPT ![u] = d]
    /\ UNCHANGED <<stores, job, failed, limiter>>

\* The steps that end at a call of ours that settles.
Proceed(r) ==
    \/ FindClient(r) \/ CacheDocument(r) \/ CheckFailures(r) \/ BeginFetch(r)
    \/ Download(r) \/ MarkFailed(r) \/ Upsert(r)

Next ==
    \/ \E r \in Reqs, u \in Urls : ReadCache(r, u)
    \/ \E r \in Reqs : Proceed(r) \/ Resolve(r)
    \/ \E u \in Urls : Expire(u)
    \/ \E u \in Urls, d \in Docs \cup {None} : Publish(u, d)

Spec == Init /\ [][Next]_vars

\* What the package itself can promise: its own continuations run, the cache
\* and storage answer, and TIMEOUT_MS ends every download.
PackageFairness == \A r \in Reqs : WF_vars(Proceed(r))

\* Moreover, the operating system's resolver answers: assertPublicHost runs
\* before the timer of fetchCimd is started, so nothing of the package ends it.
FairSpec == Spec /\ PackageFairness /\ \A r \in Reqs : WF_vars(Resolve(r))

-----------------------------------------------------------------------------
\* Type invariant.
TypeOK ==
    /\ web \in [Urls -> Docs \cup {None}]
    /\ positive \in [Urls -> Docs \cup {None}]
    /\ negative \subseteq Urls
    /\ stored \in [Urls -> Docs \cup {None}]
    /\ job \in [Reqs -> Job]
    /\ failed \subseteq Urls
    /\ Limiter!TypeOK

\* A slot is held by the requests that fetch and by no other, on every way out
\* of fetchCimd, and no more than cimdFetchConcurrency are held: an error path
\* that kept its slot would shrink the limiter for good.
SlotsAreFetches ==
    /\ \A r \in Reqs : place[r] # "outside" <=> job[r].pc \in FetchPcs
    /\ Limiter!CapHeld
    /\ Limiter!NoSlotLeaks

\* A client is told "your document cannot be used" only if a fetch of that very
\* URL failed, never because the cache or storage was out (cimd.ts: a storage
\* failure is "not a statement about the client's own CIMD document").
VerdictsAreEarned ==
    /\ negative \subseteq failed
    /\ \A r \in Reqs : (job[r].pc = "answered" /\ job[r].answer = "refused")
                          => job[r].url \in failed

\* A request that comes in when its client's document is stored is never fetched for
\* and never refused, whatever its URL serves, whatever failed before and whichever
\* fetches for the URL are still in flight: it is answered from the cache or from
\* storage, whose row is still the same (cimd.ts: "storage/the success cache winning
\* first").  What the cache holds then is FirstDocumentForever's business.
StoredWins ==
    \A r \in Reqs : (job[r].pc # "new" /\ job[r].known # None) =>
       /\ job[r].known = stored[job[r].url]
       /\ job[r].pc \in {"finding", "refilling", "answered"}
       /\ job[r].pc = "refilling" => job[r].doc = job[r].known
       /\ job[r].pc = "answered" => job[r].answer # "refused"

\* A document is stored, the cache agrees, and so does every document that a request
\* still carries; no request may still fetch another one.
Settled(u) ==
    /\ stored[u] # None
    /\ positive[u] \in {None, stored[u]}
    /\ \A r \in Reqs : (job[r].pc \notin {"new", "answered"} /\ job[r].url = u) =>
          \/ job[r].pc \in {"finding", "markingFailed"}
          \/ job[r].pc \in {"refilling", "upserting", "filling"} /\ job[r].doc = stored[u]

\* When the race for the first document is over, it is over for good: from a settled
\* state on, whatever the URL serves later and whatever fails, the state is settled
\* with that same document, no request comes to a failure, and every answer is the
\* document or an outage, except to a request whose own fetch had failed already.
SettledForGood ==
    [][\A u \in Urls : Settled(u) =>
          /\ Settled(u)'
          /\ stored'[u] = stored[u]
          /\ \A r \in Reqs :
                (job'[r] # job[r] /\ job'[r].pc \in {"markingFailed", "answered"}
                                 /\ job'[r].url = u)
                   => /\ job'[r].pc = "answered"
                      /\ \/ job'[r].answer \in {stored[u], "error"}
                         \/ job[r].pc = "markingFailed"]_vars

\* Every resolution is answered, as long as the resolver answers.
EveryResolutionAnswered ==
    \A r \in Reqs : job[r].pc \notin {"new", "answered"} ~> job[r].pc = "answered"

-----------------------------------------------------------------------------
(* What the repository says of this code, and the code does not do.        *)

\* "A URL that failed recently and has since been fixed (and so now HAS a real
\* document) must never be shadowed by a stale failure marker; storage/the
\* success cache winning first, unconditionally, is what guarantees that."
NeverShadowed ==
    [][\A r \in Reqs :
          (job[r].pc = "checkingFailures" /\ job'[r].pc = "answered")
             => stored[job[r].url] = None]_vars

\* "Keeps serving the originally stored document forever, even after the live
\* document changes and the cache is bypassed": a request that comes in when a
\* document is stored is answered with it.
FirstDocumentForever ==
    \A r \in Reqs :
       (job[r].pc = "answered" /\ job[r].known # None /\ job[r].answer \in Docs)
          => job[r].answer = job[r].known
=============================================================================
