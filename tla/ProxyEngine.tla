----------------------------- MODULE ProxyEngine -----------------------------
(***************************************************************************)
(* The reverse proxy: Engine.ServeHTTP with the limiter, the local 304     *)
(* answers, the zero-copy hand-over, the failover of the transport, and    *)
(* the processing of the response.  Requests run concurrently; purges      *)
(* raise the generations that cache and validator keys carry, of every     *)
(* source of a repository or of one source only.  CacheGenerations has the *)
(* three numbers of a key and how they are kept; here they are the epoch   *)
(* of the last purge that covers the key.                                  *)
(*                                                                         *)
(* What a response holds is abstracted to the epoch in which its body was  *)
(* read from the origin (0: no body).                                      *)
(***************************************************************************)
EXTENDS RequestLimiter, MetadataValidators

CONSTANTS
  Requests,        \* requests of the clients
  Sources,         \* upstreams
  Orders,          \* orders in which a routing snapshot ranks the enabled ones
  Calls,           \* what clients ask for
  Profile,         \* of every repository: cache, rewrite, follow
  MaxEpoch         \* bound: purges

ASSUME ProxyAssumption ==
  /\ MaxEpoch \in Nat \ {0}
  /\ Orders \subseteq Seq(Sources) \ {<<>>}
  /\ Calls \subseteq [ip : Addresses, repo : Repositories, kind : {"object", "auxiliary", "adapter", "token"},
                      plain : BOOLEAN, match : BOOLEAN, head : BOOLEAN, accel : BOOLEAN]
  /\ Profile \in [Repositories -> [cache : BOOLEAN, rewrite : BOOLEAN, follow : BOOLEAN]]

VARIABLES
  epoch,       \* one more than the number of purges so far
  generation,  \* what new keys carry: the epoch of the last purge covering them
  nginxCache,  \* bodies the data plane holds, by cache key
  request,     \* every request of a client
  recorded     \* auxiliary: how often finishRequest ran for it

purgeVars == <<epoch, generation>>
proxyVars == <<limiterVars, validatorVars, purgeVars, nginxCache, request, recorded>>

NoRequest == [pc |-> "idle"]
Call(r) == request[r].call
ProfileOf(r) == Profile[Call(r).repo]
Serving == {r \in Requests : request[r].pc \notin {"idle", "handed", "done"}}

(* Manager.Key with the partitions of the representation: the repository,  *)
(* the identity of the source (an upstream, the root of its origin for an  *)
(* auxiliary resource, the target of an adapter), the generation.          *)
KeySources == Sources \cup {"root", "target"}
KeyOf(repo, source) == <<repo, source, generation[<<repo, source>>]>>
ValidatorKey(key) == key

Follows(r) == Call(r).kind = "token" \/ ProfileOf(r).follow

(* validatorRequestCacheable, token routes excepted. *)
ValidatorCacheable(call) == call.kind # "token" /\ Profile[call.repo].cache /\ call.plain

Move(r, pc) == request' = [request EXCEPT ![r].pc = pc]

(* What is left of a request that was answered: whether its content is     *)
(* older than the last purge, before the request, that covers the key it   *)
(* was found under, and how many candidates were not tried.                *)
Finished(answer, stale, spared) ==
  [pc |-> "done", answer |-> answer, stale |-> stale, spared |-> spared]
AnswerWith(r, answer, body) ==
  request' = [request EXCEPT ![r] = Finished(answer, body < request[r].since[request[r].key[2]], 0)]
Answered(r, answer) == request' = [request EXCEPT ![r] = Finished(answer, FALSE, 0)]

(* finishRequest, then the deferred release. *)
FinishRequest(r) ==
  /\ recorded' = [recorded EXCEPT ![r] = @ + 1]
  /\ Release(Call(r).ip, Call(r).repo)
(* The handler ends without finishRequest. *)
LeaveUnrecorded(r) == Release(Call(r).ip, Call(r).repo) /\ UNCHANGED recorded

-----------------------------------------------------------------------------
(* orderedRequestUpstreams; an auxiliary route keeps the upstream it was   *)
(* signed for, and an adapter or token target takes their place.           *)
CandidatesOf(call, list) ==
  CASE call.kind = "object"    -> list
    [] call.kind = "auxiliary" -> <<"root">>
    [] OTHER                   -> <<"target">>

(* The keys are made for activeRepositoryUpstream, which is the first of   *)
(* the candidates (HealthChecker shows it).                                *)
NewRequest(call, list) ==
  [pc |-> "lookup", call |-> call, order |-> CandidatesOf(call, list), next |-> 1,
   since |-> [s \in KeySources |-> generation[<<call.repo, s>>]],
   key |-> KeyOf(call.repo, Head(CandidatesOf(call, list))),
   cacheable |-> ValidatorCacheable(call), status |-> "none", body |-> 0]

(* Routing, method or access policy refuse the request; or the limiter     *)
(* does; or, acquired and released on the spot, the repository has no      *)
(* enabled upstream, the target fails the policy of the repository or the  *)
(* generations cannot be read.                                             *)
Refuse(r) ==
  /\ request[r].pc = "idle"
  /\ Answered(r, "refused")
  /\ UNCHANGED <<limiterVars, validatorVars, purgeVars, nginxCache, recorded>>

(* The limiter admits the request and its keys are computed. *)
Accept(r) ==
  /\ request[r].pc = "idle"
  /\ \E call \in Calls, list \in Orders :
       /\ Acquire(call.ip, call.repo)
       /\ request' = [request EXCEPT ![r] = NewRequest(call, list)]
  /\ UNCHANGED <<validatorVars, purgeVars, nginxCache, recorded>>

-----------------------------------------------------------------------------
LooksUp(r) == request[r].pc = "lookup" /\ ProfileOf(r).rewrite /\ request[r].cacheable
Hit(r) == ValidatorKey(request[r].key) \in DOMAIN entries

(* A stored validator the client's condition matches: 304. *)
NotModified(r) ==
  /\ LooksUp(r) /\ Hit(r) /\ Call(r).match
  /\ Get(ValidatorKey(request[r].key), FALSE)
  /\ AnswerWith(r, "notmodified", entries[ValidatorKey(request[r].key)])
  /\ FinishRequest(r)
  /\ UNCHANGED <<purgeVars, nginxCache>>

(* What the data plane stores; token routes and repositories without a     *)
(* cache bypass it.                                                        *)
Bypasses(r) == Call(r).kind = "token" \/ ~ProfileOf(r).cache
Stored(key, body) ==
  [k \in DOMAIN nginxCache \cup {key} |-> IF k = key THEN body ELSE nginxCache[k]]

Accelerates(r) ==
  /\ Call(r).accel /\ Call(r).kind \in {"object", "auxiliary"}
  /\ ~ProfileOf(r).rewrite /\ ~Follows(r) /\ Len(request[r].order) = 1

(* No validator, an expired one, or a condition it does not match: on to   *)
(* the zero-copy hand-over or to the transport.                            *)
NoValidator(r) ==
  /\ request[r].pc = "lookup"
  /\ \/ LooksUp(r) /\ Hit(r) /\ Get(ValidatorKey(request[r].key), TRUE)
     \/ ~(LooksUp(r) /\ Hit(r) /\ Call(r).match) /\ UNCHANGED validatorVars
  /\ IF Accelerates(r)
     THEN Move(r, "handed") /\ FinishRequest(r)
     ELSE Move(r, "candidate") /\ UNCHANGED <<limiterVars, recorded>>
  /\ UNCHANGED <<purgeVars, nginxCache>>

(* The front Nginx fetches what X-Accel-Redirect names, with this key. *)
HandedOver(r) ==
  /\ request[r].pc = "handed"
  /\ \/ /\ request[r].key \in DOMAIN nginxCache
        /\ AnswerWith(r, "content", nginxCache[request[r].key])
        /\ UNCHANGED nginxCache
     \/ /\ AnswerWith(r, "content", epoch)
        /\ nginxCache' = IF Bypasses(r) THEN nginxCache ELSE Stored(request[r].key, epoch)
     \/ Answered(r, "error") /\ UNCHANGED nginxCache
  /\ UNCHANGED <<limiterVars, validatorVars, purgeVars, recorded>>

-----------------------------------------------------------------------------
(* metaForUpstream: each candidate gets its keys from the generation of    *)
(* the moment; an adapter target keeps those of ServeHTTP.                 *)
MetaForUpstream(r) ==
  /\ request[r].pc = "candidate"
  /\ request' = [request EXCEPT ![r].pc = "fetch",
                   ![r].key = IF Call(r).kind \in {"object", "auxiliary"}
                              THEN KeyOf(Call(r).repo, request[r].order[request[r].next]) ELSE @]
  /\ UNCHANGED <<limiterVars, validatorVars, purgeVars, nginxCache, recorded>>

(* The generations cannot be read, or the URL of the candidate cannot be   *)
(* made: the transport gives up and errorHandler answers.                  *)
MetaFails(r) ==
  /\ request[r].pc = "candidate"
  /\ Answered(r, "error") /\ FinishRequest(r)
  /\ UNCHANGED <<validatorVars, purgeVars, nginxCache>>

(* The data plane answers 200: from its cache, or from the origin, and     *)
(* stores what it read.  A request that is not plain (credentials, range)  *)
(* may bypass the cache.                                                   *)
Fetched(r, cacheable) ==
  \/ /\ ~Bypasses(r) /\ request[r].key \in DOMAIN nginxCache
     /\ request' = [request EXCEPT ![r].body = nginxCache[request[r].key], ![r].cacheable = cacheable,
                                   ![r].pc = "modify", ![r].status = "ok"]
     /\ UNCHANGED nginxCache
  \/ /\ request' = [request EXCEPT ![r].body = epoch, ![r].cacheable = cacheable,
                                   ![r].pc = "modify", ![r].status = "ok"]
     /\ \/ ~Bypasses(r) /\ nginxCache' = Stored(request[r].key, epoch)
        \/ (Bypasses(r) \/ ~Call(r).plain) /\ UNCHANGED nginxCache

Fetch(r) ==
  /\ request[r].pc = "fetch"
  /\ Fetched(r, request[r].cacheable)
  /\ UNCHANGED <<limiterVars, validatorVars, purgeVars, recorded>>

(* Another status that is neither retried nor followed. *)
FetchOther(r) ==
  /\ request[r].pc \in {"fetch", "hop"}
  /\ request' = [request EXCEPT ![r].pc = "modify", ![r].status = "other",
                                ![r].cacheable = @ /\ request[r].pc = "fetch"]
  /\ UNCHANGED <<limiterVars, validatorVars, purgeVars, nginxCache, recorded>>

(* A redirect that is followed: see RedirectChain. *)
FetchRedirect(r) ==
  /\ request[r].pc = "fetch" /\ Follows(r)
  /\ Move(r, "hop")
  /\ UNCHANGED <<limiterVars, validatorVars, purgeVars, nginxCache, recorded>>

(* The end of the chain, under the key of the first request. *)
FollowRedirects(r) ==
  /\ request[r].pc = "hop"
  /\ Fetched(r, FALSE)
  /\ UNCHANGED <<limiterVars, validatorVars, purgeVars, recorded>>

FollowFails(r) ==
  /\ request[r].pc = "hop"
  /\ Answered(r, "error") /\ FinishRequest(r)
  /\ UNCHANGED <<validatorVars, purgeVars, nginxCache>>

(* spared counts the candidates that were not tried. *)
Candidates(r) == Len(request[r].order)
Unavailable(r, answer) ==
  request' = [request EXCEPT ![r] = Finished(answer, FALSE, Candidates(r) - @.next)]

(* Mutant: an error of the connection is final. *)
FetchFails_NoRetry(r) ==
  /\ request[r].pc = "fetch"
  /\ Unavailable(r, "unavailable") /\ FinishRequest(r)
  /\ UNCHANGED <<validatorVars, purgeVars, nginxCache>>

(* An error, the policy on the target among them, or 502, 503, 504: the    *)
(* next candidate.  Of the last one an error goes to errorHandler; a       *)
(* response goes on with its body closed.                                  *)
FetchFails(r) ==
  /\ request[r].pc = "fetch"
  /\ \/ /\ request[r].next < Candidates(r)
        /\ request' = [request EXCEPT ![r].pc = "candidate", ![r].next = @ + 1]
        /\ UNCHANGED <<limiterVars, recorded>>
     \/ /\ request[r].next = Candidates(r)
        /\ Unavailable(r, "unavailable") /\ FinishRequest(r)
     \/ /\ request[r].next = Candidates(r)
        /\ request' = [request EXCEPT ![r].pc = "modify", ![r].status = "closed"]
        /\ UNCHANGED <<limiterVars, recorded>>
  /\ UNCHANGED <<validatorVars, purgeVars, nginxCache>>

-----------------------------------------------------------------------------
(* modifyResponse: the stored validator goes; a 200 of a GET whose type    *)
(* is rewritten, for the repository or for the appearance of its listings, *)
(* goes on to the rewriting.                                               *)
ModifyResponse(r) ==
  /\ request[r].pc = "modify"
  /\ RemoveValidator(ValidatorKey(request[r].key))
  /\ \/ Move(r, "copy")
     \/ request[r].status = "ok" /\ ~Call(r).head /\ Move(r, "rewrite")
  /\ UNCHANGED <<limiterVars, purgeVars, nginxCache, recorded>>

(* A challenge rewriteBearerChallenges refuses: errorHandler. *)
ChallengeRefused(r) ==
  /\ request[r].pc = "modify" /\ request[r].status = "other"
  /\ RemoveValidator(ValidatorKey(request[r].key))
  /\ Answered(r, "error") /\ FinishRequest(r)
  /\ UNCHANGED <<purgeVars, nginxCache>>

(* Mutant: the validator is stored under a key of the moment. *)
StoreValidator_Late(r) ==
  /\ request[r].pc = "rewrite" /\ request[r].cacheable
  /\ Put(ValidatorKey(KeyOf(request[r].key[1], request[r].key[2])), request[r].body)
  /\ Move(r, "copy")
  /\ UNCHANGED <<limiterVars, purgeVars, nginxCache, recorded>>

(* The body is rewritten; storeMetadataValidator keeps its validator when  *)
(* request and response allow it.                                          *)
StoreValidator(r) ==
  /\ request[r].pc = "rewrite" /\ request[r].cacheable
  /\ Put(ValidatorKey(request[r].key), request[r].body)
  /\ Move(r, "copy")
  /\ UNCHANGED <<limiterVars, purgeVars, nginxCache, recorded>>

(* The response is not fresh or not public, or the request not cacheable. *)
DropValidator(r) ==
  /\ request[r].pc = "rewrite"
  /\ RemoveValidator(ValidatorKey(request[r].key))
  /\ Move(r, "copy")
  /\ UNCHANGED <<limiterVars, purgeVars, nginxCache, recorded>>

(* Too large, compressed, or unreadable: errorHandler. *)
RewriteFails(r) ==
  /\ request[r].pc = "rewrite"
  /\ Answered(r, "error") /\ FinishRequest(r)
  /\ UNCHANGED <<validatorVars, purgeVars, nginxCache>>

(* The body is copied to the client. *)
CopyResponse(r) ==
  /\ request[r].pc = "copy" /\ (request[r].status # "closed" \/ Call(r).head)
  /\ CASE request[r].status = "ok"     -> AnswerWith(r, "content", request[r].body)
       [] request[r].status = "other"  -> Answered(r, "error")
       [] request[r].status = "closed" -> Unavailable(r, "unavailable")
  /\ FinishRequest(r)
  /\ UNCHANGED <<validatorVars, purgeVars, nginxCache>>

(* The copy fails, at the client or at a closed body: ReverseProxy panics  *)
(* with ErrAbortHandler, the deferred calls run, finishRequest does not.   *)
CopyAborts(r) ==
  /\ request[r].pc = "copy" /\ ~Call(r).head
  /\ IF request[r].status = "closed" THEN Unavailable(r, "cut") ELSE Answered(r, "aborted")
  /\ LeaveUnrecorded(r)
  /\ UNCHANGED <<validatorVars, purgeVars, nginxCache>>

Purge(covered) ==
  /\ epoch < MaxEpoch /\ epoch' = epoch + 1
  /\ generation' = [k \in Repositories \X KeySources |->
                      IF k \in covered THEN epoch + 1 ELSE generation[k]]
  /\ UNCHANGED <<limiterVars, validatorVars, nginxCache, request, recorded>>

(* A purge of one repository or of everything covers every source. *)
PurgeContent ==
  \E M \in {{m} : m \in Repositories} \cup {Repositories} : Purge(M \X KeySources)

(* purgeRepositoryCache with a path: the object of the active upstream. *)
PurgeObject == \E m \in Repositories, list \in Orders : Purge({<<m, Head(list)>>})

ProxyInit ==
  /\ LimiterInit /\ ValidatorsInit
  /\ epoch = 1 /\ generation = [k \in Repositories \X KeySources |-> 1]
  /\ nginxCache = <<>>
  /\ request = [r \in Requests |-> NoRequest]
  /\ recorded = [r \in Requests |-> 0]

ProxyNext ==
  \/ \E r \in Requests :
       \/ Refuse(r) \/ Accept(r)
       \/ NotModified(r) \/ NoValidator(r) \/ HandedOver(r)
       \/ MetaForUpstream(r) \/ MetaFails(r)
       \/ Fetch(r) \/ FetchOther(r) \/ FetchFails(r)
       \/ FetchRedirect(r) \/ FollowRedirects(r) \/ FollowFails(r)
       \/ ModifyResponse(r) \/ ChallengeRefused(r) \/ StoreValidator(r) \/ DropValidator(r) \/ RewriteFails(r)
       \/ CopyResponse(r) \/ CopyAborts(r)
  \/ PurgeContent \/ PurgeObject

ProxySpec == ProxyInit /\ [][ProxyNext]_proxyVars

-----------------------------------------------------------------------------
(* Every variable has its type. *)
ProxyTypeOK ==
  /\ epoch \in 1..MaxEpoch /\ generation \in [Repositories \X KeySources -> 1..epoch]
  /\ \A r \in Requests :
       /\ request[r].pc \in {"idle", "lookup", "handed", "candidate", "fetch", "hop", "modify",
                             "rewrite", "copy", "done"}
       /\ request[r].pc \notin {"idle", "done"} =>
            /\ request[r].call \in Calls /\ request[r].order \in Orders \cup {<<"root">>, <<"target">>}
            /\ request[r].next \in 1..Candidates(r)
            /\ request[r].since \in [KeySources -> 1..epoch] /\ request[r].body \in 0..epoch
  /\ recorded \in [Requests -> 0..1]
  /\ \A k \in DOMAIN nginxCache : nginxCache[k] \in 1..epoch
  /\ \A k \in DOMAIN entries : entries[k] \in 1..epoch

(* The limiter counts exactly the requests whose handler is running, per   *)
(* address and per repository, on whatever path they leave: errors,        *)
(* aborted copies, local answers, hand-overs; so no slot leaks and no map  *)
(* entry stays behind (ServeHTTP's deferred release).                      *)
LimiterAccounts ==
  LET From(ip) == {r \in Serving : Call(r).ip = ip}
      To(m) == {r \in Serving : Call(r).repo = m}
  IN /\ total = Cardinality(Serving)
     /\ byIP = [ip \in {Call(r).ip : r \in Serving} |-> Cardinality(From(ip))]
     /\ byMirror = [m \in {Call(r).repo : r \in Serving} |-> Cardinality(To(m))]

(* However requests overlap, the handlers of one address, one repository   *)
(* and of all stay within their limits (Limiter.Acquire).                  *)
LimitsHold ==
  /\ MaxTotal > 0 => Cardinality(Serving) <= MaxTotal
  /\ MaxIP > 0 => \A ip \in Addresses : Cardinality({r \in Serving : Call(r).ip = ip}) <= MaxIP
  /\ \A m \in Repositories : MirrorMax[m] > 0 =>
       Cardinality({r \in Serving : Call(r).repo = m}) <= MirrorMax[m]

(* A request that begins after a purge is never answered, with a body or   *)
(* with a local 304, from what was read from the origin before that purge, *)
(* although requests from before it complete and store their results       *)
(* afterwards (cache keys and validator keys carry the generation).  For a *)
(* purge of a repository or of everything this holds of every answer; a    *)
(* purge of an object covers the answers of the upstream that was active   *)
(* (purgeRepositoryCache), not those of another upstream, of an adapter    *)
(* target or of an auxiliary resource, see PathPurged in CacheGenerations. *)
PurgeHonoured ==
  \A r \in Requests :
    request[r].pc = "done" /\ request[r].answer \in {"content", "notmodified"} =>
      ~request[r].stale

(* The store of validators keeps its capacity, and every entry has a slot  *)
(* in the order, so that it can be evicted, whatever the sequence of       *)
(* removals, expiries and insertions (metadataValidators).                 *)
ValidatorsBounded ==
  Cardinality(DOMAIN entries) <= MaxEntries /\ DOMAIN entries \subseteq Slots(order)

(* What requests share stays within its bounds and leaks nothing: the      *)
(* slots of the limiter and the entries of the validator store.            *)
ResourcesBounded == LimiterAccounts /\ LimitsHold /\ ValidatorsBounded

(* A request fails for its upstreams only when each of its candidates      *)
(* failed it (the failover loop of RoundTrip).                             *)
ErrorMeansAllFailed ==
  \A r \in Requests :
    request[r].pc = "done" /\ request[r].answer \in {"unavailable", "cut"} => request[r].spared = 0

(* The order of the validators stays within twice their capacity, the      *)
(* length at which put compacts it.                                        *)
OrderBounded == Len(order) <= 2 * MaxEntries

(* A request the data plane failed counts in the statistics of its         *)
(* repository.                                                             *)
FailureRecorded ==
  \A r \in Requests : request[r].pc = "done" /\ request[r].answer = "cut" => recorded[r] = 1
==============================================================================
