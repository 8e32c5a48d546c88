----------------------------- MODULE ProxyProofs -----------------------------
(***************************************************************************)
(* Proofs about the proxy engine, its request limiter and its store of     *)
(* validators: for any sets of requests, addresses and repositories, any   *)
(* lists of candidates, any limits and any number of purges.  ProxyInv     *)
(* relates generations: a request, the key it asks with, what it is given. *)
(* Every step of a request is shown to be one of four effects first; the   *)
(* invariants of the limiter and of the store follow from the effects.     *)
(* Then, each on its own, the redirects of one request, the routing of     *)
(* repositories and the health checker.                                    *)
(***************************************************************************)
EXTENDS ProxyEngine, RedirectChain, RepositoryRoutes, HealthChecker,
        FiniteSetTheorems, SequenceTheorems, WellFoundedInduction, TLAPS

-----------------------------------------------------------------------------
(* A request that is being served, and one that was answered. *)
Generations == 1..MaxEpoch
Places == {"lookup", "handed", "candidate", "fetch", "hop", "modify", "rewrite", "copy"}
KeyType == Repositories \X KeySources \X Generations
OrderType == Orders \cup {<<"root">>, <<"target">>}
LiveType ==
  [pc: Places, call: Calls, order: OrderType, next: Nat, since: [KeySources -> Generations],
   key: KeyType, cacheable: BOOLEAN, status: {"none", "ok", "other", "closed"}, body: Nat]
DoneType ==
  [pc: {"done"},
   answer: {"refused", "content", "notmodified", "error", "unavailable", "cut", "aborted"},
   stale: BOOLEAN, spared: Int]
RequestType == {NoRequest} \cup LiveType \cup DoneType

(* The place of a request tells what it carries.                           *)
LEMMA ByPlace ==
  ASSUME NEW q \in RequestType
  PROVE  /\ q.pc \notin {"idle", "done"} => q \in LiveType
         /\ q.pc = "done" => q \in DoneType
  BY DEF RequestType, LiveType, DoneType, NoRequest, Places

(* The fields of a request that is being served. *)
LEMMA LiveFields ==
  ASSUME NEW q \in LiveType
  PROVE  /\ q \in RequestType /\ q.pc \in Places /\ q.call \in Calls /\ q.next \in Nat
         /\ q.order \in OrderType /\ q.key[2] \in KeySources
         /\ q.since \in [KeySources -> Generations] /\ (\A s \in KeySources : q.since[s] \in Nat)
         /\ q.key \in KeyType /\ q.key[3] \in Nat /\ q.body \in Nat
         /\ q.status \in {"none", "ok", "other", "closed"} /\ q.cacheable \in BOOLEAN
<1>1. /\ q.pc \in Places /\ q.call \in Calls /\ q.next \in Nat
      /\ q.order \in OrderType
      /\ q.since \in [KeySources -> Generations] /\ q.key \in KeyType /\ q.body \in Nat
      /\ q.status \in {"none", "ok", "other", "closed"} /\ q.cacheable \in BOOLEAN
  BY Zenon DEF LiveType
<1>2. q.key[2] \in KeySources /\ q.key[3] \in Generations
  BY <1>1 DEF KeyType
<1>3. q \in RequestType
  BY DEF RequestType
<1>. QED
  BY <1>1, <1>2, <1>3, ProxyAssumption DEF Generations

(* What a step makes of a request that goes on: one operator per form. *)
At(q, p) == [q EXCEPT !.pc = p]
Keyed(q, k) == [q EXCEPT !.pc = "fetch", !.key = k]
Got(q, b, c) == [q EXCEPT !.body = b, !.cacheable = c, !.pc = "modify", !.status = "ok"]
GotOther(q, c) == [q EXCEPT !.pc = "modify", !.status = "other", !.cacheable = c]
NextOne(q) == [q EXCEPT !.pc = "candidate", !.next = q.next + 1]
Closed(q) == [q EXCEPT !.pc = "modify", !.status = "closed"]

(* A request at its next place.                                            *)
LEMMA AtIs ==
  ASSUME NEW q \in LiveType, NEW p \in Places
  PROVE  /\ At(q, p) \in LiveType /\ At(q, p).pc = p /\ At(q, p).key = q.key
         /\ At(q, p).since = q.since /\ At(q, p).status = q.status /\ At(q, p).body = q.body
         /\ At(q, p).next = q.next /\ At(q, p).order = q.order /\ At(q, p).call = q.call
  BY Zenon DEF LiveType, At
(* A request with the cache key of a candidate.                            *)
LEMMA KeyedIs ==
  ASSUME NEW q \in LiveType, NEW k \in KeyType
  PROVE  /\ Keyed(q, k) \in LiveType /\ Keyed(q, k).pc = "fetch" /\ Keyed(q, k).key = k
         /\ Keyed(q, k).since = q.since /\ Keyed(q, k).status = q.status
         /\ Keyed(q, k).body = q.body /\ Keyed(q, k).next = q.next
         /\ Keyed(q, k).order = q.order /\ Keyed(q, k).call = q.call
<1>1. "fetch" \in Places
  BY DEF Places
<1>. QED
  BY <1>1, Zenon DEF LiveType, Keyed
(* A request that received a body.                                         *)
LEMMA GotIs ==
  ASSUME NEW q \in LiveType, NEW b \in Nat, NEW c \in BOOLEAN
  PROVE  /\ Got(q, b, c) \in LiveType /\ Got(q, b, c).pc = "modify" /\ Got(q, b, c).key = q.key
         /\ Got(q, b, c).since = q.since /\ Got(q, b, c).status = "ok"
         /\ Got(q, b, c).body = b /\ Got(q, b, c).next = q.next
         /\ Got(q, b, c).order = q.order /\ Got(q, b, c).call = q.call
<1>1. "modify" \in Places
  BY DEF Places
<1>. QED
  BY <1>1, Zenon DEF LiveType, Got
(* A request that received another status.                                 *)
LEMMA GotOtherIs ==
  ASSUME NEW q \in LiveType, NEW c \in BOOLEAN
  PROVE  /\ GotOther(q, c) \in LiveType /\ GotOther(q, c).pc = "modify"
         /\ GotOther(q, c).key = q.key
         /\ GotOther(q, c).since = q.since /\ GotOther(q, c).status = "other"
         /\ GotOther(q, c).body = q.body /\ GotOther(q, c).next = q.next
         /\ GotOther(q, c).order = q.order /\ GotOther(q, c).call = q.call
<1>1. "modify" \in Places
  BY DEF Places
<1>. QED
  BY <1>1, Zenon DEF LiveType, GotOther
(* A request at its next candidate.                                        *)
LEMMA NextOneIs ==
  ASSUME NEW q \in LiveType
  PROVE  /\ NextOne(q) \in LiveType /\ NextOne(q).pc = "candidate" /\ NextOne(q).key = q.key
         /\ NextOne(q).since = q.since /\ NextOne(q).status = q.status
         /\ NextOne(q).body = q.body /\ NextOne(q).next = q.next + 1
         /\ NextOne(q).order = q.order /\ NextOne(q).call = q.call
<1>1. "candidate" \in Places
  BY DEF Places
<1>2. q.next + 1 \in Nat
  BY LiveFields
<1>. QED
  BY <1>1, <1>2, Zenon DEF LiveType, NextOne
(* A request that received a broken connection.                            *)
LEMMA ClosedIs ==
  ASSUME NEW q \in LiveType
  PROVE  /\ Closed(q) \in LiveType /\ Closed(q).pc = "modify" /\ Closed(q).key = q.key
         /\ Closed(q).since = q.since /\ Closed(q).status = "closed"
         /\ Closed(q).body = q.body /\ Closed(q).next = q.next
         /\ Closed(q).order = q.order /\ Closed(q).call = q.call
<1>1. "modify" \in Places
  BY DEF Places
<1>. QED
  BY <1>1, Zenon DEF LiveType, Closed
(* A request that was answered without content.                            *)
LEMMA FinishedIs ==
  ASSUME NEW a \in {"refused", "content", "notmodified", "error", "unavailable", "cut", "aborted"}
  PROVE  /\ Finished(a, FALSE, 0).pc = "done" /\ Finished(a, FALSE, 0).answer = a
         /\ Finished(a, FALSE, 0).stale = FALSE /\ Finished(a, FALSE, 0).spared = 0
         /\ Finished(a, FALSE, 0) \in RequestType
  BY DEF Finished, RequestType, DoneType

-----------------------------------------------------------------------------
(* Every cached body and validator is at least as new as the generation of *)
(* its key; the generation in the key of a request is one that its source  *)
(* had between the beginning of the request and now, generations only      *)
(* grow, and what a request fetched is at least as new as its key.         *)
GoodLive(q) ==
  /\ q.since[q.key[2]] <= q.key[3] /\ q.key[3] <= epoch
  /\ \A s \in KeySources : q.since[s] <= generation[<<q.call.repo, s>>]
  /\ q.status # "none" <=> q.pc \in {"modify", "rewrite", "copy"}
  /\ q.status = "ok" => q.key[3] <= q.body
  /\ q.body <= epoch
  /\ q.pc = "rewrite" => q.status = "ok"
  /\ q.next \in 1..Len(q.order)
  /\ q.call.kind = "object" => q.order \in Orders
  /\ q.status = "closed" => q.next = Len(q.order)
GoodDone(q) ==
  /\ q.answer \in {"content", "notmodified"} => ~q.stale
  /\ q.answer \in {"unavailable", "cut"} => q.spared = 0
Good(q) == (q.pc \in Places => GoodLive(q)) /\ (q.pc = "done" => GoodDone(q))
NewEnough(f) == \A k \in DOMAIN f : f[k] \in Nat /\ 1 <= f[k] /\ f[k] <= epoch /\ k[3] <= f[k]
RequestsInv ==
  /\ request \in [Requests -> RequestType] /\ \A r \in Requests : Good(request[r])
  /\ epoch \in Generations /\ generation \in [Repositories \X KeySources -> 1..epoch]
ProxyInv == RequestsInv /\ NewEnough(nginxCache) /\ NewEnough(entries)

Moves(r, q) == request' = [request EXCEPT ![r] = q] /\ q \in RequestType /\ Good(q)

(* What a step does to its request, to the limiter and to the statistics. *)
Running == {"lookup", "candidate", "fetch", "hop", "modify", "rewrite", "copy"}
Going(r) == \E q : Moves(r, q) /\ q.pc \in Running /\ q.call = request[r].call
Ended(r) == \E q : Moves(r, q) /\ q.pc \in {"handed", "done"}
Enters(r) ==
  /\ request[r].pc = "idle" /\ UNCHANGED recorded
  /\ \E q : /\ Moves(r, q) /\ q.pc = "lookup" /\ q.call \in Calls
            /\ Acquire(q.call.ip, q.call.repo)
Continues(r) == request[r].pc \in Running /\ Going(r) /\ UNCHANGED <<limiterVars, recorded>>
Leaves(r) == request[r].pc \in Running /\ Ended(r) /\ (FinishRequest(r) \/ LeaveUnrecorded(r))
Settles(r) == request[r].pc \notin Running /\ Ended(r) /\ UNCHANGED <<limiterVars, recorded>>
Effect(r) == Enters(r) \/ Continues(r) \/ Leaves(r) \/ Settles(r)

(* The invariant at the start.                                             *)
LEMMA ProxyStart == ProxyInit => ProxyInv
<1> SUFFICES ASSUME ProxyInit PROVE ProxyInv
  OBVIOUS
<1>1. NoRequest \in RequestType /\ Good(NoRequest)
  BY DEF NoRequest, RequestType, Good, Places
<1>2. RequestsInv
  BY <1>1, ProxyAssumption DEF ProxyInit, RequestsInv, Generations
<1>. QED
  BY <1>2 DEF ProxyInit, ProxyInv, NewEnough, ValidatorsInit

(* What the invariant says of the generation of a source.                  *)
LEMMA GenerationFields ==
  ASSUME ProxyInv, NEW m \in Repositories, NEW s \in KeySources
  PROVE  /\ generation[<<m, s>>] \in Nat /\ generation[<<m, s>>] \in Generations
         /\ generation[<<m, s>>] <= epoch /\ epoch \in Nat /\ epoch \in Generations
<1>1. /\ epoch \in Generations /\ generation \in [Repositories \X KeySources -> 1..epoch]
  BY DEF ProxyInv, RequestsInv
<1>2. generation[<<m, s>>] \in 1..epoch
  BY <1>1
<1>. QED
  BY <1>1, <1>2, ProxyAssumption DEF Generations

(* What the invariant says of a request that is being served.              *)
LEMMA Serves ==
  ASSUME ProxyInv, NEW r \in Requests, request[r].pc \notin {"idle", "done"}
  PROVE  /\ request[r] \in LiveType /\ GoodLive(request[r]) /\ epoch \in Nat
         /\ epoch \in Generations /\ request \in [Requests -> RequestType]
<1>1. request[r] \in LiveType
  BY ByPlace DEF ProxyInv, RequestsInv
<1>2. request[r].pc \in Places
  BY <1>1, LiveFields
<1>. QED
  BY <1>1, <1>2, ProxyAssumption DEF ProxyInv, RequestsInv, Good, Generations

(* A request that only moves on keeps what it has. *)
LEMMA MovesOn ==
  ASSUME ProxyInv, NEW r \in Requests, request[r].pc \notin {"idle", "done"},
         NEW p \in Places, Move(r, p),
         p = "rewrite" => request[r].status = "ok",
         request[r].status # "none" <=> p \in {"modify", "rewrite", "copy"}
  PROVE  (p \in Running => Going(r)) /\ (p = "handed" => Ended(r))
<1>1. request[r] \in LiveType /\ GoodLive(request[r]) /\ request \in [Requests -> RequestType]
  BY Serves
<1> DEFINE q == At(request[r], p)
<1>2. request' = [request EXCEPT ![r] = q]
  BY <1>1 DEF Move, At
<1>3. /\ q \in LiveType /\ q.pc = p /\ q.key = request[r].key
      /\ q.since = request[r].since /\ q.status = request[r].status
      /\ q.body = request[r].body /\ q.next = request[r].next
      /\ q.order = request[r].order /\ q.call = request[r].call
  BY <1>1, AtIs
<1> HIDE DEF q
<1>4. Good(q)
  BY <1>1, <1>3 DEF Good, GoodLive, Places
<1>5. Moves(r, q)
  BY <1>2, <1>3, <1>4, LiveFields DEF Moves
<1>. QED
  BY <1>3, <1>5 DEF Going, Ended

(* A request that is answered. *)
LEMMA AnswerMoves ==
  ASSUME NEW r \in Requests,
         NEW a \in {"refused", "content", "notmodified", "error", "unavailable", "cut", "aborted"},
         request' = [request EXCEPT ![r] = Finished(a, FALSE, 0)]
  PROVE  Ended(r)
<1> DEFINE q == Finished(a, FALSE, 0)
<1>1. q.pc = "done" /\ q.answer = a /\ q.stale = FALSE /\ q.spared = 0
  BY FinishedIs
<1>2. q \in RequestType
  BY FinishedIs
<1>3. request' = [request EXCEPT ![r] = q]
  OBVIOUS
<1> HIDE DEF q
<1>4. Good(q)
  BY <1>1 DEF Good, GoodDone, Places
<1>. QED
  BY <1>1, <1>2, <1>3, <1>4 DEF Moves, Ended

(* An answer without content ends the request.                             *)
LEMMA AnswersOther ==
  ASSUME NEW r \in Requests,
         NEW a \in {"refused", "error", "aborted"}, Answered(r, a)
  PROVE  Ended(r)
<1>1. request' = [request EXCEPT ![r] = Finished(a, FALSE, 0)]
  BY DEF Answered
<1>. QED
  BY <1>1, AnswerMoves

(* An answer with content that is as new as its cache key is not stale.    *)
LEMMA AnswersWith ==
  ASSUME ProxyInv, NEW r \in Requests, request[r].pc \notin {"idle", "done"},
         NEW a \in {"content", "notmodified"}, NEW b \in Nat, request[r].key[3] <= b,
         AnswerWith(r, a, b)
  PROVE  Ended(r)
<1>1. request[r] \in LiveType /\ GoodLive(request[r])
  BY Serves
<1>2. (b < request[r].since[request[r].key[2]]) = FALSE
  <2>1. /\ request[r].since[request[r].key[2]] \in Nat /\ request[r].key[3] \in Nat
        /\ request[r].since[request[r].key[2]] <= request[r].key[3]
    BY <1>1, LiveFields DEF GoodLive
  <2>. QED
    BY <2>1
<1>3. request' = [request EXCEPT ![r] = Finished(a, FALSE, 0)]
  BY <1>2 DEF AnswerWith
<1>. QED
  BY <1>3, AnswerMoves

(* The unavailable answer comes after the last candidate.                  *)
LEMMA AnswersUnavailable ==
  ASSUME ProxyInv, NEW r \in Requests, request[r].pc \notin {"idle", "done"},
         NEW a \in {"unavailable", "cut"}, request[r].next = Candidates(r), Unavailable(r, a)
  PROVE  Ended(r)
<1>1. request[r] \in LiveType /\ request \in [Requests -> RequestType]
  BY Serves
<1>2. request[r].next \in Nat
  BY <1>1, LiveFields
<1>3. Candidates(r) - request[r].next = 0
  BY <1>2
<1>4. request' = [request EXCEPT ![r] = Finished(a, FALSE, 0)]
  BY <1>1, <1>3 DEF Unavailable
<1>. QED
  BY <1>4, AnswerMoves

(* The keys of a new request and of a candidate. *)
LEMMA CallFields ==
  ASSUME NEW c \in Calls
  PROVE  c.ip \in Addresses /\ c.repo \in Repositories
         /\ c.kind \in {"object", "auxiliary", "adapter", "token"}
  BY ProxyAssumption

(* A list of candidates is not empty.                                      *)
LEMMA OrderFields ==
  ASSUME NEW o \in OrderType
  PROVE  /\ Len(o) \in Nat /\ Len(o) >= 1
         /\ \A i \in 1..Len(o) : o[i] \in KeySources
<1>1. CASE o \in Orders
  <2>1. o \in Seq(Sources) /\ o # <<>>
    BY <1>1, ProxyAssumption
  <2>. QED
    BY <2>1, EmptySeq DEF KeySources
<1>2. CASE o = <<"root">> \/ o = <<"target">>
  BY <1>2 DEF KeySources
<1>. QED
  BY <1>1, <1>2 DEF OrderType

(* ServeHTTP enters a request with the present generations.                *)
LEMMA AcceptMoves ==
  ASSUME ProxyInv, NEW r \in Requests, Accept(r) PROVE Enters(r)
<1>1. PICK call \in Calls, list \in Orders :
        /\ request' = [request EXCEPT ![r] = NewRequest(call, list)]
        /\ Acquire(call.ip, call.repo)
  BY DEF Accept
<1> DEFINE o == CandidatesOf(call, list)
           g == [s \in KeySources |-> generation[<<call.repo, s>>]]
           q == NewRequest(call, list)
<1>2. o \in OrderType /\ (call.kind = "object" => o \in Orders)
  BY CallFields DEF CandidatesOf, OrderType
<1>3. Len(o) \in Nat /\ Len(o) >= 1 /\ Head(o) \in KeySources
  BY <1>2, OrderFields
<1>4. call.repo \in Repositories /\ epoch \in Nat
  BY <1>3, CallFields, GenerationFields
<1> DEFINE k == <<call.repo, Head(o), generation[<<call.repo, Head(o)>>]>>
<1>5. /\ k \in KeyType /\ g \in [KeySources -> Generations] /\ g[k[2]] <= k[3] /\ k[3] <= epoch
      /\ \A s \in KeySources : g[s] <= generation[<<call.repo, s>>]
  <2>1. \A s \in KeySources : /\ generation[<<call.repo, s>>] \in Generations
                              /\ generation[<<call.repo, s>>] \in Nat
                              /\ generation[<<call.repo, s>>] <= epoch
    BY <1>4, GenerationFields
  <2>2. k \in KeyType
    BY <1>3, <1>4, <2>1 DEF KeyType
  <2>. QED
    BY <1>3, <2>1, <2>2
<1>6. ValidatorCacheable(call) \in BOOLEAN
  BY DEF ValidatorCacheable
<1>7. q = [pc |-> "lookup", call |-> call, order |-> o, next |-> 1, since |-> g,
           key |-> k, cacheable |-> ValidatorCacheable(call), status |-> "none", body |-> 0]
  BY DEF NewRequest, KeyOf
<1> HIDE DEF o, k, g
<1>8. /\ q.pc = "lookup" /\ q.call = call /\ q.order = o /\ q.next = 1 /\ q.since = g
      /\ q.key = k /\ q.status = "none" /\ q.body = 0
  BY <1>7
<1>9. q \in LiveType
  BY <1>2, <1>4, <1>5, <1>6, <1>7 DEF LiveType, Places
<1> HIDE DEF q
<1>10. Good(q)
  BY <1>2, <1>3, <1>4, <1>5, <1>8 DEF Good, GoodLive, Places
<1>11. Moves(r, q)
  BY <1>1, <1>9, <1>10, LiveFields DEF Moves, q
<1>. QED
  BY <1>1, <1>8, <1>11 DEF Enters, Accept

(* The cache key of a candidate has a generation no older than the         *)
(* request.                                                                *)
LEMMA MetaMoves ==
  ASSUME ProxyInv, NEW r \in Requests, MetaForUpstream(r) PROVE Going(r)
<1>0. request[r].pc = "candidate"
  BY DEF MetaForUpstream
<1>1. /\ request[r] \in LiveType /\ GoodLive(request[r]) /\ epoch \in Nat
      /\ epoch \in Generations /\ request \in [Requests -> RequestType]
  BY <1>0, Serves
<1> DEFINE x == request[r]
           s == x.order[x.next]
           Rekeyed == x.call.kind \in {"object", "auxiliary"}
           k == IF Rekeyed THEN <<x.call.repo, s, generation[<<x.call.repo, s>>]>> ELSE x.key
           q == Keyed(x, k)
<1>2. request' = [request EXCEPT ![r] = q]
  <2>1. request' = [request EXCEPT ![r].pc = "fetch", ![r].key = k]
    BY DEF MetaForUpstream, Call, KeyOf
  <2> HIDE DEF k
  <2>. QED
    BY <1>1, <2>1, Zenon DEF Keyed
<1>3. k \in KeyType /\ x.since[k[2]] <= k[3] /\ k[3] <= epoch /\ k[3] \in Nat
  <2>1. CASE Rekeyed
    <3>1. x.call.repo \in Repositories /\ s \in KeySources
      BY <1>1, LiveFields, CallFields, OrderFields DEF GoodLive
    <3> HIDE DEF s
    <3>2. k = <<x.call.repo, s, generation[<<x.call.repo, s>>]>>
      BY <2>1
    <3> HIDE DEF k
    <3>3. /\ k \in KeyType /\ k[2] = s /\ k[3] = generation[<<x.call.repo, s>>]
          /\ k[3] \in Nat /\ k[3] <= epoch
      BY <3>1, <3>2, GenerationFields DEF KeyType
    <3>4. x.since[s] <= generation[<<x.call.repo, s>>]
      BY <1>1, <3>1 DEF GoodLive
    <3>. QED
      BY <3>3, <3>4
  <2>2. CASE ~Rekeyed
    BY <1>1, <2>2, LiveFields DEF GoodLive
  <2>. QED
    BY <2>1, <2>2
<1> HIDE DEF k
<1>4. /\ q \in LiveType /\ q.pc = "fetch" /\ q.key = k
      /\ q.since = x.since /\ q.status = x.status
      /\ q.body = x.body /\ q.next = x.next /\ q.order = x.order /\ q.call = x.call
  BY <1>1, <1>3, KeyedIs
<1> HIDE DEF q
<1>5. Good(q)
  BY <1>0, <1>1, <1>3, <1>4 DEF Good, GoodLive, Places
<1>6. Moves(r, q)
  BY <1>2, <1>4, <1>5, LiveFields DEF Moves
<1>. QED
  BY <1>4, <1>6 DEF Going, Running

(* A 200 whose body is at least as new as the key. *)
LEMMA GotMoves ==
  ASSUME ProxyInv, NEW r \in Requests, request[r].pc \notin {"idle", "done"},
         NEW b \in Nat, NEW c \in BOOLEAN, request[r].key[3] <= b, b <= epoch,
         request' = [request EXCEPT ![r].body = b, ![r].cacheable = c,
                                    ![r].pc = "modify", ![r].status = "ok"]
  PROVE  Going(r)
<1>1. request[r] \in LiveType /\ GoodLive(request[r]) /\ request \in [Requests -> RequestType]
  BY Serves
<1> DEFINE x == request[r]
           q == Got(x, b, c)
<1>2. request' = [request EXCEPT ![r] = q]
  BY <1>1, Zenon DEF Got
<1>3. /\ q \in LiveType /\ q.pc = "modify" /\ q.key = x.key
      /\ q.since = x.since /\ q.status = "ok" /\ q.body = b
      /\ q.next = x.next /\ q.order = x.order /\ q.call = x.call
  BY <1>1, GotIs
<1> HIDE DEF q
<1>4. Good(q)
  BY <1>1, <1>3 DEF Good, GoodLive, Places
<1>6. Moves(r, q)
  BY <1>2, <1>3, <1>4, LiveFields DEF Moves
<1>. QED
  BY <1>3, <1>6 DEF Going, Running

(* What Nginx returns is as new as the key it was asked with.              *)
LEMMA FetchedMoves ==
  ASSUME ProxyInv, NEW r \in Requests, request[r].pc \notin {"idle", "done"},
         NEW c \in BOOLEAN, Fetched(r, c)
  PROVE  Going(r)
<1>1. request[r] \in LiveType /\ GoodLive(request[r]) /\ epoch \in Nat
  BY Serves
<1>2. CASE /\ request[r].key \in DOMAIN nginxCache
           /\ request' = [request EXCEPT ![r].body = nginxCache[request[r].key],
                            ![r].cacheable = c, ![r].pc = "modify", ![r].status = "ok"]
  <2> DEFINE b == nginxCache[request[r].key]
  <2>1. b \in Nat /\ request[r].key[3] <= b /\ b <= epoch
    BY <1>2 DEF ProxyInv, NewEnough
  <2>2. request' = [request EXCEPT ![r].body = b, ![r].cacheable = c,
                                   ![r].pc = "modify", ![r].status = "ok"]
    BY <1>2
  <2> HIDE DEF b
  <2>. QED
    BY <2>1, <2>2, GotMoves
<1>3. CASE request' = [request EXCEPT ![r].body = epoch, ![r].cacheable = c,
                                      ![r].pc = "modify", ![r].status = "ok"]
  <2>1. request[r].key[3] <= epoch /\ epoch <= epoch
    BY <1>1 DEF GoodLive
  <2>. QED
    BY <1>1, <1>3, <2>1, GotMoves
<1>. QED
  BY <1>2, <1>3, Zenon DEF Fetched

(* Another answer, a failed candidate, and the response of the last one. *)
LEMMA GotOtherMoves ==
  ASSUME ProxyInv, NEW r \in Requests, FetchOther(r) PROVE Going(r)
<1>0. request[r].pc \in {"fetch", "hop"}
  BY DEF FetchOther
<1>1. request[r] \in LiveType /\ GoodLive(request[r]) /\ request \in [Requests -> RequestType]
  BY <1>0, Serves
<1> DEFINE x == request[r]
           c == x.cacheable /\ x.pc = "fetch"
           q == GotOther(x, c)
<1>2. request' = [request EXCEPT ![r] = q]
  <2>1. request' = [request EXCEPT ![r].pc = "modify", ![r].status = "other", ![r].cacheable = c]
    BY DEF FetchOther
  <2> HIDE DEF c
  <2>. QED
    BY <1>1, <2>1, Zenon DEF GotOther
<1> HIDE DEF c
<1>3. /\ q \in LiveType /\ q.pc = "modify" /\ q.key = x.key
      /\ q.since = x.since /\ q.status = "other" /\ q.body = x.body
      /\ q.next = x.next /\ q.order = x.order /\ q.call = x.call
  <2>1. c \in BOOLEAN
    BY DEF c
  <2>. QED
    BY <1>1, <2>1, GotOtherIs
<1> HIDE DEF q
<1>4. Good(q)
  BY <1>1, <1>3 DEF Good, GoodLive, Places
<1>6. Moves(r, q)
  BY <1>2, <1>3, <1>4, LiveFields DEF Moves
<1>. QED
  BY <1>3, <1>6 DEF Going, Running

(* A failed candidate leads to the next one, or to the answer.             *)
LEMMA FailMoves ==
  ASSUME ProxyInv, NEW r \in Requests, FetchFails(r) PROVE Effect(r)
<1>0. request[r].pc = "fetch"
  BY DEF FetchFails
<1>1. request[r] \in LiveType /\ GoodLive(request[r]) /\ request \in [Requests -> RequestType]
  BY <1>0, Serves
<1> DEFINE x == request[r]
<1>2. Len(x.order) \in Nat /\ x.next \in Nat /\ x.status = "none"
  BY <1>0, <1>1, LiveFields, OrderFields DEF GoodLive
<1>3. CASE /\ x.next < Candidates(r) /\ UNCHANGED <<limiterVars, recorded>>
           /\ request' = [request EXCEPT ![r].pc = "candidate", ![r].next = @ + 1]
  <2> DEFINE q == NextOne(x)
  <2>1. request' = [request EXCEPT ![r] = q]
    BY <1>1, <1>3, Zenon DEF NextOne
  <2>2. /\ q \in LiveType /\ q.pc = "candidate" /\ q.key = x.key
        /\ q.since = x.since /\ q.status = x.status /\ q.body = x.body
        /\ q.next = x.next + 1 /\ q.order = x.order /\ q.call = x.call
    BY <1>1, NextOneIs
  <2> HIDE DEF q
  <2>3. q.next \in 1..Len(q.order)
    BY <1>2, <1>3, <2>2 DEF Candidates
  <2>4. Good(q)
    BY <1>1, <1>2, <2>2, <2>3 DEF Good, GoodLive, Places
  <2>5. Moves(r, q)
    BY <2>1, <2>2, <2>4, LiveFields DEF Moves
  <2>. QED
    BY <1>0, <1>3, <2>2, <2>5 DEF Effect, Continues, Going, Running
<1>4. CASE x.next = Candidates(r) /\ Unavailable(r, "unavailable") /\ FinishRequest(r)
  BY <1>0, <1>4, AnswersUnavailable DEF Effect, Leaves, Running
<1>5. CASE /\ x.next = Candidates(r) /\ UNCHANGED <<limiterVars, recorded>>
           /\ request' = [request EXCEPT ![r].pc = "modify", ![r].status = "closed"]
  <2> DEFINE q == Closed(x)
  <2>1. request' = [request EXCEPT ![r] = q]
    BY <1>1, <1>5, Zenon DEF Closed
  <2>2. /\ q \in LiveType /\ q.pc = "modify" /\ q.key = x.key
        /\ q.since = x.since /\ q.status = "closed" /\ q.body = x.body
        /\ q.next = x.next /\ q.order = x.order /\ q.call = x.call
    BY <1>1, ClosedIs
  <2> HIDE DEF q
  <2>3. Good(q)
    BY <1>1, <1>5, <2>2 DEF Good, GoodLive, Places, Candidates
  <2>4. Moves(r, q)
    BY <2>1, <2>2, <2>3, LiveFields DEF Moves
  <2>. QED
    BY <1>0, <1>5, <2>2, <2>4 DEF Effect, Continues, Going, Running
<1>. QED
  BY <1>3, <1>4, <1>5 DEF FetchFails

(* Of every action: what it makes of its request. *)
LEMMA LookupMoves ==
  ASSUME ProxyInv, NEW r \in Requests, NotModified(r) \/ NoValidator(r) \/ HandedOver(r)
  PROVE  Effect(r)
<1>1. CASE NotModified(r)
  <2> DEFINE k == request[r].key
  <2>1. /\ request[r].pc = "lookup" /\ k \in DOMAIN entries /\ FinishRequest(r)
        /\ AnswerWith(r, "notmodified", entries[k])
    BY <1>1 DEF NotModified, LooksUp, Hit, ValidatorKey
  <2>2. entries[k] \in Nat /\ k[3] <= entries[k]
    BY <2>1 DEF ProxyInv, NewEnough
  <2>3. Ended(r)
    BY <2>1, <2>2, AnswersWith
  <2>. QED
    BY <2>1, <2>3 DEF Effect, Leaves, Running
<1>2. CASE NoValidator(r)
  <2>1. /\ request[r].pc = "lookup"
        /\ \/ Move(r, "handed") /\ FinishRequest(r)
           \/ Move(r, "candidate") /\ UNCHANGED <<limiterVars, recorded>>
    BY <1>2 DEF NoValidator
  <2>2. request[r].status = "none"
    BY <2>1, Serves DEF GoodLive
  <2>3. (Move(r, "handed") => Ended(r)) /\ (Move(r, "candidate") => Going(r))
    BY <2>1, <2>2, MovesOn DEF Places, Running
  <2>. QED
    BY <2>1, <2>3 DEF Effect, Leaves, Continues, Running
<1>3. CASE HandedOver(r)
  <2> DEFINE k == request[r].key
  <2>1. request[r].pc = "handed" /\ UNCHANGED <<limiterVars, recorded>>
    BY <1>3 DEF HandedOver
  <2>2. request[r] \in LiveType /\ GoodLive(request[r]) /\ epoch \in Nat
    BY <2>1, Serves
  <2>3. CASE k \in DOMAIN nginxCache /\ AnswerWith(r, "content", nginxCache[k])
    <3>1. nginxCache[k] \in Nat /\ k[3] <= nginxCache[k]
      BY <2>3 DEF ProxyInv, NewEnough
    <3>. QED
      BY <2>1, <2>3, <3>1, AnswersWith DEF Effect, Settles, Running
  <2>4. CASE AnswerWith(r, "content", epoch)
    BY <2>1, <2>2, <2>4, AnswersWith DEF GoodLive, Effect, Settles, Running
  <2>5. CASE Answered(r, "error")
    BY <2>1, <2>5, AnswersOther DEF Effect, Settles, Running
  <2>. QED
    BY <1>3, <2>3, <2>4, <2>5 DEF HandedOver
<1>. QED
  BY <1>1, <1>2, <1>3

(* The steps of the transport.                                             *)
LEMMA TransportMoves ==
  ASSUME ProxyInv, NEW r \in Requests,
         \/ MetaForUpstream(r) \/ MetaFails(r) \/ Fetch(r) \/ FetchOther(r)
         \/ FetchRedirect(r) \/ FollowRedirects(r) \/ FollowFails(r)
  PROVE  Effect(r)
<1>1. CASE MetaFails(r) \/ FollowFails(r)
  <2>1. request[r].pc \in Running /\ FinishRequest(r) /\ Answered(r, "error")
    BY <1>1 DEF MetaFails, FollowFails, Running
  <2>. QED
    BY <2>1, AnswersOther DEF Effect, Leaves
<1>2. CASE Fetch(r) \/ FollowRedirects(r)
  <2>1. /\ request[r].pc \in {"fetch", "hop"} /\ UNCHANGED <<limiterVars, recorded>>
        /\ Fetched(r, request[r].cacheable) \/ Fetched(r, FALSE)
    BY <1>2 DEF Fetch, FollowRedirects
  <2>2. request[r] \in LiveType
    BY <2>1, Serves
  <2>3. request[r].cacheable \in BOOLEAN
    BY <2>2, LiveFields
  <2>4. Going(r)
    BY <2>1, <2>2, <2>3, FetchedMoves, Zenon
  <2>. QED
    BY <2>1, <2>4 DEF Effect, Continues, Running
<1>3. CASE FetchRedirect(r)
  <2>1. request[r].pc = "fetch" /\ Move(r, "hop") /\ UNCHANGED <<limiterVars, recorded>>
    BY <1>3 DEF FetchRedirect
  <2>2. request[r].status = "none"
    BY <2>1, Serves DEF GoodLive
  <2>3. Going(r)
    BY <2>1, <2>2, MovesOn DEF Places, Running
  <2>. QED
    BY <2>1, <2>3 DEF Effect, Continues, Running
<1>4. CASE MetaForUpstream(r) \/ FetchOther(r)
  <2>1. request[r].pc \in Running /\ UNCHANGED <<limiterVars, recorded>>
    BY <1>4 DEF MetaForUpstream, FetchOther, Running
  <2>. QED
    BY <1>4, <2>1, MetaMoves, GotOtherMoves DEF Effect, Continues
<1>. QED
  BY <1>1, <1>2, <1>3, <1>4

(* The steps of modifyResponse and of the copy.                            *)
LEMMA ResponseMoves ==
  ASSUME ProxyInv, NEW r \in Requests,
         \/ ModifyResponse(r) \/ ChallengeRefused(r) \/ StoreValidator(r) \/ DropValidator(r)
         \/ RewriteFails(r) \/ CopyResponse(r) \/ CopyAborts(r)
  PROVE  Effect(r)
<1>1. CASE ModifyResponse(r)
  <2>1. /\ request[r].pc = "modify" /\ UNCHANGED <<limiterVars, recorded>>
        /\ Move(r, "copy") \/ (request[r].status = "ok" /\ Move(r, "rewrite"))
    BY <1>1 DEF ModifyResponse
  <2>2. request[r].status # "none"
    BY <2>1, Serves DEF GoodLive
  <2>3. Going(r)
    BY <2>1, <2>2, MovesOn DEF Places, Running
  <2>. QED
    BY <2>1, <2>3 DEF Effect, Continues, Running
<1>2. CASE ChallengeRefused(r) \/ RewriteFails(r)
  <2>1. request[r].pc \in Running /\ FinishRequest(r) /\ Answered(r, "error")
    BY <1>2 DEF ChallengeRefused, RewriteFails, Running
  <2>. QED
    BY <2>1, AnswersOther DEF Effect, Leaves
<1>3. CASE StoreValidator(r) \/ DropValidator(r)
  <2>1. request[r].pc = "rewrite" /\ Move(r, "copy") /\ UNCHANGED <<limiterVars, recorded>>
    BY <1>3 DEF StoreValidator, DropValidator
  <2>2. request[r].status # "none"
    BY <2>1, Serves DEF GoodLive
  <2>3. Going(r)
    BY <2>1, <2>2, MovesOn DEF Places, Running
  <2>. QED
    BY <2>1, <2>3 DEF Effect, Continues, Running
<1>4. CASE CopyResponse(r) \/ CopyAborts(r)
  <2>1. request[r].pc = "copy" /\ (FinishRequest(r) \/ LeaveUnrecorded(r))
    BY <1>4 DEF CopyResponse, CopyAborts
  <2>2. request[r] \in LiveType /\ GoodLive(request[r])
    BY <2>1, Serves
  <2>3. request[r].body \in Nat
    BY <2>2, LiveFields
  <2>4. CASE request[r].status = "ok" /\ AnswerWith(r, "content", request[r].body)
    BY <2>1, <2>2, <2>3, <2>4, AnswersWith DEF GoodLive, Effect, Leaves, Running
  <2>5. CASE Answered(r, "error") \/ Answered(r, "aborted")
    BY <2>1, <2>5, AnswersOther DEF Effect, Leaves, Running
  <2>6. CASE request[r].status = "closed" /\ (Unavailable(r, "unavailable") \/ Unavailable(r, "cut"))
    <3>1. request[r].next = Candidates(r)
      BY <2>2, <2>6 DEF GoodLive, Candidates
    <3>2. Ended(r)
      BY <2>1, <2>6, <3>1, AnswersUnavailable
    <3>. QED
      BY <2>1, <3>2 DEF Effect, Leaves, Running
  <2>7. \/ request[r].status = "ok" /\ AnswerWith(r, "content", request[r].body)
        \/ Answered(r, "error") \/ Answered(r, "aborted")
        \/ request[r].status = "closed" /\ (Unavailable(r, "unavailable") \/ Unavailable(r, "cut"))
    <3>1. CASE CopyAborts(r)
      BY <3>1 DEF CopyAborts
    <3>2. CASE CopyResponse(r)
      <4>1. request[r].status \in {"ok", "other", "closed"}
        BY <2>1, <2>2, LiveFields DEF GoodLive
      <4>. QED
        BY <3>2, <4>1 DEF CopyResponse
    <3>. QED
      BY <1>4, <3>1, <3>2
  <2>. QED
    BY <2>4, <2>5, <2>6, <2>7
<1>. QED
  BY <1>1, <1>2, <1>3, <1>4

(* Every step of a request has one of the four effects. *)
RequestStep(r) ==
  \/ Refuse(r) \/ Accept(r)
  \/ NotModified(r) \/ NoValidator(r) \/ HandedOver(r)
  \/ MetaForUpstream(r) \/ MetaFails(r)
  \/ Fetch(r) \/ FetchOther(r) \/ FetchFails(r)
  \/ FetchRedirect(r) \/ FollowRedirects(r) \/ FollowFails(r)
  \/ ModifyResponse(r) \/ ChallengeRefused(r) \/ StoreValidator(r) \/ DropValidator(r) \/ RewriteFails(r)
  \/ CopyResponse(r) \/ CopyAborts(r)

(* Every step of a request enters it, takes it further, ends it or         *)
(* settles it.                                                             *)
LEMMA StepEffect ==
  ASSUME ProxyInv, NEW r \in Requests, RequestStep(r) PROVE Effect(r)
<1>1. CASE Refuse(r)
  <2>1. request[r].pc \notin Running /\ Answered(r, "refused") /\ UNCHANGED <<limiterVars, recorded>>
    BY <1>1 DEF Refuse, Running
  <2>. QED
    BY <2>1, AnswersOther DEF Effect, Settles
<1>2. CASE Accept(r)
  BY <1>2, AcceptMoves DEF Effect
<1>3. CASE FetchFails(r)
  BY <1>3, FailMoves
<1>4. CASE NotModified(r) \/ NoValidator(r) \/ HandedOver(r)
  BY <1>4, LookupMoves
<1>5. CASE \/ MetaForUpstream(r) \/ MetaFails(r) \/ Fetch(r) \/ FetchOther(r)
           \/ FetchRedirect(r) \/ FollowRedirects(r) \/ FollowFails(r)
  BY <1>5, TransportMoves
<1>6. CASE \/ ModifyResponse(r) \/ ChallengeRefused(r) \/ StoreValidator(r) \/ DropValidator(r)
           \/ RewriteFails(r) \/ CopyResponse(r) \/ CopyAborts(r)
  BY <1>6, ResponseMoves
<1>. QED
  BY <1>1, <1>2, <1>3, <1>4, <1>5, <1>6 DEF RequestStep

(* So each of them changes that request only.                              *)
LEMMA EffectMoves ==
  ASSUME NEW r \in Requests, Effect(r) PROVE \E q : Moves(r, q)
  BY DEF Effect, Enters, Continues, Leaves, Settles, Going, Ended

-----------------------------------------------------------------------------
(* Of the caches: an entry is only added with what is as new as its key. *)
LEMMA StoredKeeps ==
  ASSUME NewEnough(nginxCache), NEW k, NEW b \in Nat, 1 <= b, b <= epoch, k[3] <= b
  PROVE  NewEnough(Stored(k, b))
  BY DEF NewEnough, Stored

(* What Nginx stores is of the present generation.                         *)
LEMMA CacheKeeps ==
  ASSUME ProxyInv, NEW r \in Requests, request[r].pc \notin {"idle", "done"},
         nginxCache' = nginxCache \/ nginxCache' = Stored(request[r].key, epoch)
  PROVE  NewEnough(nginxCache')
<1>1. request[r] \in LiveType /\ GoodLive(request[r]) /\ epoch \in Nat
  BY Serves
<1>2. NewEnough(nginxCache)
  BY DEF ProxyInv
<1>3. NewEnough(Stored(request[r].key, epoch))
  <2>1. 1 <= epoch
    BY ProxyAssumption DEF ProxyInv, RequestsInv, Generations
  <2>. QED
    BY <1>1, <1>2, <2>1, StoredKeeps DEF GoodLive
<1>. QED
  BY <1>2, <1>3

(* Removing validators removes no guarantee.                               *)
LEMMA WithoutKeeps ==
  ASSUME NEW f, NewEnough(f), NEW S PROVE NewEnough(Without(f, S))
  BY DEF NewEnough, Without

(* A validator is stored under a key no newer than it.                     *)
LEMMA PutKeeps ==
  ASSUME NewEnough(entries), NEW k, NEW v \in Nat, 1 <= v, v <= epoch, k[3] <= v,
         Put(k, v)
  PROVE  NewEnough(entries')
<1> DEFINE all == [x \in DOMAIN entries \cup {k} |-> IF x = k THEN v ELSE entries[x]]
<1>1. \E S : entries' = Without(all, S)
  BY DEF Put, PutWithin
<1>2. NewEnough(all)
  BY DEF NewEnough
<1> HIDE DEF all
<1>. QED
  BY <1>1, <1>2, WithoutKeeps

(* A step of a request keeps the invariant if what it makes of the request *)
(* and of the caches is right.                                             *)
LEMMA StepKeeps ==
  ASSUME ProxyInv, NEW r \in Requests, \E q : Moves(r, q), UNCHANGED purgeVars,
         NewEnough(nginxCache'), NewEnough(entries')
  PROVE  ProxyInv'
<1>1. PICK q : Moves(r, q)
  OBVIOUS
<1>2. /\ request \in [Requests -> RequestType] /\ epoch \in Generations
      /\ generation \in [Repositories \X KeySources -> 1..epoch]
      /\ epoch' = epoch /\ generation' = generation
  BY DEF ProxyInv, RequestsInv, purgeVars
<1>3. request' \in [Requests -> RequestType]
  BY <1>1, <1>2 DEF Moves
<1>4. ASSUME NEW s \in Requests PROVE Good(request[s])'
  <2>1. Good(request'[s])
    <3>1. request'[s] = IF s = r THEN q ELSE request[s]
      BY <1>1, <1>2 DEF Moves
    <3>. QED
      BY <1>1, <3>1 DEF Moves, ProxyInv, RequestsInv
  <2>. QED
    BY <1>2, <2>1 DEF Good, GoodLive, GoodDone
<1>6. RequestsInv'
  BY <1>2, <1>3, <1>4 DEF RequestsInv, Generations
<1>. QED
  BY <1>2, <1>6 DEF ProxyInv, NewEnough

(* A step stores a validator, drops one, or leaves the store alone. *)
LEMMA ValidatorSteps ==
  ASSUME NEW r \in Requests, RequestStep(r), ~StoreValidator(r)
  PROVE  (\E S : entries' = Without(entries, S) /\ order' = order) \/ UNCHANGED validatorVars
<1>1. CASE NotModified(r) \/ NoValidator(r)
  BY <1>1 DEF NotModified, NoValidator, Get, validatorVars
<1>2. CASE ModifyResponse(r) \/ ChallengeRefused(r) \/ DropValidator(r)
  BY <1>2 DEF ModifyResponse, ChallengeRefused, DropValidator, RemoveValidator
<1>3. CASE ~(NotModified(r) \/ NoValidator(r) \/ ModifyResponse(r) \/ ChallengeRefused(r) \/ DropValidator(r))
  BY <1>3 DEF RequestStep, Refuse, Accept, HandedOver, MetaForUpstream,
       MetaFails, Fetch, FetchOther, FetchFails, FetchRedirect, FollowRedirects, FollowFails,
       RewriteFails, CopyResponse, CopyAborts
<1>. QED
  BY <1>1, <1>2, <1>3

(* A purge raises the generations of what it covers, and no others, above  *)
(* every number there was.                                                 *)
LEMMA PurgeKeeps ==
  ASSUME ProxyInv, NEW covered, Purge(covered) PROVE ProxyInv'
<1>1. /\ epoch' = epoch + 1 /\ request' = request /\ nginxCache' = nginxCache
      /\ entries' = entries /\ epoch < MaxEpoch
  BY DEF Purge, validatorVars
<1>2. epoch \in Generations /\ epoch \in Nat /\ epoch' \in Generations
  BY <1>1, ProxyAssumption DEF ProxyInv, RequestsInv, Generations
<1>3. /\ generation \in [Repositories \X KeySources -> 1..epoch]
      /\ generation' = [k \in Repositories \X KeySources |->
                          IF k \in covered THEN epoch + 1 ELSE generation[k]]
  BY DEF ProxyInv, RequestsInv, Purge
<1>4. /\ generation' \in [Repositories \X KeySources -> 1..epoch']
      /\ \A k \in Repositories \X KeySources : generation[k] <= generation'[k] /\ generation[k] \in Nat
                                              /\ generation'[k] \in Nat
  BY <1>1, <1>2, <1>3
<1>5. ASSUME NEW s \in Requests PROVE Good(request[s])'
  <2>1. Good(request[s]) /\ request[s] \in RequestType
    BY DEF ProxyInv, RequestsInv
  <2>2. CASE request[s].pc \notin Places
    BY <1>1, <2>1, <2>2 DEF Good, GoodDone
  <2>3. CASE request[s].pc \in Places
    <3> DEFINE q == request[s]
    <3>1. q \in LiveType /\ GoodLive(q)
      BY <2>1, <2>3, ByPlace DEF Places, Good
    <3>2. q.key[3] \in Nat /\ q.body \in Nat /\ \A u \in KeySources : q.since[u] \in Nat
      BY <3>1, LiveFields
    <3>3. q.call.repo \in Repositories
      BY <3>1, LiveFields, CallFields
    <3>4. ASSUME NEW u \in KeySources PROVE q.since[u] <= generation'[<<q.call.repo, u>>]
      <4>1. <<q.call.repo, u>> \in Repositories \X KeySources
        BY <3>3
      <4>2. q.since[u] <= generation[<<q.call.repo, u>>]
        BY <3>1 DEF GoodLive
      <4> HIDE DEF q
      <4>. QED
        BY <1>4, <3>2, <4>1, <4>2
    <3>5. q.key[3] <= epoch' /\ q.body <= epoch'
      BY <1>1, <1>2, <3>1, <3>2 DEF GoodLive
    <3>. QED
      BY <1>1, <2>3, <3>1, <3>4, <3>5 DEF Good, GoodLive, Places
  <2>. QED
    BY <2>2, <2>3
<1>6. RequestsInv'
  BY <1>1, <1>2, <1>4, <1>5 DEF RequestsInv, ProxyInv, Generations
<1>7. NewEnough(nginxCache)' /\ NewEnough(entries)'
  <2>1. NewEnough(nginxCache) /\ NewEnough(entries)
    BY DEF ProxyInv
  <2>. QED
    BY <1>1, <1>2, <2>1 DEF NewEnough
<1>. QED
  BY <1>6, <1>7 DEF ProxyInv

(* The invariant is inductive: no body, no cached response and no          *)
(* validator is older than its cache key, and no key is older than the     *)
(* request.                                                                *)
LEMMA ProxyKeep == ProxyInv /\ [ProxyNext]_proxyVars => ProxyInv'
<1> SUFFICES ASSUME ProxyInv, [ProxyNext]_proxyVars PROVE ProxyInv'
  OBVIOUS
<1>0. NewEnough(nginxCache) /\ NewEnough(entries)
  BY DEF ProxyInv
<1>1. ASSUME NEW r \in Requests, RequestStep(r) PROVE ProxyInv'
  <2>1. \E q : Moves(r, q)
    BY <1>1, StepEffect, EffectMoves
  <2>2. UNCHANGED purgeVars
    BY <1>1 DEF RequestStep, Refuse, Accept, NotModified, NoValidator, HandedOver, MetaForUpstream,
         MetaFails, Fetch, FetchOther, FetchFails, FetchRedirect, FollowRedirects, FollowFails,
         ModifyResponse, ChallengeRefused, StoreValidator, DropValidator, RewriteFails,
         CopyResponse, CopyAborts
  <2>3. NewEnough(nginxCache')
    <3>1. CASE HandedOver(r) \/ Fetch(r) \/ FollowRedirects(r)
      <4>1. /\ request[r].pc \notin {"idle", "done"}
            /\ nginxCache' = nginxCache \/ nginxCache' = Stored(request[r].key, epoch)
        BY <3>1 DEF HandedOver, Fetch, FollowRedirects, Fetched
      <4>. QED
        BY <4>1, CacheKeeps
    <3>2. CASE ~(HandedOver(r) \/ Fetch(r) \/ FollowRedirects(r))
      <4>1. nginxCache' = nginxCache
        BY <1>1, <3>2 DEF RequestStep, Refuse, Accept, NotModified, NoValidator, MetaForUpstream,
             MetaFails, FetchOther, FetchFails, FetchRedirect, FollowFails,
             ModifyResponse, ChallengeRefused, StoreValidator, DropValidator, RewriteFails,
             CopyResponse, CopyAborts
      <4>. QED
        BY <1>0, <4>1
    <3>. QED
      BY <3>1, <3>2
  <2>4. NewEnough(entries')
    <3>1. CASE StoreValidator(r)
      <4>1. /\ request[r].pc = "rewrite" /\ Put(request[r].key, request[r].body)
        BY <3>1 DEF StoreValidator, ValidatorKey
      <4>2. request[r] \in LiveType /\ GoodLive(request[r])
        BY <4>1, Serves
      <4>3. request[r].key[3] \in Generations
        BY <4>2, LiveFields DEF KeyType
      <4>4. /\ request[r].body \in Nat /\ request[r].key[3] <= request[r].body
            /\ request[r].body <= epoch
        BY <4>1, <4>2, LiveFields DEF GoodLive
      <4>5. 1 <= request[r].body
        BY <4>3, <4>4, ProxyAssumption DEF Generations
      <4>. QED
        BY <1>0, <4>1, <4>4, <4>5, PutKeeps
    <3>2. CASE ~StoreValidator(r)
      <4>1. (\E S : entries' = Without(entries, S)) \/ entries' = entries
        BY <1>1, <3>2, ValidatorSteps DEF validatorVars
      <4>. QED
        BY <1>0, <4>1, WithoutKeeps
    <3>. QED
      BY <3>1, <3>2
  <2>. QED
    BY <2>1, <2>2, <2>3, <2>4, StepKeeps
<1>6. CASE PurgeContent \/ PurgeObject
  <2>1. PICK covered : Purge(covered)
    BY <1>6 DEF PurgeContent, PurgeObject
  <2>. QED
    BY <2>1, PurgeKeeps
<1>7. CASE UNCHANGED proxyVars
  <2>1. /\ epoch' = epoch /\ generation' = generation /\ request' = request
        /\ nginxCache' = nginxCache /\ entries' = entries
    BY <1>7 DEF proxyVars, purgeVars, validatorVars
  <2>. QED
    BY <2>1 DEF ProxyInv, RequestsInv, NewEnough, Good, GoodLive, GoodDone
<1>. QED
  BY <1>1, <1>6, <1>7 DEF ProxyNext, RequestStep

(* A request accepted after a purge is never answered with content from    *)
(* before it that the purge covers, neither from the response cache of     *)
(* Nginx nor as 304 from a stored validator: the generation of its source  *)
(* is part of every cache key (cache.Manager.Key, metaForUpstream,         *)
(* metadataValidators).  A purge of an object covers one source only.      *)
THEOREM PurgeHonouredHolds == ProxySpec => []PurgeHonoured
<1>1. ProxyInv => PurgeHonoured
  BY DEF ProxyInv, RequestsInv, Good, GoodDone, PurgeHonoured
<1>. QED
  BY <1>1, ProxyStart, ProxyKeep, PTL DEF ProxySpec

(* A client is told that no upstream is available only when every          *)
(* candidate of its list was tried (the loop over the candidates in        *)
(* roundTrip).                                                             *)
THEOREM ErrorMeansAllFailedHolds == ProxySpec => []ErrorMeansAllFailed
<1>1. ProxyInv => ErrorMeansAllFailed
  BY DEF ProxyInv, RequestsInv, Good, GoodDone, ErrorMeansAllFailed
<1>. QED
  BY <1>1, ProxyStart, ProxyKeep, PTL DEF ProxySpec
-----------------------------------------------------------------------------
(* The counters of the limiter: how many of S have each value of g. *)
Tally(S, g) == [v \in {g[s] : s \in S} |-> Cardinality({s \in S : g[s] = v})]

(* A tally counts.                                                         *)
LEMMA TallyCount ==
  ASSUME NEW S, IsFiniteSet(S), NEW g, NEW v
  PROVE  /\ Count(Tally(S, g), v) = Cardinality({s \in S : g[s] = v})
         /\ Count(Tally(S, g), v) \in Nat
<1> DEFINE V == {s \in S : g[s] = v}
<1>1. IsFiniteSet(V) /\ Cardinality(V) \in Nat
  BY FS_Subset, FS_CardinalityType
<1>2. CASE v \in {g[s] : s \in S}
  BY <1>1, <1>2 DEF Count, Tally
<1>3. CASE v \notin {g[s] : s \in S}
  <2>1. V = {}
    BY <1>3
  <2>. QED
    BY <1>3, <2>1, FS_EmptySet DEF Count, Tally
<1>. QED
  BY <1>2, <1>3

(* It depends on the values of its members only.                           *)
LEMMA TallySame ==
  ASSUME NEW S, NEW g, NEW h, \A s \in S : h[s] = g[s]
  PROVE  Tally(S, h) = Tally(S, g)
<1>1. {h[s] : s \in S} = {g[s] : s \in S}
  OBVIOUS
<1>2. ASSUME NEW v PROVE {s \in S : h[s] = v} = {s \in S : g[s] = v}
  OBVIOUS
<1>. QED
  BY <1>1, <1>2, Zenon DEF Tally

(* Increment is what a new member does to a tally, with a missing entry    *)
(* read as zero.                                                           *)
LEMMA TallyAdd ==
  ASSUME NEW S, IsFiniteSet(S), NEW r, r \notin S, NEW g, NEW h, \A s \in S : h[s] = g[s]
  PROVE  Tally(S \cup {r}, h) = Increment(Tally(S, g), h[r])
<1> DEFINE f == Tally(S, g)
           D == {h[s] : s \in S \cup {r}}
           C(v) == Cardinality({s \in S \cup {r} : h[s] = v})
<1>1. D = DOMAIN f \cup {h[r]}
  BY DEF Tally
<1>2. ASSUME NEW v PROVE C(v) = Count(f, v) + (IF v = h[r] THEN 1 ELSE 0)
  <2> DEFINE V == {s \in S : g[s] = v}
  <2>1. IsFiniteSet(V) /\ Cardinality(V) \in Nat /\ r \notin V
    BY FS_Subset, FS_CardinalityType
  <2>2. Count(f, v) = Cardinality(V)
    BY TallyCount
  <2>3. CASE v = h[r]
    <3>1. {s \in S \cup {r} : h[s] = v} = V \cup {r}
      BY <2>3
    <3>2. Cardinality(V \cup {r}) = Cardinality(V) + 1
      BY <2>1, FS_AddElement
    <3>3. C(v) = Cardinality(V) + 1
      BY <3>1, <3>2
    <3> HIDE DEF V, C, f
    <3>. QED
      BY <2>2, <2>3, <3>3
  <2>4. CASE v # h[r]
    <3>1. {s \in S \cup {r} : h[s] = v} = V
      BY <2>4
    <3>2. C(v) = Cardinality(V)
      BY <3>1
    <3> HIDE DEF V, C, f
    <3>. QED
      BY <2>1, <2>2, <2>4, <3>2
  <2>. QED
    BY <2>3, <2>4
<1>3. Tally(S \cup {r}, h) = [v \in D |-> C(v)]
  BY DEF Tally
<1>4. Increment(f, h[r]) = [v \in DOMAIN f \cup {h[r]} |-> Count(f, v) + (IF v = h[r] THEN 1 ELSE 0)]
  BY DEF Increment
<1> HIDE DEF f, D, C
<1>. QED
  BY <1>1, <1>2, <1>3, <1>4 DEF f

(* Decrement, which deletes an entry that reaches zero, is what a member   *)
(* that leaves does to it.                                                 *)
LEMMA TallyRemove ==
  ASSUME NEW S, IsFiniteSet(S), NEW r \in S, NEW g, NEW h, \A s \in S \ {r} : h[s] = g[s]
  PROVE  Tally(S \ {r}, h) = Decrement(Tally(S, g), g[r])
<1> DEFINE f == Tally(S, g)
           k == g[r]
           R == S \ {r}
           D == {h[s] : s \in R}
           V(v) == {s \in S : g[s] = v}
           W(v) == {s \in R : h[s] = v}
<1>1. f = [v \in {g[s] : s \in S} |-> Cardinality(V(v))]
  BY DEF Tally
<1>2. Tally(R, h) = [v \in D |-> Cardinality(W(v))]
  BY DEF Tally
<1>3. k \in DOMAIN f /\ f[k] = Cardinality(V(k))
  BY <1>1
<1>4. V(k) = W(k) \cup {r} /\ r \notin W(k) /\ IsFiniteSet(W(k))
  <2>1. V(k) = W(k) \cup {r} /\ r \notin W(k)
    OBVIOUS
  <2>2. W(k) \subseteq S
    OBVIOUS
  <2>. QED
    BY <2>1, <2>2, FS_Subset
<1>5. Cardinality(W(k)) \in Nat /\ f[k] = Cardinality(W(k)) + 1
  <2> HIDE DEF f, k, V, W
  <2>1. Cardinality(W(k)) \in Nat
    BY <1>4, FS_CardinalityType
  <2>2. Cardinality(W(k) \cup {r}) = Cardinality(W(k)) + 1
    BY <1>4, FS_AddElement
  <2>. QED
    BY <1>3, <1>4, <2>1, <2>2
<1>6. ASSUME NEW v, v # k PROVE V(v) = W(v)
  BY <1>6
<1>7. D \cup {k} = DOMAIN f
  <2>1. DOMAIN f = {g[s] : s \in S}
    BY <1>1
  <2>2. \A v : v \in D \cup {k} <=> v \in {g[s] : s \in S}
    OBVIOUS
  <2>. QED
    BY <2>1, <2>2
<1>8. k \in D <=> W(k) # {}
  OBVIOUS
<1>9. W(k) = {} <=> Cardinality(W(k)) = 0
  BY <1>4, FS_EmptySet
<1>10. \A v \in DOMAIN f : f[v] = Cardinality(V(v))
  BY <1>1
<1>11. f = [v \in DOMAIN f |-> f[v]]
  BY <1>1
<1> HIDE DEF f, k, D, V, W
<1>12. CASE f[k] = 1
  <2>1. D = DOMAIN f \ {k}
    BY <1>5, <1>7, <1>8, <1>9, <1>12
  <2>2. \A v \in D : Cardinality(W(v)) = f[v]
    BY <1>6, <1>10, <2>1
  <2>3. Decrement(f, k) = [v \in DOMAIN f \ {k} |-> f[v]]
    BY <1>12 DEF Decrement
  <2>. QED
    BY <1>2, <2>1, <2>2, <2>3 DEF f, k
<1>13. CASE f[k] # 1
  <2>1. D = DOMAIN f
    BY <1>3, <1>5, <1>7, <1>8, <1>9, <1>13
  <2>2. \A v \in D : Cardinality(W(v)) = IF v = k THEN f[k] - 1 ELSE f[v]
    BY <1>5, <1>6, <1>10, <2>1
  <2>3. Decrement(f, k) = [f EXCEPT ![k] = f[k] - 1]
    BY <1>13 DEF Decrement
  <2>4. [f EXCEPT ![k] = f[k] - 1] = [v \in DOMAIN f |-> IF v = k THEN f[k] - 1 ELSE f[v]]
    BY <1>3, <1>11
  <2>. QED
    BY <1>2, <2>1, <2>2, <2>3, <2>4 DEF f, k
<1>. QED
  BY <1>12, <1>13
-----------------------------------------------------------------------------
(* The requests whose handler runs, and what they count for. *)
ServingOf(req) == {r \in Requests : req[r].pc \notin {"idle", "handed", "done"}}
IpOf(req) == [r \in Requests |-> req[r].call.ip]
RepoOf(req) == [r \in Requests |-> req[r].call.repo]
Within(S, g, v, max) == max > 0 => Cardinality({s \in S : g[s] = v}) <= max

(* The counters agree with the handlers that run, and no limit is passed.  *)
CountersAre(S, ips, repos) ==
  /\ IsFiniteSet(S) /\ total = Cardinality(S)
  /\ byIP = Tally(S, ips) /\ byMirror = Tally(S, repos)
LimitsOf(S, ips, repos) ==
  /\ MaxTotal > 0 => Cardinality(S) <= MaxTotal
  /\ \A v \in Addresses : Within(S, ips, v, MaxIP)
  /\ \A m \in Repositories : Within(S, repos, m, MirrorMax[m])
LimiterInv ==
  /\ CountersAre(ServingOf(request), IpOf(request), RepoOf(request))
  /\ LimitsOf(ServingOf(request), IpOf(request), RepoOf(request))

(* A limit that was checked before the increment holds after it.           *)
LEMMA WithinAdd ==
  ASSUME NEW S, IsFiniteSet(S), NEW r, r \notin S, NEW g, NEW h, \A s \in S : h[s] = g[s],
         NEW v, NEW max \in Nat, Within(S, g, v, max),
         v = h[r] /\ max > 0 => Count(Tally(S, g), v) < max
  PROVE  Within(S \cup {r}, h, v, max)
<1> DEFINE V == {s \in S : g[s] = v}
           W == {s \in S \cup {r} : h[s] = v}
<1>1. IsFiniteSet(V) /\ Cardinality(V) \in Nat /\ r \notin V
  BY FS_Subset, FS_CardinalityType
<1>2. Cardinality(V \cup {r}) = Cardinality(V) + 1
  BY <1>1, FS_AddElement
<1>3. Count(Tally(S, g), v) = Cardinality(V)
  BY TallyCount
<1>4. v = h[r] => W = V \cup {r}
  OBVIOUS
<1>5. v # h[r] => W = V
  OBVIOUS
<1>6. max > 0 => Cardinality(V) <= max
  BY DEF Within
<1> HIDE DEF V, W
<1>7. max > 0 => Cardinality(W) <= max
  <2>1. CASE v = h[r]
    <3>1. Cardinality(W) = Cardinality(V) + 1 /\ (max > 0 => Cardinality(V) < max)
      BY <1>2, <1>3, <1>4, <2>1
    <3>. QED
      BY <1>1, <3>1
  <2>2. CASE v # h[r]
    BY <1>5, <1>6, <2>2
  <2>. QED
    BY <2>1, <2>2
<1>. QED
  BY <1>7 DEF Within, W

(* Fewer members keep a limit.                                             *)
LEMMA WithinLess ==
  ASSUME NEW S, IsFiniteSet(S), NEW T, T \subseteq S, NEW g, NEW h, \A s \in T : h[s] = g[s],
         NEW v, NEW max \in Nat, Within(S, g, v, max)
  PROVE  Within(T, h, v, max)
<1> DEFINE V == {s \in S : g[s] = v}
           W == {s \in T : h[s] = v}
<1>1. IsFiniteSet(V) /\ Cardinality(V) \in Nat
  BY FS_Subset, FS_CardinalityType
<1>2. W \subseteq V
  OBVIOUS
<1>3. IsFiniteSet(W) /\ Cardinality(W) <= Cardinality(V) /\ Cardinality(W) \in Nat
  BY <1>1, <1>2, FS_Subset, FS_CardinalityType
<1>4. max > 0 => Cardinality(V) <= max
  BY DEF Within
<1> HIDE DEF V, W
<1>5. max > 0 => Cardinality(W) <= max
  BY <1>1, <1>3, <1>4
<1>. QED
  BY <1>5 DEF Within, W

(* Nobody is served at the start.                                          *)
LEMMA LimiterStart == ProxyInit => LimiterInv
<1> SUFFICES ASSUME ProxyInit PROVE LimiterInv
  OBVIOUS
<1> DEFINE S == ServingOf(request)
<1>1. S = {}
  BY DEF ProxyInit, NoRequest, ServingOf
<1>2. IsFiniteSet(S) /\ Cardinality(S) = 0
  BY <1>1, FS_EmptySet
<1>3. ASSUME NEW g PROVE Tally(S, g) = <<>>
  BY <1>1 DEF Tally
<1>4. ASSUME NEW g, NEW v, NEW max \in Nat PROVE Within(S, g, v, max)
  <2>1. {s \in S : g[s] = v} = {}
    BY <1>1
  <2>. QED
    BY <2>1, FS_EmptySet DEF Within
<1> HIDE DEF S
<1>5. CountersAre(S, IpOf(request), RepoOf(request))
  BY <1>2, <1>3 DEF ProxyInit, LimiterInit, CountersAre
<1>6. LimitsOf(S, IpOf(request), RepoOf(request))
  BY <1>2, <1>4, LimiterAssumption DEF LimitsOf
<1>. QED
  BY <1>5, <1>6 DEF LimiterInv, S

(* acquire and release keep the counters equal to the requests served.     *)
LEMMA LimiterStep ==
  ASSUME ProxyInv, LimiterInv, NEW r \in Requests, Effect(r)
  PROVE  /\ CountersAre(ServingOf(request), IpOf(request), RepoOf(request))'
         /\ LimitsOf(ServingOf(request), IpOf(request), RepoOf(request))'
<1> DEFINE S == ServingOf(request)
           T == ServingOf(request')
           ips == IpOf(request)
           ipsN == IpOf(request')
           repos == RepoOf(request)
           reposN == RepoOf(request')
<1>0. request \in [Requests -> RequestType]
  BY DEF ProxyInv, RequestsInv
<1>1. CountersAre(S, ips, repos) /\ LimitsOf(S, ips, repos)
  BY DEF LimiterInv
<1>2. /\ IsFiniteSet(S) /\ Cardinality(S) \in Nat /\ total = Cardinality(S)
      /\ byIP = Tally(S, ips) /\ byMirror = Tally(S, repos)
  BY <1>1, FS_CardinalityType DEF CountersAre
<1>3. /\ MaxTotal \in Nat /\ MaxIP \in Nat /\ \A m \in Repositories : MirrorMax[m] \in Nat
  BY LimiterAssumption
<1>4. ASSUME NEW q, Moves(r, q)
      PROVE  /\ q.pc \in Running => T = S \cup {r}
             /\ q.pc \in {"handed", "done"} => T = S \ {r}
             /\ \A s \in Requests \ {r} : ipsN[s] = ips[s] /\ reposN[s] = repos[s]
             /\ ipsN[r] = q.call.ip /\ reposN[r] = q.call.repo
  <2>1. \A s \in Requests : request'[s] = IF s = r THEN q ELSE request[s]
    BY <1>0, <1>4 DEF Moves
  <2>2. q.pc \in Running => q.pc \notin {"idle", "handed", "done"}
    BY DEF Running
  <2>. QED
    BY <2>1, <2>2 DEF ServingOf, IpOf, RepoOf
<1>5. S \subseteq Requests /\ (r \in S <=> request[r].pc \notin {"idle", "handed", "done"})
  BY DEF ServingOf
<1>6. ips[r] = request[r].call.ip /\ repos[r] = request[r].call.repo
  BY DEF IpOf, RepoOf
<1> HIDE DEF S, T, ips, ipsN, repos, reposN
<1> SUFFICES /\ IsFiniteSet(T) /\ total' = Cardinality(T)
             /\ byIP' = Tally(T, ipsN) /\ byMirror' = Tally(T, reposN)
             /\ LimitsOf(T, ipsN, reposN)
  BY DEF CountersAre, LimitsOf, ServingOf, IpOf, RepoOf, Within, Tally, T, ipsN, reposN
<1>7. CASE Enters(r)
  <2>1. PICK q : /\ Moves(r, q) /\ q.pc = "lookup" /\ q.call \in Calls
                 /\ Acquire(q.call.ip, q.call.repo)
    BY <1>7 DEF Enters
  <2>2. r \notin S /\ T = S \cup {r}
    BY <1>4, <1>5, <1>7, <2>1 DEF Enters, Running
  <2>3. /\ \A s \in S : ipsN[s] = ips[s] /\ reposN[s] = repos[s]
        /\ ipsN[r] = q.call.ip /\ reposN[r] = q.call.repo
    BY <1>4, <1>5, <2>1, <2>2
  <2>4. IsFiniteSet(T) /\ Cardinality(T) = Cardinality(S) + 1
    BY <1>2, <2>2, FS_AddElement
  <2>5. total' = Cardinality(T) /\ (MaxTotal > 0 => Cardinality(T) <= MaxTotal)
    BY <1>2, <1>3, <2>1, <2>4 DEF Acquire, Admits
  <2>6. byIP' = Tally(T, ipsN) /\ byMirror' = Tally(T, reposN)
    <3>1. byIP' = Increment(Tally(S, ips), ipsN[r]) /\ byMirror' = Increment(Tally(S, repos), reposN[r])
      BY <1>2, <2>1, <2>3 DEF Acquire
    <3>2. Tally(S \cup {r}, ipsN) = Increment(Tally(S, ips), ipsN[r])
      BY <1>2, <2>2, <2>3, TallyAdd
    <3>3. Tally(S \cup {r}, reposN) = Increment(Tally(S, repos), reposN[r])
      BY <1>2, <2>2, <2>3, TallyAdd
    <3>. QED
      BY <2>2, <3>1, <3>2, <3>3
  <2>7. ASSUME NEW v \in Addresses PROVE Within(T, ipsN, v, MaxIP)
    <3>1. v = ipsN[r] /\ MaxIP > 0 => Count(Tally(S, ips), v) < MaxIP
      BY <1>2, <2>1, <2>3 DEF Acquire, Admits
    <3>2. Within(S, ips, v, MaxIP)
      BY <1>1 DEF LimitsOf
    <3>3. Within(S \cup {r}, ipsN, v, MaxIP)
      BY <1>2, <1>3, <2>2, <2>3, <3>1, <3>2, WithinAdd
    <3>. QED
      BY <2>2, <3>3
  <2>8. ASSUME NEW m \in Repositories PROVE Within(T, reposN, m, MirrorMax[m])
    <3>1. m = reposN[r] /\ MirrorMax[m] > 0 => Count(Tally(S, repos), m) < MirrorMax[m]
      BY <1>2, <2>1, <2>3 DEF Acquire, Admits
    <3>2. Within(S, repos, m, MirrorMax[m])
      BY <1>1 DEF LimitsOf
    <3>3. Within(S \cup {r}, reposN, m, MirrorMax[m])
      BY <1>2, <1>3, <2>2, <2>3, <3>1, <3>2, WithinAdd
    <3>. QED
      BY <2>2, <3>3
  <2>. QED
    BY <2>4, <2>5, <2>6, <2>7, <2>8 DEF LimitsOf
<1>8. ASSUME T \subseteq S, \A s \in T : ipsN[s] = ips[s] /\ reposN[s] = repos[s]
      PROVE  LimitsOf(T, ipsN, reposN) /\ IsFiniteSet(T)
  <2>1. IsFiniteSet(T) /\ Cardinality(T) \in Nat /\ Cardinality(T) <= Cardinality(S)
    BY <1>2, <1>8, FS_Subset, FS_CardinalityType
  <2>2. MaxTotal > 0 => Cardinality(T) <= MaxTotal
    BY <1>1, <1>2, <1>3, <2>1 DEF LimitsOf
  <2>3. ASSUME NEW v \in Addresses PROVE Within(T, ipsN, v, MaxIP)
    BY <1>1, <1>2, <1>3, <1>8, WithinLess DEF LimitsOf
  <2>4. ASSUME NEW m \in Repositories PROVE Within(T, reposN, m, MirrorMax[m])
    <3>1. Within(S, repos, m, MirrorMax[m])
      BY <1>1 DEF LimitsOf
    <3>. QED
      BY <1>2, <1>3, <1>8, <3>1, WithinLess
  <2>. QED
    BY <2>1, <2>2, <2>3, <2>4 DEF LimitsOf
<1>9. CASE Continues(r) \/ Settles(r)
  <2>1. PICK q : /\ Moves(r, q)
                 /\ \/ /\ request[r].pc \in Running /\ q.pc \in Running
                       /\ q.call = request[r].call
                    \/ request[r].pc \notin Running /\ q.pc \in {"handed", "done"}
    BY <1>9 DEF Continues, Settles, Going, Ended
  <2>2. request[r].pc \notin Running => request[r].pc \in {"idle", "handed", "done"}
    BY <1>0 DEF RequestType, LiveType, DoneType, NoRequest, Places, Running
  <2>3. request[r].pc \in Running => request[r].pc \notin {"idle", "handed", "done"}
    BY DEF Running
  <2>4. T = S /\ \A s \in T : ipsN[s] = ips[s] /\ reposN[s] = repos[s]
    BY <1>4, <1>5, <1>6, <2>1, <2>2, <2>3
  <2>5. Tally(T, ipsN) = Tally(S, ips) /\ Tally(T, reposN) = Tally(S, repos)
    BY <2>4, TallySame
  <2>6. total' = total /\ byIP' = byIP /\ byMirror' = byMirror
    BY <1>9 DEF Continues, Settles, limiterVars
  <2>. QED
    BY <1>2, <1>8, <2>4, <2>5, <2>6
<1>10. CASE Leaves(r)
  <2>1. PICK q : Moves(r, q) /\ q.pc \in {"handed", "done"}
    BY <1>10 DEF Leaves, Ended
  <2>2. r \in S /\ T = S \ {r}
    BY <1>4, <1>5, <1>10, <2>1 DEF Leaves, Running
  <2>3. \A s \in T : ipsN[s] = ips[s] /\ reposN[s] = repos[s]
    BY <1>4, <1>5, <2>1, <2>2
  <2>4. Cardinality(T) = Cardinality(S) - 1
    BY <1>2, <2>2, FS_RemoveElement
  <2>5. Release(ips[r], repos[r])
    BY <1>6, <1>10 DEF Leaves, FinishRequest, LeaveUnrecorded, Call
  <2>6. Tally(S \ {r}, ipsN) = Decrement(Tally(S, ips), ips[r])
    BY <1>2, <2>2, <2>3, TallyRemove
  <2>7. Tally(S \ {r}, reposN) = Decrement(Tally(S, repos), repos[r])
    BY <1>2, <2>2, <2>3, TallyRemove
  <2>8. /\ total' = Cardinality(T)
        /\ byIP' = Tally(T, ipsN) /\ byMirror' = Tally(T, reposN)
    BY <1>2, <2>2, <2>4, <2>5, <2>6, <2>7 DEF Release
  <2>. QED
    BY <1>8, <2>2, <2>3, <2>8
<1>. QED
  BY <1>7, <1>9, <1>10 DEF Effect
(* The invariant of the limiter is inductive.                              *)
LEMMA LimiterKeep == ProxyInv /\ LimiterInv /\ [ProxyNext]_proxyVars => LimiterInv'
<1> SUFFICES ASSUME ProxyInv, LimiterInv, [ProxyNext]_proxyVars PROVE LimiterInv'
  OBVIOUS
<1>1. ASSUME NEW r \in Requests, RequestStep(r) PROVE LimiterInv'
  BY <1>1, StepEffect, LimiterStep DEF LimiterInv
<1>2. CASE PurgeContent \/ PurgeObject \/ UNCHANGED proxyVars
  <2>1. request' = request /\ total' = total /\ byIP' = byIP /\ byMirror' = byMirror
    BY <1>2 DEF PurgeContent, PurgeObject, Purge, proxyVars, limiterVars
  <2>. QED
    BY <2>1 DEF LimiterInv, CountersAre, LimitsOf
<1>. QED
  BY <1>1, <1>2 DEF ProxyNext, RequestStep

(* It is what the property says.                                           *)
LEMMA LimiterShown == LimiterInv => LimiterAccounts /\ LimitsHold
<1> SUFFICES ASSUME LimiterInv PROVE LimiterAccounts /\ LimitsHold
  OBVIOUS
<1> DEFINE ips == IpOf(request)
           repos == RepoOf(request)
<1>1. ServingOf(request) = Serving /\ Serving \subseteq Requests
  BY DEF ServingOf, Serving
<1>2. \A s \in Serving : ips[s] = Call(s).ip /\ repos[s] = Call(s).repo
  BY <1>1 DEF IpOf, RepoOf, Call
<1>3. CountersAre(Serving, ips, repos) /\ LimitsOf(Serving, ips, repos)
  BY <1>1 DEF LimiterInv
<1> HIDE DEF ips, repos
<1>4. /\ \A v : {s \in Serving : ips[s] = v} = {s \in Serving : Call(s).ip = v}
      /\ \A v : {s \in Serving : repos[s] = v} = {s \in Serving : Call(s).repo = v}
      /\ {ips[s] : s \in Serving} = {Call(s).ip : s \in Serving}
      /\ {repos[s] : s \in Serving} = {Call(s).repo : s \in Serving}
  BY <1>2
<1>5. LimitsHold
  BY <1>3, <1>4 DEF LimitsOf, LimitsHold, Within
<1>6. /\ Tally(Serving, ips) = [ip \in {Call(s).ip : s \in Serving} |->
                                Cardinality({s \in Serving : Call(s).ip = ip})]
      /\ Tally(Serving, repos) = [m \in {Call(s).repo : s \in Serving} |->
                                  Cardinality({s \in Serving : Call(s).repo = m})]
  BY <1>4 DEF Tally
<1>7. LimiterAccounts
  BY <1>3, <1>6 DEF LimiterAccounts, CountersAre
<1>. QED
  BY <1>5, <1>7

-----------------------------------------------------------------------------
(* A nonempty set of numbers has a least one. *)
LEMMA LeastNumber ==
  ASSUME NEW T, T \subseteq Nat, T # {} PROVE \E n \in T : \A m \in T : n <= m
<1>1. PICK x \in T : \A y \in T : ~ (<<y, x>> \in OpToRel(<, Nat))
  BY NatLessThanWellFounded, WFMin
<1>2. \A y \in T : ~ (y < x)
  BY <1>1 DEF OpToRel
<1>. QED
  BY <1>2

(* The eviction ends, at the first number of slots that suffices. *)
LEMMA EvictedIs ==
  ASSUME NEW all, NEW slots, Len(slots) \in Nat, NEW max
  PROVE  Evicted(all, slots, max) \in 0..Len(slots)
         /\ Fits(all, slots, Evicted(all, slots, max), max)
<1> DEFINE F(n) == Fits(all, slots, n, max)
           T == {n \in 0..Len(slots) : F(n)}
           P(n) == F(n) /\ \A m \in 0..(n - 1) : ~F(m)
<1>1. F(Len(slots))
  BY DEF Fits
<1> HIDE DEF F
<1>2. T \subseteq Nat /\ T # {}
  BY <1>1
<1>3. PICK n \in T : \A m \in T : n <= m
  <2> HIDE DEF T
  <2>. QED
    BY <1>2, LeastNumber
<1>4. n \in 0..Len(slots) /\ P(n)
  BY <1>3
<1>5. Evicted(all, slots, max) = CHOOSE m \in 0..Len(slots) : P(m)
  BY DEF Evicted, F
<1> HIDE DEF P
<1>6. Evicted(all, slots, max) \in 0..Len(slots) /\ P(Evicted(all, slots, max))
  BY <1>4, <1>5
<1>. QED
  BY <1>6 DEF P, F

(* The compaction loses no key it is to keep. *)
LEMMA CompactKeeps ==
  ASSUME NEW slots, Len(slots) \in Nat, slots \in Seq(Slots(slots)), NEW keys, keys \subseteq Slots(slots)
  PROVE  keys \subseteq Slots(Compact(slots, keys))
         /\ Compact(slots, keys) \in Seq(Slots(Compact(slots, keys)))
<1> DEFINE K == {i \in DOMAIN slots : slots[i] \in keys}
           Taken(n) == slots[CHOOSE i \in K : NewSlot(K, i) = n]
           c == Compact(slots, keys)
<1>1. DOMAIN slots = 1..Len(slots)
  OBVIOUS
<1>2. IsFiniteSet(K) /\ Cardinality(K) \in Nat /\ K \subseteq 1..Len(slots)
  <2>1. K \subseteq 1..Len(slots)
    BY <1>1
  <2>2. IsFiniteSet(1..Len(slots))
    BY FS_Interval
  <2> HIDE DEF K
  <2>. QED
    BY <2>1, <2>2, FS_Subset, FS_CardinalityType
<1>3. c = [n \in 1..Cardinality(K) |-> Taken(n)]
  BY DEF Compact
<1>4. ASSUME NEW i \in K, NEW j \in K, i < j PROVE NewSlot(K, i) < NewSlot(K, j)
  <2> DEFINE I == {x \in K : x <= i}
             J == {x \in K : x <= j}
  <2>1. IsFiniteSet(J) /\ I \subseteq J /\ j \in J /\ j \notin I
    <3>1. \A x \in K : x \in Nat
      BY <1>2
    <3>2. J \subseteq K
      OBVIOUS
    <3>3. IsFiniteSet(J)
      BY <1>2, <3>2, FS_Subset
    <3> HIDE DEF K
    <3>. QED
      BY <1>4, <3>1, <3>3
  <2>2. Cardinality(I) < Cardinality(J)
    <3> HIDE DEF I, J
    <3>1. I \in SUBSET J /\ I # J
      BY <2>1
    <3>. QED
      BY <2>1, <3>1, FS_Subset, FS_CardinalityType
  <2>. QED
    BY <2>2 DEF NewSlot
<1>5. ASSUME NEW i \in K PROVE NewSlot(K, i) \in 1..Cardinality(K)
  <2> DEFINE I == {x \in K : x <= i}
  <2>1. I \subseteq K /\ i \in I
    BY <1>2
  <2>2. IsFiniteSet(I) /\ Cardinality(I) <= Cardinality(K) /\ Cardinality(I) \in Nat
    BY <1>2, <2>1, FS_Subset, FS_CardinalityType
  <2>3. Cardinality(I) # 0
    BY <2>1, <2>2, FS_EmptySet
  <2> HIDE DEF I, K
  <2>4. Cardinality(I) \in 1..Cardinality(K)
    BY <1>2, <2>2, <2>3
  <2>. QED
    BY <2>4 DEF NewSlot, I
<1>6. ASSUME NEW k \in keys PROVE k \in Slots(c)
  <2>1. PICK i \in K : slots[i] = k
    BY <1>1 DEF Slots
  <2> DEFINE n == NewSlot(K, i)
             x == CHOOSE j \in K : NewSlot(K, j) = n
  <2>2. x \in K /\ NewSlot(K, x) = n
    OBVIOUS
  <2>3. x = i
    <3>1. x \in Nat /\ i \in Nat /\ n \in Nat
      BY <1>2, <1>5, <2>2
    <3>2. ~(x < i) /\ ~(i < x)
      <4> HIDE DEF x, n, K
      <4>1. x < i => NewSlot(K, x) < NewSlot(K, i)
        BY <1>4, <2>1, <2>2
      <4>2. i < x => NewSlot(K, i) < NewSlot(K, x)
        BY <1>4, <2>1, <2>2
      <4>. QED
        BY <2>2, <3>1, <4>1, <4>2 DEF n
    <3> HIDE DEF x, n, K
    <3>. QED
      BY <3>1, <3>2
  <2>4. n \in 1..Cardinality(K)
    BY <1>5
  <2>5. c[n] = k
    BY <1>3, <2>1, <2>3, <2>4
  <2>. QED
    BY <1>3, <2>4, <2>5 DEF Slots
<1>7. c \in Seq(Slots(c))
  <2>1. c = [n \in 1..Cardinality(K) |-> c[n]]
    BY <1>3
  <2> HIDE DEF c, K
  <2>2. \A n \in 1..Cardinality(K) : c[n] \in Slots(c)
    BY <2>1 DEF Slots
  <2>. QED
    BY <1>2, <2>1, <2>2
<1>. QED
  BY <1>6, <1>7
(* The entries fit, and each of them has a slot. *)
FitsIn(e, o) ==
  /\ IsFiniteSet(DOMAIN e) /\ Cardinality(DOMAIN e) <= MaxEntries
  /\ Len(o) \in Nat /\ o \in Seq(Slots(o)) /\ DOMAIN e \subseteq Slots(o)
ValidatorsInv == FitsIn(entries, order)

(* Removing validators keeps a slot for the others.                        *)
LEMMA WithoutFits ==
  ASSUME NEW e, NEW o, FitsIn(e, o), NEW S PROVE FitsIn(Without(e, S), o)
<1>1. DOMAIN Without(e, S) \subseteq DOMAIN e
  BY DEF Without
<1>2. /\ IsFiniteSet(DOMAIN Without(e, S))
      /\ Cardinality(DOMAIN Without(e, S)) <= Cardinality(DOMAIN e)
      /\ Cardinality(DOMAIN Without(e, S)) \in Nat /\ Cardinality(DOMAIN e) \in Nat
  BY <1>1, FS_Subset, FS_CardinalityType DEF FitsIn
<1>. QED
  BY <1>1, <1>2, ValidatorsAssumption DEF FitsIn

(* put evicts until the new entry fits, and compacts without losing a      *)
(* slot.                                                                   *)
LEMMA PutFits ==
  ASSUME FitsIn(entries, order), NEW k, NEW v, Put(k, v) PROVE FitsIn(entries', order')
<1> DEFINE slots == IF k \in DOMAIN entries THEN order ELSE Append(order, k)
           all == [x \in DOMAIN entries \cup {k} |-> IF x = k THEN v ELSE entries[x]]
           n == Evicted(all, slots, MaxEntries)
           gone == {slots[i] : i \in 1..n}
           left == Without(all, gone)
           rest == SubSeq(slots, n + 1, Len(slots))
<1>1. /\ entries' = left
      /\ order' = IF Len(rest) > 2 * MaxEntries THEN Compact(rest, DOMAIN left) ELSE rest
  BY DEF Put, PutWithin
<1>2. Len(slots) \in Nat /\ slots \in Seq(Slots(slots)) /\ DOMAIN all \subseteq Slots(slots)
  <2>1. Len(order) \in Nat /\ order \in Seq(Slots(order)) /\ DOMAIN entries \subseteq Slots(order)
    BY DEF FitsIn
  <2>2. CASE k \in DOMAIN entries
    BY <2>1, <2>2
  <2>3. CASE k \notin DOMAIN entries
    <3> DEFINE U == Slots(order) \cup {k}
               a == Append(order, k)
    <3>1. order \in Seq(U) /\ k \in U
      BY <2>1
    <3>2. a \in Seq(U) /\ Len(a) = Len(order) + 1 /\ a[Len(order) + 1] = k
      BY <3>1
    <3>3. \A i \in 1..Len(order) : a[i] = order[i]
      BY <3>1
    <3>4. DOMAIN a = 1..(Len(order) + 1) /\ DOMAIN order = 1..Len(order)
      BY <2>1, <3>2
    <3> HIDE DEF a
    <3>5. Slots(order) \subseteq Slots(a) /\ k \in Slots(a)
      BY <2>1, <3>2, <3>3, <3>4 DEF Slots
    <3>6. a \in Seq(Slots(a))
      <4>1. \A i \in 1..Len(a) : a[i] \in Slots(a)
        BY <3>2, <3>4 DEF Slots
      <4>. QED
        BY <3>2, <4>1
    <3>. QED
      BY <2>1, <2>3, <3>2, <3>5, <3>6 DEF a
  <2>. QED
    BY <2>2, <2>3
<1>3. n \in 0..Len(slots) /\ Fits(all, slots, n, MaxEntries)
  <2> HIDE DEF slots, all
  <2>. QED
    BY <1>2, EvictedIs
<1>4. IsFiniteSet(DOMAIN all)
  <2>1. DOMAIN all = DOMAIN entries \cup {k}
    OBVIOUS
  <2>. QED
    BY <2>1, FS_AddElement DEF FitsIn
<1>5. DOMAIN left = DOMAIN all \ gone
  BY DEF Without
<1>6. DOMAIN slots = 1..Len(slots)
  <2> HIDE DEF slots
  <2>. QED
    BY <1>2
<1> HIDE DEF slots, all, n, left
<1>7. IsFiniteSet(DOMAIN left) /\ Cardinality(DOMAIN left) <= MaxEntries
  <2>1. IsFiniteSet(DOMAIN left)
    BY <1>4, <1>5, FS_Subset
  <2>2. CASE n = Len(slots)
    <3>1. DOMAIN left = {}
      BY <1>2, <1>5, <1>6, <2>2 DEF Slots
    <3>. QED
      BY <2>1, <3>1, FS_EmptySet, ValidatorsAssumption
  <2>3. CASE n # Len(slots)
    BY <1>3, <1>5, <2>1, <2>3 DEF Fits
  <2>. QED
    BY <2>2, <2>3
<1>8. /\ Len(rest) \in Nat /\ rest \in Seq(Slots(rest)) /\ DOMAIN left \subseteq Slots(rest)
  <2> DEFINE U == Slots(slots)
  <2>1. rest \in Seq(U) /\ Len(rest) = Len(slots) - n
    BY <1>2, <1>3
  <2>2. \A i \in 1..Len(rest) : rest[i] = slots[n + i]
    BY <1>2, <1>3
  <2>3. DOMAIN rest = 1..Len(rest)
    BY <2>1
  <2> HIDE DEF rest, U
  <2>4. rest \in Seq(Slots(rest))
    <3>1. \A i \in 1..Len(rest) : rest[i] \in Slots(rest)
      BY <2>3 DEF Slots
    <3>. QED
      BY <2>1, <3>1
  <2>5. ASSUME NEW x \in DOMAIN left PROVE x \in Slots(rest)
    <3>1. x \in Slots(slots) /\ x \notin gone
      BY <1>2, <1>5
    <3>2. PICK i \in 1..Len(slots) : x = slots[i]
      BY <1>6, <3>1 DEF Slots
    <3>3. i \notin 1..n
      BY <3>1, <3>2
    <3>4. i - n \in 1..Len(rest) /\ n + (i - n) = i
      BY <1>2, <1>3, <2>1, <3>2, <3>3
    <3>5. rest[i - n] = x
      BY <2>2, <3>2, <3>4
    <3>. QED
      BY <2>3, <3>4, <3>5 DEF Slots
  <2>. QED
    BY <1>2, <1>3, <2>1, <2>4, <2>5
<1> HIDE DEF rest
<1>9. CASE Len(rest) > 2 * MaxEntries
  <2> DEFINE c == Compact(rest, DOMAIN left)
  <2>1. DOMAIN left \subseteq Slots(c) /\ c \in Seq(Slots(c))
    BY <1>8, CompactKeeps
  <2> HIDE DEF c
  <2>2. Len(c) \in Nat
    BY <2>1
  <2>. QED
    BY <1>1, <1>7, <1>9, <2>1, <2>2 DEF FitsIn, c
<1>10. CASE ~(Len(rest) > 2 * MaxEntries)
  BY <1>1, <1>7, <1>8, <1>10 DEF FitsIn
<1>. QED
  BY <1>9, <1>10

(* The store keeps its bound and its slots.                                *)
LEMMA ValidatorsKeep == ValidatorsInv /\ [ProxyNext]_proxyVars => ValidatorsInv'
<1> SUFFICES ASSUME ValidatorsInv, [ProxyNext]_proxyVars PROVE ValidatorsInv'
  OBVIOUS
<1>1. ASSUME NEW r \in Requests, RequestStep(r) PROVE FitsIn(entries', order')
  <2>1. CASE StoreValidator(r)
    BY <2>1, PutFits DEF StoreValidator, ValidatorsInv
  <2>2. CASE ~StoreValidator(r)
    <3>1. \/ \E S : entries' = Without(entries, S) /\ order' = order
          \/ entries' = entries /\ order' = order
      BY <1>1, <2>2, ValidatorSteps DEF validatorVars
    <3>. QED
      BY <3>1, WithoutFits DEF ValidatorsInv
  <2>. QED
    BY <2>1, <2>2
<1>2. CASE PurgeContent \/ PurgeObject \/ UNCHANGED proxyVars
  <2>1. entries' = entries /\ order' = order
    BY <1>2 DEF PurgeContent, PurgeObject, Purge, proxyVars, validatorVars
  <2>. QED
    BY <2>1 DEF ValidatorsInv
<1>3. FitsIn(entries', order')
  <2>1. CASE PurgeContent \/ PurgeObject \/ UNCHANGED proxyVars
    BY <1>2, <2>1 DEF ValidatorsInv, FitsIn
  <2>. QED
    BY <1>1, <2>1 DEF ProxyNext, RequestStep
<1>. QED
  BY <1>3 DEF ValidatorsInv, FitsIn

(* The store is empty at the start.                                        *)
LEMMA ValidatorsStart == ProxyInit => ValidatorsInv
<1> SUFFICES ASSUME ProxyInit PROVE ValidatorsInv
  OBVIOUS
<1>1. entries = <<>> /\ order = <<>>
  BY DEF ProxyInit, ValidatorsInit
<1>2. DOMAIN entries = {} /\ Len(order) = 0 /\ order \in Seq(Slots(order))
  BY <1>1
<1>. QED
  BY <1>2, FS_EmptySet, ValidatorsAssumption DEF ValidatorsInv, FitsIn

(* Whatever requests overlap, and however they leave, the limiter counts   *)
(* exactly the handlers that run, its limits hold, and the store of        *)
(* validators keeps its capacity with a slot for every entry.              *)
THEOREM ResourcesBoundedHolds == ProxySpec => []ResourcesBounded
<1>1. ValidatorsInv => ValidatorsBounded
  BY DEF ValidatorsInv, FitsIn, ValidatorsBounded
<1>2. LimiterInv /\ ValidatorsInv => ResourcesBounded
  BY <1>1, LimiterShown DEF ResourcesBounded
<1>. QED
  BY <1>2, ProxyStart, ProxyKeep, LimiterStart, LimiterKeep, ValidatorsStart, ValidatorsKeep, PTL
     DEF ProxySpec
-----------------------------------------------------------------------------
(* finishRequest runs at most once for a request, and not while it runs. *)
RecordedInv ==
  /\ recorded \in [Requests -> 0..1]
  /\ \A r \in Requests : request[r].pc \notin {"handed", "done"} => recorded[r] = 0

(* A request is recorded once, at its end.                                 *)
LEMMA RecordedKeep == ProxyInv /\ RecordedInv /\ [ProxyNext]_proxyVars => RecordedInv'
<1> SUFFICES ASSUME ProxyInv, RecordedInv, [ProxyNext]_proxyVars PROVE RecordedInv'
  OBVIOUS
<1>0. request \in [Requests -> RequestType]
  BY DEF ProxyInv, RequestsInv
<1>1. ASSUME NEW r \in Requests, Effect(r) PROVE RecordedInv'
  <2>1. ASSUME NEW q, Moves(r, q)
        PROVE  \A s \in Requests : request'[s] = IF s = r THEN q ELSE request[s]
    BY <1>0, <2>1 DEF Moves
  <2>2. CASE Leaves(r)
    <3>1. PICK q : Moves(r, q) /\ q.pc \in {"handed", "done"}
      BY <2>2 DEF Leaves, Ended
    <3>2. recorded[r] = 0
      BY <2>2 DEF Leaves, Running, RecordedInv
    <3>3. recorded' = [recorded EXCEPT ![r] = @ + 1] \/ recorded' = recorded
      BY <2>2 DEF Leaves, FinishRequest, LeaveUnrecorded
    <3>. QED
      BY <2>1, <3>1, <3>2, <3>3 DEF RecordedInv
  <2>3. CASE Enters(r)
    <3>1. PICK q : Moves(r, q) /\ q.pc = "lookup"
      BY <2>3 DEF Enters
    <3>2. recorded' = recorded /\ request[r].pc = "idle"
      BY <2>3 DEF Enters
    <3>. QED
      BY <2>1, <3>1, <3>2 DEF RecordedInv
  <2>4. CASE Continues(r)
    <3>1. PICK q : Moves(r, q) /\ q.pc \in Running
      BY <2>4 DEF Continues, Going
    <3>2. recorded' = recorded /\ request[r].pc \in Running
      BY <2>4 DEF Continues
    <3>. QED
      BY <2>1, <3>1, <3>2 DEF RecordedInv, Running
  <2>5. CASE Settles(r)
    <3>1. PICK q : Moves(r, q) /\ q.pc \in {"handed", "done"}
      BY <2>5 DEF Settles, Ended
    <3>2. recorded' = recorded
      BY <2>5 DEF Settles
    <3>. QED
      BY <2>1, <3>1, <3>2 DEF RecordedInv
  <2>. QED
    BY <1>1, <2>2, <2>3, <2>4, <2>5 DEF Effect
<1>2. CASE PurgeContent \/ PurgeObject \/ UNCHANGED proxyVars
  <2>1. request' = request /\ recorded' = recorded
    BY <1>2 DEF PurgeContent, PurgeObject, Purge, proxyVars
  <2>. QED
    BY <2>1 DEF RecordedInv
<1>. QED
  BY <1>1, <1>2, StepEffect DEF ProxyNext, RequestStep

(* Every variable of the proxy has its type: in particular no body and no  *)
(* validator is newer than the present generation, the candidate a request *)
(* is at exists, and finishRequest counts a request at most once.          *)
THEOREM ProxyTypeHolds == ProxySpec => []ProxyTypeOK
<1>1. ProxyInit => RecordedInv
  BY DEF ProxyInit, RecordedInv
<1>2. ASSUME ProxyInv, RecordedInv PROVE ProxyTypeOK
  <2>1. /\ epoch \in 1..MaxEpoch /\ epoch \in Nat
        /\ generation \in [Repositories \X KeySources -> 1..epoch]
    BY <1>2, ProxyAssumption DEF ProxyInv, RequestsInv, Generations
  <2>2. ASSUME NEW r \in Requests
        PROVE  /\ request[r].pc \in {"idle", "lookup", "handed", "candidate", "fetch", "hop",
                                     "modify", "rewrite", "copy", "done"}
               /\ request[r].pc \notin {"idle", "done"} =>
                    /\ request[r].call \in Calls /\ request[r].order \in Orders \cup {<<"root">>, <<"target">>}
                    /\ request[r].next \in 1..Candidates(r)
                    /\ request[r].since \in [KeySources -> 1..epoch] /\ request[r].body \in 0..epoch
    <3>1. request[r] \in RequestType
      BY <1>2 DEF ProxyInv, RequestsInv
    <3>2. CASE request[r].pc \notin {"idle", "done"}
      <4>1. request[r] \in LiveType /\ GoodLive(request[r])
        BY <1>2, <3>2, Serves
      <4>2. request[r].since \in [KeySources -> Generations] /\ request[r].call.repo \in Repositories
        BY <4>1, LiveFields, CallFields
      <4>3. request[r].since \in [KeySources -> 1..epoch]
        <5>1. ASSUME NEW s \in KeySources PROVE request[r].since[s] \in 1..epoch
          <6>1. /\ request[r].since[s] <= generation[<<request[r].call.repo, s>>]
                /\ request[r].since[s] \in Generations
            BY <4>1, <4>2 DEF GoodLive
          <6>2. generation[<<request[r].call.repo, s>>] \in 1..epoch
            BY <2>1, <4>2
          <6>. QED
            BY <2>1, <6>1, <6>2, ProxyAssumption DEF Generations
        <5>. QED
          BY <4>2, <5>1
      <4>4. request[r].body \in 0..epoch
        BY <2>1, <4>1, LiveFields DEF GoodLive
      <4>5. request[r].next \in 1..Candidates(r)
        BY <4>1 DEF GoodLive, Candidates
      <4>. QED
        BY <4>1, <4>3, <4>4, <4>5, LiveFields DEF Places, OrderType
    <3>3. CASE request[r].pc \in {"idle", "done"}
      BY <3>3
    <3>. QED
      BY <3>2, <3>3
  <2>3. ASSUME NEW f, NewEnough(f) PROVE \A k \in DOMAIN f : f[k] \in 1..epoch
    BY <2>1, <2>3 DEF NewEnough
  <2>. QED
    BY <1>2, <2>1, <2>2, <2>3 DEF ProxyTypeOK, ProxyInv, RecordedInv
<1>. QED
  BY <1>1, <1>2, ProxyStart, ProxyKeep, RecordedKeep, PTL DEF ProxySpec



-----------------------------------------------------------------------------
(* The redirects of one request (RedirectChain).                          *)

(* A path under a base: what is left of it is the rest, with the same base *)
(* name.                                                                   *)
LEMMA BelowBase ==
  ASSUME NEW s, s \in Seq(Range(s)), NEW t, t \in Seq(Range(t)), IsStrictPrefix(s, t)
  PROVE  /\ Len(s) < Len(t) /\ SubSeq(t, Len(s) + 1, Len(t)) # <<>>
         /\ Last(SubSeq(t, Len(s) + 1, Len(t))) = Last(t)
<1>1. Len(s) \in Nat /\ Len(t) \in Nat /\ Len(s) <= Len(t)
      /\ SubSeq(s, 1, Len(s)) = SubSeq(t, 1, Len(s)) /\ s # t
  BY DEF IsStrictPrefix, IsPrefix
<1>2. SubSeq(s, 1, Len(s)) = s /\ SubSeq(t, 1, Len(t)) = t
  BY SubSeqFull
<1>3. Len(s) < Len(t)
  BY <1>1, <1>2
<1> DEFINE r == SubSeq(t, Len(s) + 1, Len(t))
<1>4. /\ Len(r) = Len(t) - Len(s) /\ \A i \in 1..Len(r) : r[i] = t[Len(s) + i]
  BY <1>1, <1>3, SubSeqProperties
<1> HIDE DEF r
<1>5. r[Len(r)] = t[Len(t)]
  <2>1. Len(r) \in 1..Len(r) /\ Len(s) + Len(r) = Len(t)
    BY <1>1, <1>3, <1>4
  <2>. QED
    BY <1>4, <2>1
<1>6. r # <<>>
  BY <1>1, <1>3, <1>4
<1> USE DEF r
<1>. QED
  BY <1>3, <1>5, <1>6 DEF Last

(* A rule appended to a base is a path below it, and what is left is the rule. *)
LEMMA BelowJoined ==
  ASSUME NEW s, s \in Seq(Range(s)), NEW r, r \in Seq(Range(r)), r # <<>>
  PROVE  IsStrictPrefix(s, s \o r) /\ SubSeq(s \o r, Len(s) + 1, Len(s \o r)) = r
<1> DEFINE S == Range(s) \cup Range(r)
<1>1. s \in Seq(S) /\ r \in Seq(S) /\ Len(s) \in Nat /\ Len(r) \in Nat /\ Len(r) > 0
  BY EmptySeq, LenProperties
<1>2. /\ s \o r \in Seq(S) /\ Len(s \o r) = Len(s) + Len(r)
      /\ \A i \in 1..Len(s) + Len(r) : (s \o r)[i] = IF i <= Len(s) THEN s[i] ELSE r[i - Len(s)]
  BY <1>1, ConcatProperties
<1>3. SubSeq(s, 1, Len(s)) = SubSeq(s \o r, 1, Len(s))
  BY <1>1, <1>2
<1>4. s # s \o r
  BY <1>1, <1>2
<1>5. SubSeq(s \o r, Len(s) + 1, Len(s \o r)) = r
  <2> DEFINE x == SubSeq(s \o r, Len(s) + 1, Len(s \o r))
  <2>1. Len(x) = Len(r) /\ x \in Seq(S) /\ \A i \in 1..Len(x) : x[i] = (s \o r)[Len(s) + i]
    BY <1>1, <1>2, SubSeqProperties
  <2>2. \A i \in 1..Len(r) : x[i] = r[i]
    BY <1>1, <1>2, <2>1
  <2>. QED
    BY <1>1, <2>1, <2>2, SeqEqual
<1>. QED
  BY <1>1, <1>2, <1>3, <1>4, <1>5 DEF IsStrictPrefix, IsPrefix

(* What passes validateRepositoryTarget is named by no blocking rule. *)
LEMMA NamedByNoRule ==
  ASSUME NEW url \in Targets, NEW own \in SUBSET Bases, ValidateRepositoryTarget(url, own)
  PROVE  /\ url.path # <<>> => <<Last(url.path)>> \notin BlockedPackages
         /\ \A b \in own, rule \in BlockedPackages :
              url # [origin |-> b.origin, path |-> b.path \o rule]
<1>1. ASSUME url.path # <<>> PROVE <<Last(url.path)>> \notin BlockedPackages
  <2>1. CASE BasesOf(url, own) = {}
    BY <1>1, <2>1 DEF ValidateRepositoryTarget, Blocked, Matches
  <2>2. CASE BasesOf(url, own) # {}
    <3>1. PICK b \in BasesOf(url, own) : TRUE
      BY <2>2
    <3>2. b \in Bases /\ IsStrictPrefix(b.path, url.path)
      BY DEF BasesOf
    <3>3. Relative(b, url) # <<>> /\ Last(Relative(b, url)) = Last(url.path)
      BY <3>2, BelowBase, RedirectAssumption DEF Relative
    <3>4. ~Blocked(Relative(b, url))
      BY <2>2, <3>1 DEF ValidateRepositoryTarget
    <3>. QED
      BY <3>3, <3>4 DEF Blocked, Matches
  <2>. QED
    BY <2>1, <2>2
<1>2. ASSUME NEW b \in own, NEW rule \in BlockedPackages,
             url = [origin |-> b.origin, path |-> b.path \o rule]
      PROVE  FALSE
  <2>1. rule # <<>> /\ IsStrictPrefix(b.path, url.path) /\ Relative(b, url) = rule
    BY <1>2, BelowJoined, RedirectAssumption DEF Relative
  <2>2. b \in BasesOf(url, own)
    BY <1>2, <2>1 DEF BasesOf
  <2>3. ~Blocked(rule)
    BY <2>1, <2>2 DEF ValidateRepositoryTarget
  <2>. QED
    BY <2>1, <2>3 DEF Blocked, Matches
<1>. QED
  BY <1>1, <1>2

(* A chain that still carries the credentials never left its origin; what  *)
(* was fetched is visited, so the next URL is a new one; and there is one  *)
(* fetch for every hop.                                                    *)
Clean(own) == {url \in Targets : ValidateRepositoryTarget(url, own)}
Sent == [url: Targets, credentials: BOOLEAN]
ChainInv ==
  /\ leg \in {"start", "send", "answer", "ended"} /\ carries \in BOOLEAN
  /\ bases \subseteq Bases /\ hop \in Nat /\ hop <= MaxHops /\ fetched \in Seq(Sent)
  /\ leg = "start" => fetched = <<>> /\ hop = 0
  /\ leg # "start" => at \in Targets
  /\ Len(fetched) = IF leg \in {"start", "send"} THEN hop ELSE hop + 1
  /\ \A i \in 1..Len(fetched) : fetched[i].url \in visited
  /\ leg = "send" => at \in visited /\ \A i \in 1..Len(fetched) : fetched[i].url # at
  /\ \A i, j \in 1..Len(fetched) : i # j => fetched[i].url # fetched[j].url
  /\ carries => \A i \in 1..Len(fetched) : fetched[i].url.origin = at.origin
  /\ \A i \in 1..Len(fetched) : fetched[i].credentials =>
       \A j \in 1..i : fetched[j].url.origin = home
  /\ kind # "token" => \A i \in 1..Len(fetched) : fetched[i].url \in Clean(bases)

(* One more fetch. *)
LEMMA OneMore ==
  ASSUME NEW s \in Seq(Sent), NEW x \in Sent
  PROVE  /\ Append(s, x) \in Seq(Sent) /\ Len(Append(s, x)) = Len(s) + 1 /\ Len(s) \in Nat
         /\ \A i \in 1..Len(s) : Append(s, x)[i] = s[i]
         /\ Append(s, x)[Len(s) + 1] = x
  BY AppendProperties

(* The chain before its first request. *)
LEMMA ChainStart == RedirectInit => ChainInv
<1> SUFFICES ASSUME RedirectInit PROVE ChainInv
  OBVIOUS
<1>1. fetched = <<>> /\ fetched \in Seq(Sent) /\ Len(fetched) = 0 /\ 1..Len(fetched) = {}
  BY DEF RedirectInit
<1>2. 0 <= MaxHops
  BY RedirectAssumption
<1>3. leg = "start" /\ carries \in BOOLEAN /\ ~carries /\ hop = 0 /\ hop \in Nat /\ Len(fetched) = hop
      /\ bases \subseteq Bases
  BY <1>1 DEF RedirectInit
<1>4. \A i \in 1..Len(fetched) : FALSE
  BY <1>1
<1>. QED
  BY <1>1, <1>2, <1>3, <1>4 DEF ChainInv

(* Every step of the chain keeps the invariant. *)
LEMMA ChainKeep == ChainInv /\ [RedirectNext]_redirectVars => ChainInv'
<1> SUFFICES ASSUME ChainInv, [RedirectNext]_redirectVars PROVE ChainInv'
  OBVIOUS
<1>1. CASE StartRequest
  BY <1>1 DEF StartRequest, BasesFor, ChainInv
<1>2. CASE SendRequest
  <2> DEFINE x == [url |-> at, credentials |-> SentCredentials]
  <2>1. /\ leg = "send" /\ leg' = "answer" /\ fetched' = Append(fetched, x)
        /\ kind' = kind /\ at' = at /\ home' = home /\ carries' = carries /\ hop' = hop
        /\ visited' = visited /\ bases' = bases
    BY <1>2 DEF SendRequest
  <2>2. x \in Sent /\ x.url = at /\ x.credentials = SentCredentials
    BY <2>1 DEF ChainInv, Sent, SentCredentials
  <2>3. /\ fetched' \in Seq(Sent) /\ Len(fetched') = Len(fetched) + 1 /\ Len(fetched) \in Nat
        /\ \A i \in 1..Len(fetched) : fetched'[i] = fetched[i]
        /\ fetched'[Len(fetched) + 1] = x
    BY <2>1, <2>2, OneMore DEF ChainInv
  <2>4. \A i \in 1..Len(fetched') : i \in 1..Len(fetched) \/ i = Len(fetched) + 1
    BY <2>3
  <2>5. \A i \in 1..Len(fetched') : fetched'[i].credentials =>
          \A j \in 1..i : fetched'[j].url.origin = home
    <3> SUFFICES ASSUME NEW i \in 1..Len(fetched'), fetched'[i].credentials, NEW j \in 1..i
                 PROVE  fetched'[j].url.origin = home
      OBVIOUS
    <3>1. CASE i \in 1..Len(fetched)
      <4>1. j \in 1..Len(fetched)
        BY <3>1, <2>3
      <4>. QED
        BY <3>1, <4>1, <2>3 DEF ChainInv
    <3>2. CASE i = Len(fetched) + 1
      <4>1. carries /\ at.origin = home
        BY <3>2, <2>2, <2>3 DEF SentCredentials
      <4>2. j \in 1..Len(fetched) \/ j = Len(fetched) + 1
        BY <3>2, <2>3
      <4>. QED
        BY <4>1, <4>2, <2>2, <2>3 DEF ChainInv
    <3>. QED
      BY <3>1, <3>2, <2>4
  <2>6. kind # "token" => \A i \in 1..Len(fetched') : fetched'[i].url \in Clean(bases)
    <3>1. kind # "token" => at \in Clean(bases)
      BY <1>2 DEF SendRequest, Permitted, ChainInv, Clean
    <3>. QED
      BY <3>1, <2>2, <2>3, <2>4 DEF ChainInv
  <2>7. \A i, j \in 1..Len(fetched') : i # j => fetched'[i].url # fetched'[j].url
    BY <2>1, <2>2, <2>3, <2>4 DEF ChainInv
  <2>8. /\ \A i \in 1..Len(fetched') : fetched'[i].url \in visited
        /\ carries => \A i \in 1..Len(fetched') : fetched'[i].url.origin = at.origin
    BY <2>1, <2>2, <2>3, <2>4 DEF ChainInv
  <2>9. Len(fetched') = hop + 1 /\ at \in Targets
    BY <2>1, <2>3 DEF ChainInv
  <2>. QED
    BY <2>1, <2>3, <2>5, <2>7, <2>6, <2>8, <2>9 DEF ChainInv
<1>3. CASE FollowRedirect
  <2>1. PICK target \in Targets : /\ Followable(target) /\ NextRedirectRequest(target)
                                  /\ at' = target /\ visited' = visited \cup {target}
    BY <1>3 DEF FollowRedirect
  <2>2. leg = "answer" /\ hop' = hop + 1 /\ leg' = "send" /\ kind' = kind /\ home' = home
        /\ fetched' = fetched /\ bases' = bases
    BY <1>3 DEF FollowRedirect
  <2>3. hop < MaxHops /\ target \notin visited /\ carries' = (carries /\ at.origin = target.origin)
    BY <2>1 DEF Followable, WithinHops, NextRedirectRequest
  <2>4. hop' \in Nat /\ hop' <= MaxHops
    BY <2>2, <2>3, RedirectAssumption DEF ChainInv
  <2>5. Len(fetched') = hop' /\ \A i \in 1..Len(fetched') : fetched'[i].url \in visited'
    BY <2>1, <2>2 DEF ChainInv
  <2>6. \A i \in 1..Len(fetched') : fetched'[i].url # at'
    BY <2>1, <2>2, <2>3 DEF ChainInv
  <2>7. carries' \in BOOLEAN /\ (carries' => \A i \in 1..Len(fetched') : fetched'[i].url.origin = at'.origin)
    <3>1. carries' => carries /\ at.origin = target.origin
      BY <2>3
    <3>. QED
      BY <3>1, <2>1, <2>2, <2>3 DEF ChainInv
  <2>. QED
    BY <2>1, <2>2, <2>4, <2>5, <2>6, <2>7 DEF ChainInv
<1>4. CASE RefuseRedirect \/ EndChain
  BY <1>4 DEF RefuseRedirect, EndChain, ChainInv
<1>5. CASE UNCHANGED redirectVars
  BY <1>5 DEF redirectVars, ChainInv
<1>. QED
  BY <1>1, <1>2, <1>3, <1>4, <1>5 DEF RedirectNext

(* However the origins redirect, the policy of the first request holds for *)
(* the whole chain: credentials go to their own origin and are not         *)
(* restored when a chain returns to it, nothing is fetched that a rule     *)
(* names (as a base name, or as a path under an upstream the route keeps   *)
(* in the repository: all of them, of an auxiliary route the one it was    *)
(* signed for), no URL is fetched twice, and the number of hops is bounded *)
(* (followRedirects, nextRedirectRequest, validateRepositoryTarget).       *)
THEOREM RedirectsKeepPolicyHolds == RedirectSpec => []RedirectsKeepPolicy
<1>1. ChainInv => RedirectsKeepPolicy
  <2> SUFFICES ASSUME ChainInv PROVE RedirectsKeepPolicy
    OBVIOUS
  <2>1. DOMAIN fetched = 1..Len(fetched) /\ Len(fetched) \in Nat
        /\ \A i \in 1..Len(fetched) : fetched[i].url \in Targets
    <3>1. fetched \in Seq(Sent)
      BY DEF ChainInv
    <3>2. \A i \in 1..Len(fetched) : fetched[i] \in Sent
      BY <3>1, ElementOfSeq
    <3>. QED
      BY <3>1, <3>2, LenProperties DEF Sent
  <2>2. CredentialsStayHome
    BY <2>1 DEF ChainInv, CredentialsStayHome
  <2>3. BlockedNeverFetched
    BY <2>1, NamedByNoRule DEF ChainInv, Clean, BlockedNeverFetched, UnnamedUnder
  <2>4. ChainIsBounded
    BY <2>1, RedirectAssumption DEF ChainInv, ChainIsBounded
  <2>. QED
    BY <2>2, <2>3, <2>4 DEF RedirectsKeepPolicy
<1>. QED
  BY <1>1, ChainStart, ChainKeep, PTL DEF RedirectSpec

-----------------------------------------------------------------------------
(* Which repository answers (RepositoryRoutes).                            *)

IsPath(p) == p \in Seq(Range(p))

(* Every sequence is one over what occurs in it. *)
LEMMA SeqIsPath ==
  ASSUME NEW S, NEW s \in Seq(S) PROVE IsPath(s)
<1>1. /\ Len(s) \in Nat /\ DOMAIN s = 1..Len(s) /\ s \in [1..Len(s) -> S]
  BY LenProperties
<1>2. \A i \in 1..Len(s) : s[i] \in Range(s)
  BY <1>1 DEF Range
<1>3. s \in [1..Len(s) -> Range(s)]
  BY <1>1, <1>2
<1>. QED
  BY <1>1, <1>3, SeqDef DEF IsPath

(* Nothing is a path of no segments. *)
LEMMA EmptyPath == IsPath(<<>>) /\ Len(<<>>) = 0
<1>1. <<>> \in Seq({})
  OBVIOUS
<1>. QED
  BY <1>1, SeqIsPath

(* A prefix, position by position. *)
LEMMA PrefixIs ==
  ASSUME NEW a, IsPath(a), NEW p, IsPath(p)
  PROVE  IsPrefix(a, p) <=> Len(a) <= Len(p) /\ \A k \in 1..Len(a) : a[k] = p[k]
<1>1. Len(a) \in Nat /\ Len(p) \in Nat
  BY DEF IsPath
<1>2. CASE Len(a) <= Len(p)
  <2>1. SubSeq(a, 1, Len(a)) = a
    BY <1>1 DEF IsPath
  <2>2. /\ Len(SubSeq(p, 1, Len(a))) = Len(a)
        /\ \A k \in 1..Len(a) : SubSeq(p, 1, Len(a))[k] = p[k]
    BY <1>1, <1>2 DEF IsPath
  <2>3. (\A k \in 1..Len(a) : a[k] = p[k]) => a = SubSeq(p, 1, Len(a))
    <3> SUFFICES ASSUME \A k \in 1..Len(a) : a[k] = p[k] PROVE a = SubSeq(p, 1, Len(a))
      OBVIOUS
    <3>1. a \in Seq(Range(a) \cup Range(p)) /\ SubSeq(p, 1, Len(a)) \in Seq(Range(a) \cup Range(p))
      BY <1>1, <1>2 DEF IsPath
    <3>. QED
      BY <3>1, <2>2, SeqEqual
  <2>. QED
    BY <1>2, <2>1, <2>2, <2>3 DEF IsPrefix
<1>3. CASE ~(Len(a) <= Len(p))
  BY <1>3 DEF IsPrefix
<1>. QED
  BY <1>2, <1>3

(* Two paths above the same path overlap. *)
LEMMA AboveOverlap ==
  ASSUME NEW a, IsPath(a), NEW b, IsPath(b), NEW p, IsPath(p), IsPrefix(a, p), IsPrefix(b, p)
  PROVE  RoutePathsOverlap(a, b)
<1>1. Len(a) \in Nat /\ Len(b) \in Nat
  BY DEF IsPath
<1>2. /\ \A k \in 1..Len(a) : a[k] = p[k]
      /\ \A k \in 1..Len(b) : b[k] = p[k]
  BY PrefixIs
<1>3. CASE Len(a) <= Len(b)
  <2>1. \A k \in 1..Len(a) : k \in 1..Len(b)
    BY <1>1, <1>3
  <2>. QED
    BY <1>2, <1>3, <2>1, PrefixIs DEF RoutePathsOverlap
<1>4. CASE Len(b) <= Len(a)
  <2>1. \A k \in 1..Len(b) : k \in 1..Len(a)
    BY <1>1, <1>4
  <2>. QED
    BY <1>2, <1>4, <2>1, PrefixIs DEF RoutePathsOverlap
<1>. QED
  BY <1>1, <1>3, <1>4

(* The address below the base path. *)
LEMMA BelowTheBase ==
  ASSUME NEW b, IsPath(b), NEW p, IsPath(p)
  PROVE  /\ IsPath(b \o p) /\ IsPrefix(b, b \o p) /\ Len(b \o p) = Len(b) + Len(p)
         /\ p # <<>> => Len(b \o p) > Len(b)
         /\ p # <<>> => SubSeq(b \o p, Len(b) + 1, Len(b \o p)) = p
         /\ b = <<>> => b \o p = p
<1> DEFINE S == Range(b) \cup Range(p)
<1>1. b \in Seq(S) /\ p \in Seq(S) /\ Len(b) \in Nat /\ Len(p) \in Nat
  BY DEF IsPath
<1>2. /\ b \o p \in Seq(S) /\ Len(b \o p) = Len(b) + Len(p)
      /\ \A i \in 1..Len(b) + Len(p) : (b \o p)[i] = IF i <= Len(b) THEN b[i] ELSE p[i - Len(b)]
  BY <1>1, ConcatProperties
<1>3. IsPath(b \o p)
  BY <1>2, SeqIsPath
<1>4. IsPrefix(b, b \o p)
  <2>1. Len(b) <= Len(b \o p) /\ \A k \in 1..Len(b) : b[k] = (b \o p)[k]
    BY <1>1, <1>2
  <2>. QED
    BY <1>3, <2>1, PrefixIs
<1>5. ASSUME p # <<>> PROVE Len(b \o p) > Len(b) /\ SubSeq(b \o p, Len(b) + 1, Len(b \o p)) = p
  <2> DEFINE x == SubSeq(b \o p, Len(b) + 1, Len(b \o p))
  <2>1. Len(p) > 0
    BY <1>1, <1>5, EmptySeq
  <2>2. Len(x) = Len(p) /\ x \in Seq(S) /\ \A i \in 1..Len(x) : x[i] = (b \o p)[Len(b) + i]
    BY <1>1, <1>2, <2>1, SubSeqProperties
  <2>3. \A i \in 1..Len(p) : x[i] = p[i]
    BY <1>1, <1>2, <2>2
  <2>. QED
    BY <1>1, <1>2, <2>1, <2>2, <2>3, SeqEqual
<1>6. ASSUME b = <<>> PROVE b \o p = p
  BY <1>1, <1>6
<1>. QED
  BY <1>2, <1>3, <1>4, <1>5, <1>6

(* What is left below a base path is a path; below itself nothing is left. *)
LEMMA BelowIsPath ==
  ASSUME NEW b, IsPath(b), NEW p, IsPath(p), IsPrefix(b, p)
  PROVE  /\ IsPath(Below(b, p)) /\ Len(Below(b, p)) = Len(p) - Len(b) /\ Below(p, p) = <<>>
         /\ \A k \in 1..Len(p) - Len(b) : Below(b, p)[k] = p[Len(b) + k]
<1>1. p \in Seq(Range(p)) /\ Len(b) \in Nat /\ Len(p) \in Nat /\ Len(b) <= Len(p)
  BY PrefixIs DEF IsPath
<1>2. CASE Len(b) < Len(p)
  <2>1. /\ SubSeq(p, Len(b) + 1, Len(p)) \in Seq(Range(p))
        /\ Len(SubSeq(p, Len(b) + 1, Len(p))) = Len(p) - Len(b)
        /\ \A k \in 1..Len(p) - Len(b) : SubSeq(p, Len(b) + 1, Len(p))[k] = p[Len(b) + k]
    BY <1>1, <1>2, SubSeqProperties
  <2>2. SubSeq(p, Len(p) + 1, Len(p)) = <<>>
    BY <1>1
  <2>. QED
    BY <2>1, <2>2, SeqIsPath DEF Below
<1>3. CASE Len(b) = Len(p)
  <2>1. SubSeq(p, Len(p) + 1, Len(p)) = <<>>
    BY <1>1
  <2>2. Below(b, p) = <<>> /\ Below(p, p) = <<>>
    BY <1>3, <2>1 DEF Below
  <2>. QED
    BY <1>1, <1>3, <2>2, EmptyPath
<1>. QED
  BY <1>1, <1>2, <1>3

(* What begins with a base path and more has more below it.                *)
LEMMA MoreBelow ==
  ASSUME NEW b, IsPath(b), NEW q, IsPath(q), NEW p, IsPath(p), IsPrefix(b \o q, p)
  PROVE  IsPrefix(b, p) /\ IsPath(Below(b, p)) /\ IsPrefix(q, Below(b, p))
<1> DEFINE S == Range(b) \cup Range(q)
<1>1. /\ b \in Seq(S) /\ q \in Seq(S) /\ Len(b) \in Nat /\ Len(q) \in Nat /\ Len(p) \in Nat
  BY DEF IsPath
<1>2. /\ IsPath(b \o q) /\ Len(b \o q) = Len(b) + Len(q)
      /\ \A k \in 1..Len(b) + Len(q) : (b \o q)[k] = IF k <= Len(b) THEN b[k] ELSE q[k - Len(b)]
  BY <1>1, BelowTheBase, ConcatProperties
<1>3. Len(b) + Len(q) <= Len(p) /\ \A k \in 1..Len(b) + Len(q) : (b \o q)[k] = p[k]
  <2>1. Len(b \o q) <= Len(p) /\ \A k \in 1..Len(b \o q) : (b \o q)[k] = p[k]
    BY <1>2, PrefixIs
  <2>. QED
    BY <1>2, <2>1
<1>4. IsPrefix(b, p)
  <2>1. Len(b) <= Len(p) /\ \A k \in 1..Len(b) : b[k] = p[k]
    BY <1>1, <1>2, <1>3
  <2>. QED
    BY <2>1, PrefixIs
<1>5. /\ IsPath(Below(b, p)) /\ Len(Below(b, p)) = Len(p) - Len(b)
      /\ \A k \in 1..Len(p) - Len(b) : Below(b, p)[k] = p[Len(b) + k]
  BY <1>4, BelowIsPath
<1> HIDE DEF S
<1>6. \A k \in 1..Len(q) : q[k] = Below(b, p)[k]
  <2> SUFFICES ASSUME NEW k \in 1..Len(q) PROVE q[k] = Below(b, p)[k]
    OBVIOUS
  <2>1. /\ Len(b) + k \in 1..Len(b) + Len(q) /\ ~(Len(b) + k <= Len(b)) /\ (Len(b) + k) - Len(b) = k
        /\ k \in 1..Len(p) - Len(b)
    BY <1>1, <1>3
  <2>. QED
    BY <1>2, <1>3, <1>5, <2>1
<1>7. Len(q) <= Len(Below(b, p))
  BY <1>1, <1>3, <1>5
<1>. QED
  BY <1>4, <1>5, <1>6, <1>7, PrefixIs

(* The same, for the address of a repository. *)
LEMMA AddressIs ==
  ASSUME NEW b, NEW p, IsPath(p) /\ p # <<>> /\ IsPath(b)
  PROVE  /\ IsPath(b \o p) /\ IsPrefix(b, b \o p) /\ Len(b \o p) > Len(b)
         /\ Below(b, b \o p) = p /\ (b = <<>> => b \o p = p)
  BY BelowTheBase DEF Below

-----------------------------------------------------------------------------
(* A table of repositories: what Rows offers, or nothing. *)
Table == [Ids -> Rows \cup {NoRow}]
(* The snapshot was checked against the rules, under the settings of the   *)
(* time.                                                                   *)
RoutesInv ==
  /\ layout \in Layouts /\ checked \in Layouts
  /\ desired \in Table /\ routes \in Table
  /\ ValidateRouteConflicts(routes, checked)
  /\ TokensGoToConfigured

(* The paths of a table, and the reserved ones, are paths. *)
LEMMA TablePaths ==
  ASSUME NEW rows \in Table
  PROVE  /\ \A i \in PathRows(rows) : i \in Ids /\ rows[i] \in Rows /\ IsPath(rows[i].path)
         /\ \A i \in HostRows(rows) : i \in Ids /\ rows[i] \in Rows /\ rows[i].host # "elsewhere"
         /\ \A i \in Ids : rows[i] # NoRow => i \in PathRows(rows) \cup HostRows(rows)
         /\ PathRows(rows) \cap HostRows(rows) = {}
<1>1. \A i \in Ids : rows[i] \in Rows \/ (rows[i] = NoRow /\ rows[i].mode = "none")
  BY DEF Table, NoRow
<1>. QED
  BY <1>1, RoutesAssumption DEF PathRows, HostRows, IsPath

(* What a layout holds.                                                    *)
LEMMA LayoutIs ==
  ASSUME NEW l \in Layouts
  PROVE  /\ IsPath(l.admin) /\ IsPath(l.base) /\ l.console # "elsewhere" /\ l.console # l.shared
         /\ l.base # <<>> => l.base[1] # "_mirrorrelay" /\ l.base[1] # "_mirror_auth"
<1>1. /\ l.admin \in Seq(Range(l.admin)) /\ l.base \in Seq(Range(l.base))
      /\ l.base # <<>> => l.base[1] \notin {"_repo", "_mirrorrelay", "_mirror_auth"}
      /\ l.console \notin {"elsewhere", l.shared}
  BY RoutesAssumption
<1>. QED
  BY <1>1 DEF IsPath

(* A path of one or two segments.                                          *)
LEMMA ShortPaths == \A v, w : IsPath(<<v>>) /\ IsPath(<<v, w>>)
<1> SUFFICES ASSUME NEW v, NEW w PROVE IsPath(<<v>>) /\ IsPath(<<v, w>>)
  OBVIOUS
<1>1. <<v>> \in Seq({v, w}) /\ <<v, w>> \in Seq({v, w})
  OBVIOUS
<1>. QED
  BY <1>1, SeqIsPath

(* Reserved paths are paths.                                               *)
LEMMA ReservedPaths ==
  ASSUME NEW l \in Layouts, NEW p \in Reserved(l) PROVE IsPath(p)
  BY LayoutIs, ShortPaths DEF Reserved, SystemPaths

(* What begins with a path that begins with a segment.                     *)
LEMMA FirstSegment ==
  ASSUME NEW p, IsPath(p), NEW v, NEW w, IsPrefix(<<v>>, p) \/ IsPrefix(<<v, w>>, p)
  PROVE  IsPrefix(<<v>>, p) /\ p[1] = v /\ p # <<>>
<1>1. IsPath(<<v>>) /\ IsPath(<<v, w>>) /\ Len(<<v>>) = 1 /\ Len(<<v, w>>) = 2 /\ Len(p) \in Nat
  BY ShortPaths DEF IsPath
<1>2. 1 <= Len(p) /\ p[1] = v
  BY <1>1, PrefixIs
<1>3. IsPrefix(<<v>>, p)
  BY <1>1, <1>2, PrefixIs
<1>. QED
  BY <1>2, <1>3

(* Nobody has the empty path: it overlaps every reserved one. *)
LEMMA NoEmptyPath ==
  ASSUME NEW rows \in Table, NEW l \in Layouts, ValidateRouteConflicts(rows, l),
         NEW i \in PathRows(rows)
  PROVE  rows[i].path # <<>>
<1> SUFFICES ASSUME rows[i].path = <<>> PROVE FALSE
  OBVIOUS
<1>1. <<"healthz">> \in Reserved(l) /\ IsPath(<<"healthz">>) /\ IsPath(rows[i].path)
  BY ReservedPaths, TablePaths DEF Reserved, SystemPaths
<1>2. IsPrefix(rows[i].path, <<"healthz">>)
  BY <1>1, PrefixIs
<1>. QED
  BY <1>1, <1>2 DEF ValidateRouteConflicts, RoutePathsOverlap

(* Under the rules one repository at most is at or above a path. *)
LEMMA OneAbove ==
  ASSUME NEW rows \in Table, NEW l, ValidateRouteConflicts(rows, l), NEW p, IsPath(p),
         NEW i \in AtOrAbove(rows, p)
  PROVE  AtOrAbove(rows, p) = {i}
<1> SUFFICES ASSUME NEW j \in AtOrAbove(rows, p), j # i PROVE FALSE
  OBVIOUS
<1>1. /\ i \in PathRows(rows) /\ j \in PathRows(rows) /\ i \in Nat /\ j \in Nat
      /\ IsPath(rows[i].path) /\ IsPath(rows[j].path)
      /\ IsPrefix(rows[i].path, p) /\ IsPrefix(rows[j].path, p)
  BY TablePaths, RoutesAssumption DEF AtOrAbove
<1>2. RoutePathsOverlap(rows[i].path, rows[j].path) /\ RoutePathsOverlap(rows[j].path, rows[i].path)
  BY <1>1, AboveOverlap
<1>3. i > j \/ j > i
  BY <1>1
<1>. QED
  BY <1>1, <1>2, <1>3 DEF ValidateRouteConflicts

(* The longest of one is that one.                                         *)
LEMMA LongestOfOne ==
  ASSUME NEW rows, NEW i \in Ids PROVE Longest(rows, {i}) = i
<1>1. Longest(rows, {i}) \in {i}
  BY RoutesAssumption DEF Longest
<1>. QED
  BY <1>1

(* The last of one is that one.                                            *)
LEMMA MaxOfOne ==
  ASSUME NEW i \in Ids PROVE Max({i}) = i
<1>1. i \in Nat
  BY RoutesAssumption
<1>. QED
  BY <1>1 DEF Max

-----------------------------------------------------------------------------
(* Every step leaves the old snapshot, or one that was checked. *)
LEMMA ActivateKeeps ==
  ASSUME RoutesInv, NEW rows \in Table, NEW l \in Layouts, Activate(rows, l)
  PROVE  routes' \in Table /\ checked' \in Layouts /\ ValidateRouteConflicts(routes, checked)'
<1>1. CASE ValidateRouteConflicts(rows, l) /\ routes' = rows /\ checked' = l
  BY <1>1 DEF ValidateRouteConflicts, PathRows, HostRows, Reserved
<1>2. CASE UNCHANGED <<routes, checked>>
  BY <1>2 DEF RoutesInv, ValidateRouteConflicts, PathRows, HostRows, Reserved
<1>. QED
  BY <1>1, <1>2 DEF Activate

(* A step that leaves the snapshot alone.                                  *)
LEMMA SameSnapshot ==
  ASSUME RoutesInv, UNCHANGED <<routes, checked>>
  PROVE  routes' \in Table /\ checked' \in Layouts /\ ValidateRouteConflicts(routes, checked)'
  BY DEF RoutesInv, ValidateRouteConflicts, PathRows, HostRows, Reserved

(* A step that asks for no token.                                          *)
LEMMA NobodyAsked == asked' = Nobody => TokensGoToConfigured'
  BY DEF TokensGoToConfigured

(* There are no repositories at the start.                                 *)
LEMMA RoutesStart == RoutesInit => RoutesInv
<1> SUFFICES ASSUME RoutesInit PROVE RoutesInv
  OBVIOUS
<1>1. routes \in Table /\ desired \in Table /\ layout \in Layouts /\ checked \in Layouts
  BY DEF RoutesInit, Table
<1>2. PathRows(routes) = {} /\ HostRows(routes) = {}
  BY DEF RoutesInit, PathRows, HostRows, NoRow
<1>. QED
  BY <1>1, <1>2 DEF RoutesInit, RoutesInv, ValidateRouteConflicts, TokensGoToConfigured

(* The rules hold for every snapshot: inductive.                           *)
LEMMA RoutesKeep == RoutesInv /\ [RoutesNext]_routesVars => RoutesInv'
<1> SUFFICES ASSUME RoutesInv, [RoutesNext]_routesVars PROVE RoutesInv'
  OBVIOUS
<1>0. desired \in Table /\ layout \in Layouts
  BY DEF RoutesInv
<1>1. ASSUME NEW i \in Ids, NEW row \in Rows, SaveRepository(i, row) PROVE RoutesInv'
  <2> DEFINE proposed == [desired EXCEPT ![i] = row]
  <2>1. proposed \in Table
    BY <1>0 DEF Table
  <2>2. desired' = proposed /\ Activate(proposed, layout) /\ asked' = Nobody /\ layout' = layout
    BY <1>1 DEF SaveRepository
  <2>. QED
    BY <1>0, <2>1, <2>2, ActivateKeeps, NobodyAsked DEF RoutesInv
<1>2. ASSUME NEW i \in Ids, DeleteRepository(i) PROVE RoutesInv'
  <2>1. /\ desired' = [desired EXCEPT ![i] = NoRow] /\ Activate(desired', layout)
        /\ asked' = Nobody /\ layout' = layout
    BY <1>2 DEF DeleteRepository
  <2>2. desired' \in Table
    BY <1>0, <2>1 DEF Table
  <2>. QED
    BY <1>0, <2>1, <2>2, ActivateKeeps, NobodyAsked DEF RoutesInv
<1>3. CASE RefreshRoutes
  BY <1>0, <1>3, ActivateKeeps, NobodyAsked DEF RefreshRoutes, RoutesInv
<1>4. ASSUME NEW l \in Layouts, RestartWith(l) PROVE RoutesInv'
  BY <1>0, <1>4, ActivateKeeps, NobodyAsked DEF RestartWith, RoutesInv
<1>5. ASSUME NEW i \in Ids, AskRegistry(i) PROVE RoutesInv'
  BY <1>5, SameSnapshot, NobodyAsked DEF AskRegistry, RoutesInv
<1>6. ASSUME NEW realm, Challenge(realm) PROVE RoutesInv'
  BY <1>6, SameSnapshot, NobodyAsked DEF Challenge, RoutesInv
<1>7. ASSUME NEW i \in Ids, AskToken(i) PROVE RoutesInv'
  <2>1. UNCHANGED <<layout, desired, routes, checked>>
    BY <1>7 DEF AskToken
  <2>2. TokensGoToConfigured'
    BY <1>7 DEF AskToken, TokenTarget, TokensGoToConfigured
  <2>. QED
    BY <2>1, <2>2, SameSnapshot DEF RoutesInv
<1>8. CASE UNCHANGED routesVars
  BY <1>8, SameSnapshot DEF routesVars, RoutesInv, TokensGoToConfigured
<1>. QED
  BY <1>1, <1>2, <1>3, <1>4, <1>5, <1>6, <1>7, <1>8 DEF RoutesNext

-----------------------------------------------------------------------------
(* What the rules are for. *)
LEMMA Unambiguous == RoutesInv => RoutesUnambiguous
<1> SUFFICES ASSUME RoutesInv PROVE RoutesUnambiguous
  OBVIOUS
<1>1. routes \in Table /\ ValidateRouteConflicts(routes, checked) /\ \A p \in Probes : IsPath(p)
  BY RoutesAssumption DEF RoutesInv, IsPath
<1>2. \A path \in Probes : \A i, j \in AtOrAbove(routes, path) : i = j
  BY <1>1, OneAbove
<1>. QED
  BY <1>1, <1>2 DEF RoutesUnambiguous, ValidateRouteConflicts

(* No repository's path begins with a system path. *)
LEMMA NotSystem ==
  ASSUME NEW rows, NEW l, ValidateRouteConflicts(rows, l), NEW i \in PathRows(rows),
         NEW w \in {"healthz", "metrics", "_mirror_auth", "_mirrorrelay"}
  PROVE  ~IsPrefix(<<w>>, rows[i].path)
<1>1. <<w>> \in Reserved(l)
  BY DEF Reserved, SystemPaths
<1>. QED
  BY <1>1 DEF ValidateRouteConflicts, RoutePathsOverlap

(* What Route finds, and how. *)
LEMMA RouteFinds ==
  ASSUME NEW rows \in Table, NEW l, ValidateRouteConflicts(rows, l), NEW base, IsPath(base),
         NEW host, NEW p, IsPath(p), NEW i \in Ids, Route(rows, base, host, p).id = i
  PROVE  \/ i \in HostRows(rows) /\ rows[i].host = host
         \/ i \in AtOrAbove(rows, p)
         \/ IsPrefix(base, p) /\ IsPath(Below(base, p)) /\ i \in AtOrAbove(rows, Below(base, p))
<1> DEFINE named == {j \in HostRows(rows) : rows[j].host = host}
           inside == base # <<>> /\ IsPrefix(base, p) /\ Len(p) > Len(base)
           sub == Below(base, p)
<1>1. CASE named # {} /\ rows[Max(named)].enabled
  <2>1. PICK j \in named : TRUE
    BY <1>1
  <2>2. named = {j} /\ j \in Ids
    BY <2>1 DEF ValidateRouteConflicts, HostRows
  <2>3. Max(named) = j
    BY <2>2, MaxOfOne
  <2>4. Route(rows, base, host, p) = Routed(j, p)
    BY <1>1, <2>3 DEF Route
  <2>5. i = j
    BY <2>4 DEF Routed
  <2>. QED
    BY <2>1, <2>5
<1> DEFINE byHost == named # {} /\ rows[Max(named)].enabled
<1>2. CASE ~byHost /\ AtOrAbove(rows, p) # {}
  <2>1. PICK j \in AtOrAbove(rows, p) : TRUE
    BY <1>2
  <2>2. AtOrAbove(rows, p) = {j} /\ j \in Ids
    BY <2>1, OneAbove DEF AtOrAbove, PathRows
  <2>3. Longest(rows, AtOrAbove(rows, p)) = j
    BY <2>2, LongestOfOne
  <2>4. Route(rows, base, host, p) = Routed(j, Below(rows[j].path, p))
    BY <1>2, <2>3 DEF Route
  <2>5. i = j
    BY <2>4 DEF Routed
  <2>. QED
    BY <2>1, <2>5
<1>3. CASE ~byHost /\ AtOrAbove(rows, p) = {} /\ inside /\ AtOrAbove(rows, sub) # {}
  <2>1. PICK j \in AtOrAbove(rows, sub) : TRUE
    BY <1>3
  <2>2. IsPath(sub)
    BY <1>3, BelowIsPath
  <2>3. AtOrAbove(rows, sub) = {j} /\ j \in Ids
    BY <2>1, <2>2, OneAbove DEF AtOrAbove, PathRows
  <2>4. Longest(rows, AtOrAbove(rows, sub)) = j
    BY <2>3, LongestOfOne
  <2>5. Route(rows, base, host, p) = Routed(j, Below(rows[j].path, sub))
    BY <1>3, <2>4 DEF Route
  <2>6. i = j
    BY <2>5 DEF Routed
  <2>. QED
    BY <1>3, <2>1, <2>2, <2>6
<1>4. CASE ~byHost /\ AtOrAbove(rows, p) = {} /\ ~(inside /\ AtOrAbove(rows, sub) # {})
  <2>1. Route(rows, base, host, p) = Unrouted
    BY <1>4 DEF Route
  <2>2. i = 0
    BY <2>1 DEF Routed, Unrouted
  <2>. QED
    BY <2>2, RoutesAssumption
<1>. QED
  BY <1>1, <1>2, <1>3, <1>4

(* Who has a request that a repository has.                                *)
LEMMA DispatchFinds ==
  ASSUME RoutesInv, NEW host, NEW p \in Probes, NEW i \in Ids,
         Dispatch(routes, layout, host, p).id = i
  PROVE  /\ ~AnswersItself(layout, p) /\ IsPath(p)
         /\ \/ i \in HostRows(routes) /\ routes[i].host = host
            \/ i \in AtOrAbove(routes, p)
            \/ /\ IsPrefix(layout.base, p) /\ IsPath(Below(layout.base, p))
               /\ i \in AtOrAbove(routes, Below(layout.base, p))
<1>1. IsPath(p) /\ IsPath(layout.base) /\ i # 0
  BY RoutesAssumption, LayoutIs DEF RoutesInv, IsPath
<1>2. ~AnswersItself(layout, p) /\ Route(routes, layout.base, host, p).id = i
  <2>1. Unrouted.id = 0
    BY DEF Routed, Unrouted
  <2>. QED
    BY <1>1, <2>1 DEF Dispatch
<1>. QED
  BY <1>1, <1>2, RouteFinds DEF RoutesInv

(* Nothing at or above a reserved path overlaps it, so nothing is found    *)
(* there.                                                                  *)
LEMMA Reserves == RoutesInv => ReservedUnrouted
<1> SUFFICES ASSUME RoutesInv PROVE ReservedUnrouted
  OBVIOUS
<1> DEFINE Taken(i, p) == Dispatch(routes, layout, layout.shared, p).id = i
<1>1. /\ routes \in Table /\ ValidateRouteConflicts(routes, checked) /\ layout \in Layouts
      /\ checked \in Layouts /\ IsPath(layout.base)
  BY LayoutIs DEF RoutesInv
<1>2. \A i \in PathRows(routes) : i \in Ids /\ i \notin HostRows(routes) /\ IsPath(routes[i].path)
  BY <1>1, TablePaths
<1>3. \A p : \A i \in Ids : i \in AtOrAbove(routes, p) =>
        i \in PathRows(routes) /\ IsPrefix(routes[i].path, p)
  BY DEF AtOrAbove
<1>4. ASSUME NEW i \in HostRows(routes), NEW p \in Probes, checked = layout, Taken(i, p) PROVE FALSE
  <2>1. i \in Ids /\ i \notin PathRows(routes)
    BY <1>1, TablePaths
  <2>2. routes[i].host = layout.shared
    BY <1>3, <1>4, <2>1, DispatchFinds
  <2>. QED
    BY <1>1, <1>4, <2>2 DEF ValidateRouteConflicts
<1>5. ASSUME NEW i \in PathRows(routes), NEW p \in Probes, NEW q \in Reserved(layout),
             IsPrefix(q, p), Taken(i, p)
      PROVE  IsPrefix(q, layout.base)
  <2>1. /\ ~AnswersItself(layout, p) /\ IsPath(p)
        /\ \/ i \in AtOrAbove(routes, p)
           \/ /\ IsPrefix(layout.base, p) /\ IsPath(Below(layout.base, p))
              /\ i \in AtOrAbove(routes, Below(layout.base, p))
    BY <1>2, <1>5, DispatchFinds
  <2>2. q \in SystemPaths /\ IsPath(q)
    BY <1>1, <1>5, <2>1, ReservedPaths DEF Reserved, AnswersItself, IsAdminPath
  <2>3. q \in Reserved(checked)
    BY <2>2 DEF Reserved
  <2>4. ~RoutePathsOverlap(routes[i].path, q)
    BY <1>1, <2>3 DEF ValidateRouteConflicts
  <2>5. i \notin AtOrAbove(routes, p)
    BY <1>2, <1>3, <1>5, <2>1, <2>2, <2>4, AboveOverlap
  <2>6. IsPrefix(layout.base, p) /\ IsPath(Below(layout.base, p))
        /\ IsPrefix(routes[i].path, Below(layout.base, p))
    BY <1>2, <1>3, <2>1, <2>5
  <2>7. layout.base # <<>>
    <3> SUFFICES ASSUME layout.base = <<>> PROVE FALSE
      OBVIOUS
    <3>1. /\ Len(Below(<<>>, p)) = Len(p) - Len(<<>>)
          /\ \A k \in 1..Len(p) - Len(<<>>) : Below(<<>>, p)[k] = p[Len(<<>>) + k]
      BY <1>1, <2>1, <2>6, BelowIsPath
    <3>2. IsPrefix(routes[i].path, p)
      <4>1. Len(<<>>) = 0 /\ Len(p) \in Nat /\ Len(routes[i].path) \in Nat
        BY <1>2, <2>1 DEF IsPath
      <4>2. /\ Len(routes[i].path) <= Len(p)
            /\ \A k \in 1..Len(routes[i].path) : routes[i].path[k] = p[k]
        BY <1>2, <2>6, <3>1, <4>1, PrefixIs
      <4>. QED
        BY <1>2, <2>1, <4>2, PrefixIs
    <3>. QED
      BY <1>2, <1>5, <2>1, <2>2, <2>4, <3>2, AboveOverlap
  <2>8. RoutePathsOverlap(q, layout.base)
    BY <1>1, <1>5, <2>1, <2>2, <2>6, AboveOverlap
  <2>9. Len(q) = 1 /\ Len(layout.base) \in Nat /\ Len(layout.base) > 0
    BY <1>1, <2>2, <2>7, EmptySeq DEF SystemPaths, IsPath
  <2>10. CASE IsPrefix(layout.base, q)
    <3>1. Len(layout.base) <= Len(q) /\ \A k \in 1..Len(layout.base) : layout.base[k] = q[k]
      BY <1>1, <2>2, <2>10, PrefixIs
    <3>2. Len(q) = Len(layout.base)
      <4> DEFINE m == Len(q)  n == Len(layout.base)
      <4>1. m = 1 /\ n \in Nat /\ n > 0 /\ n <= m
        BY <2>9, <3>1
      <4> HIDE DEF m, n
      <4>2. m = n
        BY <4>1
      <4>. QED
        BY <4>2 DEF m, n
    <3>3. Len(q) <= Len(layout.base) /\ \A k \in 1..Len(q) : q[k] = layout.base[k]
      BY <2>9, <3>1, <3>2
    <3>. QED
      BY <1>1, <2>2, <3>3, PrefixIs
  <2>. QED
    BY <2>8, <2>10 DEF RoutePathsOverlap
<1>6. ASSUME NEW i \in PathRows(routes), NEW p \in Probes, NEW q \in SystemPaths,
             IsPrefix(layout.base \o q, p), Taken(i, p)
      PROVE  RoutePathsOverlap(routes[i].path, layout.base)
  <2>1. /\ IsPath(p)
        /\ i \in AtOrAbove(routes, p) \/ i \in AtOrAbove(routes, Below(layout.base, p))
    BY <1>2, <1>6, DispatchFinds
  <2>2. q \in Reserved(checked) /\ IsPath(q)
    BY <1>1, ReservedPaths DEF Reserved
  <2>3. /\ IsPrefix(layout.base, p) /\ IsPath(Below(layout.base, p))
        /\ IsPrefix(q, Below(layout.base, p))
    BY <1>1, <1>6, <2>1, <2>2, MoreBelow
  <2>4. CASE i \in AtOrAbove(routes, p)
    BY <1>1, <1>2, <1>3, <2>1, <2>3, <2>4, AboveOverlap
  <2>5. CASE i \in AtOrAbove(routes, Below(layout.base, p))
    <3>1. RoutePathsOverlap(routes[i].path, q)
      BY <1>2, <1>3, <2>2, <2>3, <2>5, AboveOverlap
    <3>. QED
      BY <1>1, <2>2, <3>1 DEF ValidateRouteConflicts
  <2>. QED
    BY <2>1, <2>4, <2>5
<1>. QED
  BY <1>4, <1>5, <1>6 DEF ReservedUnrouted

-----------------------------------------------------------------------------
(* An address that is not below the base path.                             *)
LEMMA NoBase ==
  ASSUME NEW l \in Layouts, l.base = <<>>, NEW p, IsPath(p)
  PROVE  Subpath(l, p) = p /\ Roots(l) = {<<>>} /\ <<>> \o p = p
<1>2. <<>> \o p = p
  BY EmptyPath, BelowTheBase
<1>. QED
  BY <1>2 DEF Subpath, Roots

(* An administration path in front of a repository's path.                 *)
LEMMA NotAdministration ==
  ASSUME RoutesInv, NEW i \in PathRows(routes), IsPrefix(layout.admin, routes[i].path)
  PROVE  checked # layout
<1>1. layout.admin \in Reserved(layout)
  BY DEF Reserved
<1>. QED
  BY <1>1 DEF RoutesInv, ValidateRouteConflicts, RoutePathsOverlap

(* What hides an address that the process answers itself. *)
LEMMA AnsweredIsHidden ==
  ASSUME RoutesInv, NEW i \in PathRows(routes),
         AnswersItself(layout, Subpath(layout, routes[i].path))
  PROVE  Hidden(i, Subpath(layout, routes[i].path))
<1> DEFINE base == layout.base
           path == routes[i].path
           address == Subpath(layout, path)
<1>1. /\ IsPath(path) /\ path # <<>> /\ IsPath(base) /\ IsPath(layout.admin) /\ layout \in Layouts
      /\ ValidateRouteConflicts(routes, checked)
  BY LayoutIs, TablePaths, NoEmptyPath DEF RoutesInv
<1>2. \A w \in {"healthz", "metrics", "_mirror_auth", "_mirrorrelay"} : ~IsPrefix(<<w>>, path)
  BY <1>1, NotSystem
<1>3. ASSUME NEW w PROVE IsPrefix(<<w>>, <<w>>)
  <2>1. IsPath(<<w>>) /\ Len(<<w>>) = 1
    BY ShortPaths
  <2>. QED
    BY <2>1, PrefixIs
<1>a. path # <<"healthz">> /\ path # <<"metrics">>
  BY <1>2, <1>3
<1>b. ~IsPrefix(<<"_mirrorrelay", "upstream">>, path) /\ ~IsPrefix(<<"_mirror_auth", "id">>, path)
  BY <1>1, <1>2, FirstSegment
<1> SUFFICES ASSUME ~IsPage(layout, address), address \notin ClusterPaths PROVE Hidden(i, address)
  BY DEF Hidden
<1>4. IsAdminPath(layout, address) \/ IsEndpoint(layout, address)
  BY DEF AnswersItself
<1>5. CASE base = <<>>
  <2>1. address = path /\ Subpath(layout, layout.admin) = layout.admin /\ Roots(layout) = {<<>>}
        /\ \A p : IsPath(p) => <<>> \o p = p
    BY <1>1, <1>5, NoBase
  <2>2. ~IsEndpoint(layout, path)
    BY <1>b, <2>1, ShortPaths DEF IsEndpoint
  <2>3. IsPrefix(layout.admin, path)
    BY <1>4, <1>a, <2>1, <2>2, ShortPaths DEF IsAdminPath
  <2>4. checked # layout
    BY <2>3, NotAdministration
  <2>. QED
    BY <2>1, <2>3, <2>4 DEF Hidden
<1>6. CASE base # <<>> /\ (IsPrefix(base, path) \/ IsPrefix(layout.admin, address))
  BY <1>6 DEF Hidden
<1>7. CASE base # <<>> /\ ~IsPrefix(base, path) /\ ~IsPrefix(layout.admin, address)
  <2>1. address = base \o path
    BY <1>7 DEF Subpath
  <2>2. /\ IsPath(address) /\ IsPrefix(base, address) /\ Below(base, address) = path
        /\ Len(address) = Len(base) + Len(path) /\ Len(base) \in Nat /\ Len(path) \in Nat
        /\ Len(base) > 0 /\ Len(path) > 0
    <3>1. Len(base) \in Nat /\ Len(path) \in Nat /\ Len(base) > 0 /\ Len(path) > 0
      BY <1>1, <1>7, EmptySeq DEF IsPath
    <3>. QED
      BY <1>1, <2>1, <3>1, AddressIs, BelowTheBase
  <2>3. address[1] = base[1]
    BY <1>1, <2>2, PrefixIs
  <2>4. base[1] # "_mirrorrelay" /\ base[1] # "_mirror_auth"
    BY <1>1, <1>7, LayoutIs
  <2>5. \A q : IsPath(q) /\ IsPrefix(base \o q, address) => IsPrefix(q, path)
    BY <1>1, <2>2, MoreBelow
  <2>n. \A q : IsPath(q) => <<>> \o q = q
    BY EmptyPath, BelowTheBase
  <2> HIDE DEF address, base, path
  <2>6. ~IsEndpoint(layout, address)
    <3> SUFFICES ASSUME NEW b \in {<<>>, base}, NEW q \in {<<"_mirrorrelay", "upstream">>, <<"_mirror_auth", "id">>},
                        IsPrefix(b \o q, address)
                 PROVE  FALSE
      BY DEF IsEndpoint, Roots, base
    <3>1. IsPath(q)
      BY ShortPaths
    <3>2. CASE b = <<>>
      <4>1. IsPrefix(q, address)
        BY <2>n, <3>1, <3>2
      <4>. QED
        BY <2>2, <2>3, <2>4, <4>1, FirstSegment
    <3>3. CASE b = base
      BY <1>b, <2>5, <3>1, <3>3
    <3>. QED
      BY <3>2, <3>3
  <2>7. ASSUME NEW b \in {<<>>, base}, NEW w \in {"healthz", "metrics"}, address = b \o <<w>>
        PROVE  FALSE
    <3>1. IsPath(<<w>>) /\ Len(<<w>>) = 1
      BY ShortPaths
    <3>2. CASE b = <<>>
      <4>1. address = <<w>>
        BY <2>n, <2>7, <3>1, <3>2
      <4>2. Len(address) = 1
        BY <3>1, <4>1
      <4>3. ASSUME NEW m \in Nat, NEW n \in Nat, m > 0, n > 0, m + n = 1 PROVE FALSE
        BY <4>3
      <4>. QED
        BY <2>2, <4>2, <4>3
    <3>3. CASE b = base
      <4>1. Below(base, base \o <<w>>) = <<w>>
        BY <1>1, <3>1, AddressIs DEF base
      <4>. QED
        BY <1>a, <2>2, <2>7, <3>3, <4>1 DEF path
    <3>. QED
      BY <3>2, <3>3
  <2>8. IsPrefix(Subpath(layout, layout.admin), address)
    BY <1>4, <1>7, <2>6, <2>7 DEF IsAdminPath, Roots, base, address
  <2>9. Subpath(layout, layout.admin) = base \o layout.admin
    BY <1>7, <2>8 DEF Subpath, base, address
  <2>10. IsPrefix(layout.admin, path)
    BY <1>1, <2>5, <2>8, <2>9
  <2>11. checked # layout
    BY <2>10, NotAdministration DEF path
  <2>. QED
    BY <2>8, <2>11 DEF Hidden
<1>. QED
  BY <1>5, <1>6, <1>7

(* The public address of a repository finds that repository alone.         *)
LEMMA Reaches == RoutesInv => PublicAddressReaches
<1> SUFFICES ASSUME RoutesInv, NEW i \in Ids, routes[i] # NoRow, routes[i].enabled
             PROVE  IF routes[i].mode = "host"
                    THEN \A p \in Probes : ~AnswersItself(layout, p) =>
                           \/ Dispatch(routes, layout, routes[i].host, p) = Routed(i, p)
                           \/ checked # layout /\ routes[i].host = layout.console
                    ELSE LET address == Subpath(layout, routes[i].path)
                         IN \/ Dispatch(routes, layout, "elsewhere", address) = Routed(i, <<>>)
                            \/ Hidden(i, address)
  BY DEF PublicAddressReaches
<1>1. routes \in Table /\ ValidateRouteConflicts(routes, checked) /\ layout \in Layouts
      /\ checked \in Layouts
  BY DEF RoutesInv
<1>2. ASSUME routes[i].mode = "host", NEW p \in Probes, ~AnswersItself(layout, p),
             ~(checked # layout /\ routes[i].host = layout.console)
      PROVE  Dispatch(routes, layout, routes[i].host, p) = Routed(i, p)
  <2>1. i \in HostRows(routes)
    BY <1>2 DEF HostRows
  <2>2. {j \in HostRows(routes) : routes[j].host = routes[i].host} = {i}
    BY <1>1, <2>1 DEF ValidateRouteConflicts
  <2>3. routes[i].host # layout.console
    BY <1>1, <1>2, <2>1 DEF ValidateRouteConflicts
  <2>4. Route(routes, layout.base, routes[i].host, p) = Routed(i, p)
    BY <2>2, MaxOfOne DEF Route
  <2>5. ~IsIndex(routes, layout, routes[i].host, p)
    BY <2>1 DEF IsIndex
  <2>. QED
    BY <1>2, <2>3, <2>4, <2>5 DEF Dispatch
<1>3. ASSUME routes[i].mode # "host", ~Hidden(i, Subpath(layout, routes[i].path))
      PROVE  Dispatch(routes, layout, "elsewhere", Subpath(layout, routes[i].path)) = Routed(i, <<>>)
  <2> DEFINE base == layout.base
             path == routes[i].path
             address == Subpath(layout, path)
  <2>1. i \in PathRows(routes) /\ IsPath(path) /\ path # <<>> /\ IsPath(base)
    BY <1>1, <1>3, TablePaths, NoEmptyPath, LayoutIs DEF HostRows, PathRows
  <2>2. ~AnswersItself(layout, address)
    BY <1>3, <2>1, AnsweredIsHidden
  <2>3. {j \in HostRows(routes) : routes[j].host = "elsewhere"} = {}
    BY <1>1, TablePaths
  <2>4. \A j \in AtOrAbove(routes, address) : j = i /\ path = address
    BY <1>3 DEF Hidden
  <2>5. base # <<>> => address # base
    <3> SUFFICES ASSUME base # <<>>, address = base PROVE FALSE
      OBVIOUS
    <3>1. ~IsPrefix(base, path)
      BY <1>3 DEF Hidden
    <3>2. address = base \o path
      BY <3>1 DEF Subpath
    <3>3. Len(base) \in Nat
      BY <2>1 DEF IsPath
    <3>4. Len(base \o path) > Len(base)
      BY <2>1, AddressIs
    <3>5. Len(base \o path) = Len(base)
      BY <3>2
    <3> HIDE DEF base, path
    <3>. QED
      BY <3>3, <3>4, <3>5
  <2>6. /\ IsPrefix(base, path) => address = path
        /\ ~IsPrefix(base, path) => address = base \o path
    BY DEF Subpath
  <2>p. path = routes[i].path
    BY DEF path
  <2>c. layout.console # "elsewhere" /\ base = layout.base
    BY <1>1, LayoutIs
  <2> HIDE DEF base, path, address
  <2>7. IsPrefix(path, path) /\ Below(path, path) = <<>>
    BY <2>1, PrefixIs, BelowIsPath DEF IsPath
  <2>8. AtOrAbove(routes, path) = {i}
    <3>1. i \in AtOrAbove(routes, path)
      BY <2>1, <2>p, <2>7 DEF AtOrAbove
    <3>. QED
      BY <1>1, <2>1, <3>1, OneAbove
  <2>9. address # <<>>
    <3>1. CASE address = base \o path
      BY <2>1, <3>1, AddressIs, EmptySeq DEF IsPath
    <3>. QED
      BY <2>1, <2>6, <3>1
  <2>10. ~IsIndex(routes, layout, "elsewhere", address)
    BY <2>5, <2>9, <2>c DEF IsIndex, Roots
  <2>11. Route(routes, base, "elsewhere", address) = Routed(i, <<>>)
    <3>1. CASE address = path
      <4>1. Longest(routes, AtOrAbove(routes, address)) = i /\ AtOrAbove(routes, address) # {}
        BY <2>8, <3>1, LongestOfOne
      <4>. QED
        BY <2>3, <2>7, <2>p, <3>1, <4>1 DEF Route
    <3>2. CASE address # path
      <4>1. ~IsPrefix(base, path) /\ address = base \o path /\ AtOrAbove(routes, address) = {}
        BY <2>4, <2>6, <3>2
      <4>2. /\ IsPrefix(base, address) /\ Len(address) > Len(base) /\ Below(base, address) = path
            /\ base # <<>>
        BY <2>1, <3>2, <4>1, AddressIs
      <4>3. Longest(routes, AtOrAbove(routes, Below(base, address))) = i
            /\ AtOrAbove(routes, Below(base, address)) # {}
        BY <2>8, <4>2, LongestOfOne
      <4>. QED
        BY <2>3, <2>7, <2>p, <4>1, <4>2, <4>3 DEF Route
    <3>. QED
      BY <3>1, <3>2
  <2>. QED
    BY <2>2, <2>10, <2>11, <2>c DEF Dispatch, address, path
<1>. QED
  BY <1>2, <1>3

(* Of the whole dispatch of a request, for every history of saves,         *)
(* deletions, refreshes and restarts with other settings: a path and a     *)
(* host have one repository, reserved paths have none, and the public      *)
(* address of a repository reaches its root, also under settings newer     *)
(* than the snapshot, unless it is hidden in one of the listed ways, which *)
(* no rule excludes; tokens are asked for at the configured place          *)
(* (ValidateRouteConflicts, Handler, publicHandler, Registry.Route,        *)
(* tokenTarget).                                                           *)
THEOREM RoutesSoundHolds == RoutesSpec => []RoutesSound
<1>1. RoutesInv => RoutesSound
  BY Unambiguous, Reserves, Reaches DEF RoutesSound, RoutesInv
<1>. QED
  BY <1>1, RoutesStart, RoutesKeep, PTL DEF RoutesSpec

-----------------------------------------------------------------------------
(* The health checker (HealthChecker).                                     *)

(* The server of an id never changes: the one of the first table, or the   *)
(* one that came with the id.                                              *)
UrlOf(i) == IF i \in DOMAIN FirstUpstreams THEN FirstUpstreams[i].url ELSE i
Statuses == {"unknown", "healthy", "unhealthy"}
RowType == [repo: Repos, url: Nat, priority: Nat, enabled: BOOLEAN, status: Statuses, from: Nat,
            by: Repos]
Servers == {<<i, UrlOf(i)>> : i \in Nat}
(* What a check found: an id with the server that answered, or nobody. *)
Findings == {u \in Nat \X Nat : u[2] \in {UrlOf(u[1]), NoServer}}
(* What makes an upstream healthy. *)
Grounds(status, i, server, repo) ==
  status = "healthy" => server = UrlOf(i) \/ repo \in Expects404

(* A table, a snapshot, or what an activation has read. *)
RowOK(row, i) ==
  /\ row \in RowType /\ row.url = UrlOf(i) /\ row.from \in {UrlOf(i), NoServer}
  /\ Grounds(row.status, i, row.from, row.by)
TableOK(rows, n) ==
  /\ DOMAIN rows \subseteq 1..n /\ rows = [i \in DOMAIN rows |-> rows[i]]
  /\ \A i \in DOMAIN rows : RowOK(rows[i], i)
(* Nginx has the servers of the table. *)
LiveOK(locations) == \A i \in DOMAIN locations : locations[i] = UrlOf(i)
LoadingOK(reading, n) == reading.pc # "none" => TableOK(reading.rows, n)

(* What a worker carries: pairs of an id and its server. *)
Task == [repo: Repos, list: SUBSET Servers]
BusyType ==
  [pc: {"check", "store", "publish"}, queued: BOOLEAN, repo: Repos, todo: SUBSET Servers,
   found: Findings, status: Statuses]
Busy == {x \in BusyType : Grounds(x.status, x.found[1], x.found[2], x.repo)}
HealthTables ==
  /\ servers \in Nat /\ Cardinality(DOMAIN FirstUpstreams) <= servers
  /\ TableOK(upstreams, servers) /\ TableOK(snapshot, servers)
  /\ LoadingOK(loading, servers) /\ LiveOK(live)
  /\ tasks \in Seq(Task) /\ worker \in [Workers -> {FreeWorker} \cup Busy]

(* Every id has a server.                                                  *)
LEMMA UrlNat == \A i \in Nat : UrlOf(i) \in Nat
  BY HealthAssumption DEF UrlOf

(* A worker that found nothing holds the pair of no id.                    *)
LEMMA NothingFound == <<0, 0>> \in Findings
  BY DEF Findings, NoServer

(* A pair of an id and its server.                                         *)
LEMMA ServerFields ==
  ASSUME NEW u \in Servers PROVE u[1] \in Nat /\ u[2] = UrlOf(u[1]) /\ u[2] \in Nat
  BY UrlNat DEF Servers

(* What a check found, field by field.                                     *)
LEMMA FindingFields ==
  ASSUME NEW u \in Findings PROVE u[1] \in Nat /\ u[2] \in {UrlOf(u[1]), NoServer} /\ u[2] \in Nat
  BY DEF Findings

(* What a check copies. *)
LEMMA CopyIs ==
  ASSUME NEW rows, NEW n \in Nat, TableOK(rows, n), NEW repo PROVE Copy(rows, repo) \in SUBSET Servers
  BY DEF TableOK, RowOK, Copy, Usable, RowsOf, Servers

(* A result goes to the row of the id that was probed, if there is one. *)
Marked(row, u, s, repo) == [row EXCEPT !.status = s, !.from = u[2], !.by = repo]
MarkedRows(rows, u, s, repo) ==
  IF u[1] \in DOMAIN rows THEN [rows EXCEPT ![u[1]] = Marked(rows[u[1]], u, s, repo)] ELSE rows

(* A row with a new status is the row of the same server.                  *)
LEMMA MarkedIs ==
  ASSUME NEW row \in RowType, NEW u, u[2] \in Nat, NEW s \in Statuses, NEW repo \in Repos
  PROVE  /\ Marked(row, u, s, repo) \in RowType /\ Marked(row, u, s, repo).url = row.url
         /\ Marked(row, u, s, repo).from = u[2] /\ Marked(row, u, s, repo).status = s
         /\ Marked(row, u, s, repo).by = repo
  BY Zenon DEF RowType, Marked

(* A result that is written keeps a table sound.                           *)
LEMMA MarkedOK ==
  ASSUME NEW rows, NEW n, TableOK(rows, n), NEW u \in Findings, NEW s \in Statuses,
         NEW repo \in Repos, Grounds(s, u[1], u[2], repo)
  PROVE  TableOK(MarkedRows(rows, u, s, repo), n)
<1>1. CASE u[1] \in DOMAIN rows
  <2> DEFINE q == Marked(rows[u[1]], u, s, repo)
             t == [rows EXCEPT ![u[1]] = q]
  <2>1. rows[u[1]] \in RowType /\ rows[u[1]].url = UrlOf(u[1])
    BY <1>1 DEF TableOK, RowOK
  <2>2. /\ q \in RowType /\ q.url = rows[u[1]].url /\ q.from = u[2] /\ q.status = s /\ q.by = repo
    BY <2>1, FindingFields, MarkedIs
  <2> HIDE DEF q
  <2>3. RowOK(q, u[1])
    BY <2>1, <2>2, FindingFields DEF RowOK
  <2>4. DOMAIN t = DOMAIN rows /\ t = [i \in DOMAIN t |-> t[i]]
        /\ \A i \in DOMAIN rows : t[i] = IF i = u[1] THEN q ELSE rows[i]
    OBVIOUS
  <2>5. TableOK(t, n)
    BY <2>3, <2>4 DEF TableOK
  <2>. QED
    BY <1>1, <2>5 DEF MarkedRows, q
<1>2. CASE u[1] \notin DOMAIN rows
  BY <1>2 DEF MarkedRows
<1>. QED
  BY <1>1, <1>2

(* The same, in the words of the model.                                    *)
LEMMA SetStatusIs ==
  ASSUME NEW rows, NEW w
  PROVE  SetStatus(rows, w) = MarkedRows(rows, worker[w].found, worker[w].status, worker[w].repo)
  BY Zenon DEF SetStatus, MarkedRows, Marked

(* The locations of a table are those of its servers.                      *)
LEMMA LocationsOK ==
  ASSUME NEW rows, NEW n, TableOK(rows, n), NEW off PROVE LiveOK(Locations(rows, off))
  BY DEF TableOK, RowOK, LiveOK, Locations

(* A table stays sound when another one grows.                             *)
LEMMA MoreServers ==
  ASSUME NEW rows, NEW n \in Nat, TableOK(rows, n) PROVE TableOK(rows, n + 1)
  BY DEF TableOK

-----------------------------------------------------------------------------
(* A worker that goes on with its check. *)
Probing(x, u, f, s) == [x EXCEPT !.pc = "store", !.found = f, !.status = s, !.todo = x.todo \ {u}]
Resuming(x) == [x EXCEPT !.pc = "check", !.found = <<0, 0>>, !.status = "unknown"]
Publishing(x) == [x EXCEPT !.pc = "publish"]
GoesOn(w, q) ==
  /\ worker' = [worker EXCEPT ![w] = q] /\ worker[w] \in Busy /\ q \in Busy
  /\ q.queued = worker[w].queued /\ q.repo = worker[w].repo

(* A worker that is not free has a check.                                  *)
LEMMA BusyByPlace ==
  ASSUME HealthTables, NEW w \in Workers, worker[w].pc # "free" PROVE worker[w] \in Busy
  BY DEF HealthTables, FreeWorker

(* What a check holds.                                                     *)
LEMMA BusyFields ==
  ASSUME NEW x \in Busy
  PROVE  /\ x \in BusyType /\ x.found \in Findings /\ x.status \in Statuses
         /\ x.todo \subseteq Servers
         /\ x.pc # "free" /\ x.repo \in Repos /\ x.queued \in BOOLEAN
         /\ Grounds(x.status, x.found[1], x.found[2], x.repo)
  BY DEF Busy, BusyType

(* A check that has probed.                                                *)
LEMMA ProbingIs ==
  ASSUME NEW x \in BusyType, NEW u \in Servers, NEW f \in Findings, NEW s \in Statuses
  PROVE  /\ Probing(x, u, f, s) \in BusyType /\ Probing(x, u, f, s).queued = x.queued
         /\ Probing(x, u, f, s).repo = x.repo /\ Probing(x, u, f, s).found = f
         /\ Probing(x, u, f, s).status = s
  BY Zenon DEF BusyType, Probing

(* A check that has written its result.                                    *)
LEMMA ResumingIs ==
  ASSUME NEW x \in Busy
  PROVE  /\ Resuming(x) \in Busy /\ Resuming(x).queued = x.queued
         /\ Resuming(x).repo = x.repo
<1>1. "unknown" \in Statuses /\ x \in BusyType
  BY BusyFields DEF Statuses
<1>2. /\ Resuming(x) \in BusyType /\ Resuming(x).queued = x.queued /\ Resuming(x).repo = x.repo
      /\ Resuming(x).status = "unknown"
  BY <1>1, NothingFound, Zenon DEF BusyType, Resuming
<1>. QED
  BY <1>2 DEF Busy, Grounds

(* A check that has stored its result.                                     *)
LEMMA PublishingIs ==
  ASSUME NEW x \in Busy
  PROVE  /\ Publishing(x) \in Busy /\ Publishing(x).queued = x.queued
         /\ Publishing(x).repo = x.repo
<1>1. x \in BusyType
  BY BusyFields
<1>2. /\ Publishing(x) \in BusyType /\ Publishing(x).queued = x.queued /\ Publishing(x).repo = x.repo
      /\ Publishing(x).status = x.status /\ Publishing(x).found = x.found
  BY <1>1, Zenon DEF BusyType, Publishing
<1>. QED
  BY <1>2 DEF Busy

(* What Nginx answers: the server of the id or nobody, and "healthy" only  *)
(* with grounds.                                                           *)
LEMMA AnswerIs ==
  ASSUME LiveOK(live), NEW repo, NEW i, NEW a \in Answer(repo, i)
  PROVE  a[1] \in {"healthy", "unhealthy"} /\ a[2] \in {UrlOf(i), NoServer} /\ Grounds(a[1], i, a[2], repo)
<1>1. CASE a = <<"unhealthy", NoServer>>
  BY <1>1 DEF Grounds
<1>2. CASE i \in DOMAIN live /\ a \in {<<"healthy", live[i]>>, <<"unhealthy", live[i]>>}
  BY <1>2 DEF Grounds, LiveOK
<1>3. CASE repo \in Expects404 /\ a = <<"healthy", NoServer>>
  BY <1>3 DEF Grounds
<1>. QED
  BY <1>1, <1>2, <1>3 DEF Answer

(* Probe keeps the check of its worker.                                    *)
LEMMA ProbeGoesOn ==
  ASSUME HealthTables, NEW w \in Workers, Probe(w) PROVE \E q : GoesOn(w, q)
<1>1. worker[w] \in Busy /\ worker[w] \in BusyType
  BY BusyByPlace, BusyFields DEF Probe
<1>2. PICK u \in worker[w].todo : \E b \in Answer(worker[w].repo, u[1]) :
        worker' = [worker EXCEPT ![w].pc = "store", ![w].found = <<u[1], b[2]>>, ![w].status = b[1],
                                 ![w].todo = @ \ {u}]
  BY DEF Probe
<1>3. PICK a \in Answer(worker[w].repo, u[1]) :
        worker' = [worker EXCEPT ![w].pc = "store", ![w].found = <<u[1], a[2]>>, ![w].status = a[1],
                                 ![w].todo = @ \ {u}]
  BY <1>2
<1>4. worker' = [worker EXCEPT ![w] = Probing(worker[w], u, <<u[1], a[2]>>, a[1])]
  BY <1>3, Zenon DEF Probing
<1>5. u \in Servers
  BY <1>1, BusyFields
<1>6. /\ a[1] \in Statuses /\ a[2] \in {UrlOf(u[1]), NoServer}
      /\ Grounds(a[1], u[1], a[2], worker[w].repo)
  BY AnswerIs DEF HealthTables, Statuses
<1>7. <<u[1], a[2]>> \in Findings
  BY <1>5, <1>6, ServerFields DEF Findings, NoServer
<1> DEFINE f == <<u[1], a[2]>>
           q == Probing(worker[w], u, f, a[1])
<1>8. /\ q \in BusyType /\ q.queued = worker[w].queued /\ q.repo = worker[w].repo
      /\ q.found = f /\ q.status = a[1]
  BY <1>1, <1>5, <1>6, <1>7, ProbingIs
<1> HIDE DEF q
<1>9. q \in Busy
  BY <1>6, <1>8 DEF Busy
<1>. QED
  BY <1>1, <1>4, <1>8, <1>9 DEF GoesOn, q

(* So does the end of a write.                                             *)
LEMMA WrittenGoesOn ==
  ASSUME HealthTables, NEW w \in Workers, worker[w].pc # "free", Written(w)
  PROVE  \E q : GoesOn(w, q)
<1>1. worker[w] \in Busy
  BY BusyByPlace
<1>2. worker' = [worker EXCEPT ![w] = Resuming(worker[w])]
  BY Zenon DEF Written, Resuming
<1>. QED
  BY <1>1, <1>2, ResumingIs DEF GoesOn

(* So does StoreHealth, whether the write fails or not.                    *)
LEMMA StoreGoesOn ==
  ASSUME HealthTables, NEW w \in Workers, StoreHealth(w) PROVE \E q : GoesOn(w, q)
<1>1. CASE Written(w)
  BY <1>1, WrittenGoesOn DEF StoreHealth
<1>2. CASE worker' = [worker EXCEPT ![w].pc = "publish"]
  <2>1. worker[w] \in Busy
    BY BusyByPlace DEF StoreHealth
  <2>2. worker' = [worker EXCEPT ![w] = Publishing(worker[w])]
    BY <1>2, Zenon DEF Publishing
  <2>. QED
    BY <2>1, <2>2, PublishingIs DEF GoesOn
<1>. QED
  BY <1>1, <1>2 DEF StoreHealth

-----------------------------------------------------------------------------
(* A check that begins.                                                    *)
LEMMA CheckingIs ==
  ASSUME NEW repo \in Repos, NEW list \in SUBSET Servers, NEW queued \in BOOLEAN
  PROVE  /\ Checking(repo, list, queued) \in Busy
         /\ Checking(repo, list, queued).pc = "check"
         /\ Checking(repo, list, queued).repo = repo
         /\ Checking(repo, list, queued).queued = queued
<1>1. "unknown" \in Statuses
  BY DEF Statuses
<1>2. Checking(repo, list, queued) \in BusyType
  BY <1>1, NothingFound DEF Checking, BusyType
<1>. QED
  BY <1>2 DEF Checking, Busy, Grounds

(* A new row comes with an id and a server that nobody had. *)
LEMMA ReplacedOK ==
  ASSUME HealthTables, NEW repo \in Repos, ReplaceUpstreams(repo)
  PROVE  TableOK(upstreams', servers')
<1>1. servers \in Nat /\ servers' = servers + 1 /\ TableOK(upstreams, servers)
  BY DEF HealthTables, ReplaceUpstreams
<1>2. servers + 1 \notin DOMAIN FirstUpstreams
  <2>1. Cardinality(DOMAIN FirstUpstreams) \in Nat
    BY HealthAssumption, FS_CardinalityType
  <2>. QED
    BY <2>1, <1>1, HealthAssumption DEF HealthTables
<1>3. PICK priority \in Priorities :
        upstreams' = [i \in (DOMAIN upstreams \ RowsOf(upstreams, repo)) \cup {servers + 1} |->
                        IF i = servers + 1 THEN Row(repo, servers + 1, priority, TRUE)
                        ELSE upstreams[i]]
  BY DEF ReplaceUpstreams, NewId
<1> DEFINE row == Row(repo, servers + 1, priority, TRUE)
<1>4. RowOK(row, servers + 1)
  <2>1. UrlOf(servers + 1) = servers + 1 /\ servers + 1 \in Nat /\ priority \in Nat
    BY <1>1, <1>2, HealthAssumption DEF UrlOf
  <2>2. /\ row \in RowType /\ row.url = servers + 1 /\ row.status = "unknown"
        /\ row.from = NoServer
    BY <2>1 DEF RowType, Row, Statuses, NoServer
  <2>. QED
    BY <2>1, <2>2 DEF RowOK, Grounds
<1> HIDE DEF row
<1>5. /\ DOMAIN upstreams' = (DOMAIN upstreams \ RowsOf(upstreams, repo)) \cup {servers + 1}
      /\ \A i \in DOMAIN upstreams' : upstreams'[i] = IF i = servers + 1 THEN row ELSE upstreams[i]
      /\ upstreams' = [i \in DOMAIN upstreams' |-> upstreams'[i]]
  BY <1>3 DEF row
<1>6. DOMAIN upstreams' \subseteq 1..(servers + 1)
  BY <1>1, <1>5 DEF TableOK
<1>7. \A i \in DOMAIN upstreams' : RowOK(upstreams'[i], i)
  BY <1>1, <1>4, <1>5 DEF TableOK
<1>. QED
  BY <1>1, <1>5, <1>6, <1>7 DEF TableOK

(* The table before the first step. *)
LEMMA TablesStart == HealthInit => HealthTables
<1> SUFFICES ASSUME HealthInit PROVE HealthTables
  OBVIOUS
<1> DEFINE n == Cardinality(DOMAIN FirstUpstreams)
<1>1. n \in Nat
  BY HealthAssumption, FS_CardinalityType
<1>2. \A i \in DOMAIN FirstUpstreams : RowOK(FirstUpstreams[i], i)
  <2> SUFFICES ASSUME NEW i \in DOMAIN FirstUpstreams PROVE RowOK(FirstUpstreams[i], i)
    OBVIOUS
  <2> DEFINE row == FirstUpstreams[i]
  <2>1. row \in [repo: Repos, url: Nat, priority: Nat, enabled: BOOLEAN, status: {"unknown"},
                from: {0}, by: Repos]
    BY HealthAssumption
  <2>2. /\ row \in RowType /\ row.url = UrlOf(i) /\ row.from = NoServer /\ row.status = "unknown"
    BY <2>1 DEF RowType, Statuses, UrlOf, NoServer
  <2>. QED
    BY <2>2 DEF RowOK, Grounds
<1>3. FirstUpstreams = [i \in DOMAIN FirstUpstreams |-> FirstUpstreams[i]]
  BY HealthAssumption
<1>4. TableOK(FirstUpstreams, n)
  BY <1>2, <1>3, HealthAssumption DEF TableOK
<1>5. LiveOK(Locations(FirstUpstreams, {})) /\ LoadingOK(NoReading, n)
  BY <1>4, LocationsOK DEF LoadingOK, NoReading
<1>. QED
  BY <1>1, <1>4, <1>5 DEF HealthInit, HealthTables

-----------------------------------------------------------------------------
(* The tasks that are queued; a task that is taken. *)
LEMMA QueueGrows ==
  ASSUME NEW ts \in Seq(Task), NEW x \in Task
  PROVE  /\ Append(ts, x) \in Seq(Task) /\ Len(Append(ts, x)) = Len(ts) + 1 /\ Len(ts) \in Nat
         /\ \A i \in 1..Len(ts) : Append(ts, x)[i] = ts[i]
         /\ Append(ts, x)[Len(ts) + 1] = x
  BY AppendProperties

(* A task that is taken from the head.                                     *)
LEMMA QueueShrinks ==
  ASSUME NEW ts \in Seq(Task), ts # <<>>
  PROVE  /\ Head(ts) \in Task /\ Tail(ts) \in Seq(Task) /\ Len(ts) \in Nat /\ Len(ts) > 0
         /\ Head(ts) = ts[1] /\ Len(Tail(ts)) = Len(ts) - 1
         /\ \A i \in 1..Len(ts) - 1 : Tail(ts)[i] = ts[i + 1]
  BY HeadTailProperties, EmptySeq, LenProperties

(* What a task holds.                                                      *)
LEMMA TaskFields ==
  ASSUME NEW x \in Task PROVE x.repo \in Repos /\ x.list \in SUBSET Servers
  BY DEF Task

(* Every step keeps the types, and with them the server of every id. *)
LEMMA TablesKeep == HealthTables /\ [HealthNext]_healthVars => HealthTables'
<1> SUFFICES ASSUME HealthTables, [HealthNext]_healthVars PROVE HealthTables'
  OBVIOUS
<1>0. servers \in Nat /\ TableOK(upstreams, servers) /\ TableOK(snapshot, servers)
      /\ tasks \in Seq(Task) /\ worker \in [Workers -> {FreeWorker} \cup Busy]
  BY DEF HealthTables
<1>u. UNCHANGED activeVars => UNCHANGED <<snapshot, paused, live, loading>>
  BY DEF activeVars
<1>v. UNCHANGED tableVars => UNCHANGED <<upstreams, disabled, servers>>
  BY DEF tableVars
<1>1. ASSUME NEW repo \in Repos, RunDue(repo) PROVE HealthTables'
  <2> DEFINE x == [repo |-> repo, list |-> Copy(snapshot, repo)]
  <2>1. x \in Task
    BY <1>0, CopyIs DEF Task
  <2> HIDE DEF x
  <2>2. tasks' = tasks \/ tasks' = Append(tasks, x)
    BY <1>1 DEF RunDue, x
  <2>3. tasks' \in Seq(Task)
    BY <1>0, <2>1, <2>2, QueueGrows
  <2>. QED
    BY <1>1, <1>u, <1>v, <2>3 DEF RunDue, HealthTables
<1>2. ASSUME NEW repo \in Repos, ReplaceUpstreams(repo) PROVE HealthTables'
  <2>1. servers' = servers + 1 /\ UNCHANGED <<snapshot, live, loading, tasks, worker>>
    BY <1>2, <1>u DEF ReplaceUpstreams
  <2>2. TableOK(upstreams', servers')
    BY <1>2, ReplacedOK
  <2>3. TableOK(snapshot, servers + 1) /\ LoadingOK(loading, servers + 1)
    BY MoreServers DEF HealthTables, LoadingOK
  <2>4. Cardinality(DOMAIN FirstUpstreams) \in Nat
    BY HealthAssumption, FS_CardinalityType
  <2>5. servers' \in Nat /\ Cardinality(DOMAIN FirstUpstreams) <= servers'
    BY <2>1, <2>4 DEF HealthTables
  <2>. QED
    BY <2>1, <2>2, <2>3, <2>5 DEF HealthTables
<1>3. ASSUME NEW w \in Workers, TakeTask(w) PROVE HealthTables'
  <2>1. tasks # <<>> /\ tasks' = Tail(tasks) /\ UNCHANGED <<upstreams, servers, snapshot, live, loading>>
        /\ worker' = [worker EXCEPT ![w] = Checking(Head(tasks).repo, Head(tasks).list, TRUE)]
    BY <1>3, <1>u, <1>v DEF TakeTask
  <2>2. Head(tasks) \in Task /\ Tail(tasks) \in Seq(Task)
    BY <1>0, <2>1, QueueShrinks
  <2>3. Checking(Head(tasks).repo, Head(tasks).list, TRUE) \in Busy
    BY <2>2, TaskFields, CheckingIs
  <2>. QED
    BY <2>1, <2>2, <2>3 DEF HealthTables
<1>4. ASSUME NEW w \in Workers, CheckNow(w) PROVE HealthTables'
  <2>1. PICK repo \in Repos :
          worker' = [worker EXCEPT ![w] = Checking(repo, Copy(upstreams, repo), FALSE)]
    BY <1>4 DEF CheckNow
  <2>2. Checking(repo, Copy(upstreams, repo), FALSE) \in Busy
    BY <1>0, CopyIs, CheckingIs
  <2>. QED
    BY <1>4, <1>u, <1>v, <2>1, <2>2 DEF CheckNow, HealthTables
<1>5. ASSUME NEW w \in Workers, Probe(w) PROVE HealthTables'
  <2>1. PICK q : GoesOn(w, q)
    BY <1>5, ProbeGoesOn
  <2>. QED
    BY <1>5, <1>u, <1>v, <2>1 DEF GoesOn, Probe, HealthTables
<1>6. ASSUME NEW w \in Workers, StoreHealth(w) PROVE HealthTables'
  <2>1. PICK q : GoesOn(w, q)
    BY <1>6, StoreGoesOn
  <2>2. /\ worker[w].found \in Findings /\ worker[w].status \in Statuses /\ worker[w].repo \in Repos
        /\ Grounds(worker[w].status, worker[w].found[1], worker[w].found[2], worker[w].repo)
    BY <2>1, BusyFields DEF GoesOn
  <2>3. \/ upstreams' = upstreams
        \/ upstreams' = MarkedRows(upstreams, worker[w].found, worker[w].status, worker[w].repo)
    BY <1>6, SetStatusIs DEF StoreHealth
  <2>4. TableOK(upstreams', servers)
    BY <1>0, <2>2, <2>3, MarkedOK
  <2>. QED
    BY <1>6, <1>u, <2>1, <2>4 DEF GoesOn, StoreHealth, HealthTables
<1>7. ASSUME NEW w \in Workers, PublishHealth(w) PROVE HealthTables'
  <2>1. PICK q : GoesOn(w, q)
    BY <1>7, WrittenGoesOn DEF PublishHealth
  <2>2. /\ worker[w].found \in Findings /\ worker[w].status \in Statuses /\ worker[w].repo \in Repos
        /\ Grounds(worker[w].status, worker[w].found[1], worker[w].found[2], worker[w].repo)
    BY <2>1, BusyFields DEF GoesOn
  <2>3. snapshot' = MarkedRows(snapshot, worker[w].found, worker[w].status, worker[w].repo)
    BY <1>7, SetStatusIs DEF PublishHealth
  <2>4. TableOK(snapshot', servers)
    BY <1>0, <2>2, <2>3, MarkedOK
  <2>. QED
    BY <1>7, <1>v, <2>1, <2>4 DEF GoesOn, PublishHealth, HealthTables
<1>8. ASSUME NEW w \in Workers, EndCheck(w) PROVE HealthTables'
  BY <1>8, <1>u, <1>v DEF EndCheck, HealthTables
<1>9. ASSUME NEW repo \in Repos, SetMirrorEnabled(repo) PROVE HealthTables'
  BY <1>9, <1>u DEF SetMirrorEnabled, HealthTables
<1>10. CASE ReadMirrors
  <2>1. loading'.rows = NoRows /\ UNCHANGED <<upstreams, servers, snapshot, live, tasks, worker>>
    BY <1>10, <1>v DEF ReadMirrors
  <2>2. LoadingOK(loading', servers)
    BY <2>1 DEF LoadingOK, TableOK, NoRows
  <2>. QED
    BY <2>1, <2>2 DEF HealthTables
<1>11. ASSUME NEW repo \in Repos, ReadUpstreams(repo) PROVE HealthTables'
  <2> DEFINE found == RowsOf(upstreams, repo)
             rows == [i \in DOMAIN loading.rows \cup found |->
                        IF i \in found THEN upstreams[i] ELSE loading.rows[i]]
  <2>1. /\ loading.pc = "read" /\ loading'.rows = rows
        /\ UNCHANGED <<upstreams, servers, snapshot, live, tasks, worker>>
    BY <1>11, <1>v DEF ReadUpstreams
  <2>2. TableOK(loading.rows, servers) /\ found \subseteq DOMAIN upstreams
    BY <2>1 DEF HealthTables, LoadingOK, RowsOf
  <2> HIDE DEF found
  <2>3. TableOK(rows, servers)
    BY <1>0, <2>2 DEF TableOK
  <2>4. LoadingOK(loading', servers)
    BY <2>1, <2>3 DEF LoadingOK
  <2>. QED
    BY <2>1, <2>4 DEF HealthTables
<1>12. CASE ReloadNginx
  <2>1. /\ loading.pc = "read" /\ live' = Locations(loading.rows, loading.off)
        /\ loading'.rows = loading.rows
        /\ UNCHANGED <<upstreams, servers, snapshot, tasks, worker>>
    BY <1>12, <1>v DEF ReloadNginx
  <2>2. TableOK(loading.rows, servers)
    BY <2>1 DEF HealthTables, LoadingOK
  <2>3. LiveOK(live') /\ LoadingOK(loading', servers)
    BY <2>1, <2>2, LocationsOK DEF LoadingOK
  <2>. QED
    BY <2>1, <2>3 DEF HealthTables
<1>13. CASE ReplaceSnapshot
  <2>1. /\ loading.pc = "live" /\ snapshot' = loading.rows /\ loading' \in {loading, NoReading}
        /\ UNCHANGED <<upstreams, servers, live, tasks, worker>>
    BY <1>13, <1>v DEF ReplaceSnapshot
  <2>2. TableOK(snapshot', servers) /\ LoadingOK(loading', servers)
    BY <2>1 DEF HealthTables, LoadingOK, NoReading
  <2>. QED
    BY <2>1, <2>2 DEF HealthTables
<1>14. CASE ActivationFails
  <2>1. /\ loading' = NoReading /\ live' = Locations(snapshot, paused)
        /\ UNCHANGED <<upstreams, servers, snapshot, tasks, worker>>
    BY <1>14, <1>v DEF ActivationFails
  <2>2. LiveOK(live') /\ LoadingOK(loading', servers)
    BY <1>0, <2>1, LocationsOK DEF LoadingOK, NoReading
  <2>. QED
    BY <2>1, <2>2 DEF HealthTables
<1>15. CASE UNCHANGED healthVars
  BY <1>15, <1>u, <1>v DEF healthVars, HealthTables
<1>. QED
  BY <1>1, <1>2, <1>3, <1>4, <1>5, <1>6, <1>7, <1>8, <1>9, <1>10, <1>11, <1>12, <1>13, <1>14, <1>15
  DEF HealthNext

-----------------------------------------------------------------------------
(* Who has a repository that is in flight: one task or one worker. *)
Job(x) == x.pc # "free" /\ x.queued
FlightOK(f, ts, wk) ==
  /\ \A i, j \in 1..Len(ts) : ts[i].repo = ts[j].repo => i = j
  /\ \A i \in 1..Len(ts) : ts[i].repo \in f
  /\ \A w \in Workers : Job(wk[w]) =>
       wk[w].repo \in f /\ \A i \in 1..Len(ts) : ts[i].repo # wk[w].repo
  /\ \A v, w \in Workers : Job(wk[v]) /\ Job(wk[w]) /\ wk[v].repo = wk[w].repo => v = w
  /\ \A r \in f : \/ \E i \in 1..Len(ts) : ts[i].repo = r
                  \/ \E w \in Workers : Job(wk[w]) /\ wk[w].repo = r
FlightInv == FlightOK(inFlight, tasks, worker)

(* A worker whose job stays what it was. *)
LEMMA SameJob ==
  ASSUME HealthTables, FlightInv, NEW w \in Workers, NEW q,
         worker' = [worker EXCEPT ![w] = q],
         Job(q) <=> Job(worker[w]), Job(q) => q.repo = worker[w].repo,
         UNCHANGED <<inFlight, tasks>>
  PROVE  FlightInv'
<1>1. \A v \in Workers : /\ Job(worker'[v]) <=> Job(worker[v])
                         /\ Job(worker[v]) => worker'[v].repo = worker[v].repo
  BY DEF HealthTables
<1>2. FlightOK(inFlight, tasks, worker')
  BY <1>1 DEF FlightInv, FlightOK
<1>. QED
  BY <1>2 DEF FlightInv

(* A check that goes on keeps the marks exact.                             *)
LEMMA GoingOnKeeps ==
  ASSUME HealthTables, FlightInv, NEW w \in Workers, NEW q, GoesOn(w, q), UNCHANGED <<inFlight, tasks>>
  PROVE  FlightInv'
<1>1. q.pc # "free" /\ worker[w].pc # "free"
  BY BusyFields DEF GoesOn
<1>. QED
  BY <1>1, SameJob DEF GoesOn, Job

(* A task is taken: the repository goes from the queue to the worker. *)
LEMMA TakeKeeps ==
  ASSUME HealthTables, FlightInv, NEW w \in Workers, TakeTask(w) PROVE FlightInv'
<1> DEFINE x == Checking(Head(tasks).repo, Head(tasks).list, TRUE)
<1>1. /\ tasks # <<>> /\ tasks' = Tail(tasks) /\ inFlight' = inFlight /\ worker[w].pc = "free"
      /\ worker' = [worker EXCEPT ![w] = x]
  BY DEF TakeTask
<1>2. /\ tasks \in Seq(Task) /\ Head(tasks) \in Task /\ Len(tasks) \in Nat /\ Len(tasks) > 0
      /\ Head(tasks) = tasks[1] /\ Len(tasks') = Len(tasks) - 1
      /\ \A i \in 1..Len(tasks) - 1 : tasks'[i] = tasks[i + 1]
  BY <1>1, QueueShrinks DEF HealthTables
<1>3. Job(x) /\ x.repo = tasks[1].repo
  BY <1>2 DEF Job, Checking
<1> HIDE DEF x
<1>4. \A v \in Workers : worker'[v] = IF v = w THEN x ELSE worker[v]
  BY <1>1 DEF HealthTables
<1>5. ~Job(worker[w])
  BY <1>1 DEF Job
<1>6. \A i \in 1..Len(tasks') : i + 1 \in 1..Len(tasks) /\ tasks'[i] = tasks[i + 1] /\ i + 1 # 1
  BY <1>2
<1>7. 1 \in 1..Len(tasks) /\ tasks[1].repo \in inFlight
  BY <1>2 DEF FlightInv, FlightOK
<1>8. \A i, j \in 1..Len(tasks') : tasks'[i].repo = tasks'[j].repo => i = j
  <2> SUFFICES ASSUME NEW i \in 1..Len(tasks'), NEW j \in 1..Len(tasks'),
                      tasks'[i].repo = tasks'[j].repo
               PROVE  i = j
    OBVIOUS
  <2>1. i + 1 = j + 1
    BY <1>6 DEF FlightInv, FlightOK
  <2>. QED
    BY <2>1
<1>9. \A i \in 1..Len(tasks') : tasks'[i].repo \in inFlight /\ tasks'[i].repo # tasks[1].repo
  BY <1>6, <1>7 DEF FlightInv, FlightOK
<1>10. \A v \in Workers : Job(worker[v]) => v # w /\ worker[v].repo # tasks[1].repo
  BY <1>5, <1>7 DEF FlightInv, FlightOK
<1>11. \A v \in Workers : Job(worker'[v]) =>
         worker'[v].repo \in inFlight /\ \A i \in 1..Len(tasks') : tasks'[i].repo # worker'[v].repo
  <2> SUFFICES ASSUME NEW v \in Workers, Job(worker'[v])
               PROVE  /\ worker'[v].repo \in inFlight
                      /\ \A i \in 1..Len(tasks') : tasks'[i].repo # worker'[v].repo
    OBVIOUS
  <2>1. CASE v = w
    BY <2>1, <1>3, <1>4, <1>7, <1>9
  <2>2. CASE v # w
    <3>1. Job(worker[v]) /\ worker'[v] = worker[v]
      BY <1>4, <2>2
    <3>2. worker[v].repo \in inFlight /\ \A i \in 1..Len(tasks) : tasks[i].repo # worker[v].repo
      BY <3>1 DEF FlightInv, FlightOK
    <3>. QED
      BY <3>1, <3>2, <1>6
  <2>. QED
    BY <2>1, <2>2
<1>12. \A u, v \in Workers : Job(worker'[u]) /\ Job(worker'[v]) /\ worker'[u].repo = worker'[v].repo => u = v
  BY <1>3, <1>4, <1>10 DEF FlightInv, FlightOK
<1>13. ASSUME NEW r \in inFlight
       PROVE  \/ \E i \in 1..Len(tasks') : tasks'[i].repo = r
              \/ \E v \in Workers : Job(worker'[v]) /\ worker'[v].repo = r
  <2>1. CASE \E v \in Workers : Job(worker[v]) /\ worker[v].repo = r
    BY <2>1, <1>4, <1>10
  <2>2. CASE \E i \in 1..Len(tasks) : tasks[i].repo = r
    <3>1. PICK i \in 1..Len(tasks) : tasks[i].repo = r
      BY <2>2
    <3>2. CASE i = 1
      BY <3>1, <3>2, <1>3, <1>4
    <3>3. CASE i # 1
      <4>1. i - 1 \in 1..Len(tasks') /\ (i - 1) + 1 = i
        BY <1>2, <3>3
      <4>. QED
        BY <3>1, <4>1, <1>6
    <3>. QED
      BY <3>2, <3>3
  <2>. QED
    BY <2>1, <2>2 DEF FlightInv, FlightOK
<1>. QED
  BY <1>1, <1>8, <1>9, <1>11, <1>12, <1>13 DEF FlightInv, FlightOK

(* A repository is queued only while it is not in flight. *)
LEMMA QueueKeeps ==
  ASSUME HealthTables, FlightInv, NEW repo \in Repos, RunDue(repo) PROVE FlightInv'
<1>1. CASE UNCHANGED <<inFlight, tasks>>
  BY <1>1 DEF RunDue, FlightInv
<1>2. CASE ~UNCHANGED <<inFlight, tasks>>
  <2> DEFINE x == [repo |-> repo, list |-> Copy(snapshot, repo)]
  <2>1. /\ repo \notin inFlight /\ inFlight' = inFlight \cup {repo}
        /\ tasks' = Append(tasks, x) /\ worker' = worker
    BY <1>2 DEF RunDue
  <2>2. x \in Task /\ x.repo = repo
    BY CopyIs DEF Task, HealthTables
  <2> HIDE DEF x
  <2>3. /\ Len(tasks') = Len(tasks) + 1 /\ Len(tasks) \in Nat
        /\ \A i \in 1..Len(tasks) : tasks'[i] = tasks[i]
        /\ tasks'[Len(tasks) + 1] = x
    BY <2>1, <2>2, QueueGrows DEF HealthTables
  <2>4. \A i \in 1..Len(tasks') : i \in 1..Len(tasks) \/ i = Len(tasks) + 1
    BY <2>3
  <2>5. Len(tasks) + 1 \in 1..Len(tasks') /\ \A i \in 1..Len(tasks) : i \in 1..Len(tasks')
    BY <2>3
  <2>6. \A i \in 1..Len(tasks) : tasks[i].repo # repo
    BY <2>1 DEF FlightInv, FlightOK
  <2>7. \A i, j \in 1..Len(tasks') : tasks'[i].repo = tasks'[j].repo => i = j
    BY <2>2, <2>3, <2>4, <2>6 DEF FlightInv, FlightOK
  <2>8. \A i \in 1..Len(tasks') : tasks'[i].repo \in inFlight'
    BY <2>1, <2>2, <2>3, <2>4 DEF FlightInv, FlightOK
  <2>9. \A w \in Workers : Job(worker[w]) =>
          worker[w].repo \in inFlight' /\ \A i \in 1..Len(tasks') : tasks'[i].repo # worker[w].repo
    BY <2>1, <2>2, <2>3, <2>4 DEF FlightInv, FlightOK
  <2>10. \A r \in inFlight' : \/ \E i \in 1..Len(tasks') : tasks'[i].repo = r
                              \/ \E w \in Workers : Job(worker[w]) /\ worker[w].repo = r
    BY <2>1, <2>2, <2>3, <2>5 DEF FlightInv, FlightOK
  <2>. QED
    BY <2>1, <2>7, <2>8, <2>9, <2>10 DEF FlightInv, FlightOK
<1>. QED
  BY <1>1, <1>2

(* The worker that had it takes the mark away. *)
LEMMA EndKeeps ==
  ASSUME HealthTables, FlightInv, NEW w \in Workers, EndCheck(w) PROVE FlightInv'
<1>1. worker' = [worker EXCEPT ![w] = FreeWorker] /\ tasks' = tasks /\ worker[w].pc = "check"
      /\ ~Job(FreeWorker)
  BY DEF EndCheck, Job, FreeWorker
<1>2. CASE ~worker[w].queued
  <2>1. inFlight' = inFlight
    BY <1>2 DEF EndCheck
  <2>. QED
    BY <1>1, <1>2, <2>1, SameJob DEF Job
<1>3. CASE worker[w].queued
  <2>1. inFlight' = inFlight \ {worker[w].repo} /\ Job(worker[w])
    BY <1>1, <1>3 DEF EndCheck, Job
  <2>2. \A v \in Workers : worker'[v] = IF v = w THEN FreeWorker ELSE worker[v]
    BY <1>1 DEF HealthTables
  <2>3. \A v \in Workers : Job(worker'[v]) => v # w /\ Job(worker[v]) /\ worker'[v] = worker[v]
    BY <1>1, <2>2
  <2>4. \A i \in 1..Len(tasks) : tasks[i].repo \in inFlight'
    BY <2>1 DEF FlightInv, FlightOK
  <2>5. \A v \in Workers : Job(worker'[v]) =>
          worker'[v].repo \in inFlight' /\ \A i \in 1..Len(tasks) : tasks[i].repo # worker'[v].repo
    BY <2>1, <2>3 DEF FlightInv, FlightOK
  <2>6. \A r \in inFlight' : \/ \E i \in 1..Len(tasks) : tasks[i].repo = r
                             \/ \E v \in Workers : Job(worker'[v]) /\ worker'[v].repo = r
    <3> SUFFICES ASSUME NEW r \in inFlight', ~\E i \in 1..Len(tasks) : tasks[i].repo = r
                 PROVE  \E v \in Workers : Job(worker'[v]) /\ worker'[v].repo = r
      OBVIOUS
    <3>1. PICK v \in Workers : Job(worker[v]) /\ worker[v].repo = r
      BY <2>1 DEF FlightInv, FlightOK
    <3>2. v # w
      BY <2>1, <3>1
    <3>. QED
      BY <2>2, <3>1, <3>2
  <2>7. \A u, v \in Workers : Job(worker'[u]) /\ Job(worker'[v]) /\ worker'[u].repo = worker'[v].repo => u = v
    BY <2>3 DEF FlightInv, FlightOK
  <2>. QED
    BY <1>1, <2>4, <2>5, <2>6, <2>7 DEF FlightInv, FlightOK
<1>. QED
  BY <1>2, <1>3

(* The marks are exact: inductive.                                         *)
LEMMA FlightKeep == HealthTables /\ FlightInv /\ [HealthNext]_healthVars => FlightInv'
<1> SUFFICES ASSUME HealthTables, FlightInv, [HealthNext]_healthVars PROVE FlightInv'
  OBVIOUS
<1>1. ASSUME NEW w \in Workers, Probe(w) \/ StoreHealth(w) \/ PublishHealth(w) PROVE FlightInv'
  <2>1. PICK q : GoesOn(w, q)
    BY <1>1, ProbeGoesOn, StoreGoesOn, WrittenGoesOn DEF PublishHealth
  <2>2. UNCHANGED <<inFlight, tasks>>
    BY <1>1 DEF Probe, StoreHealth, PublishHealth
  <2>. QED
    BY <2>1, <2>2, GoingOnKeeps
<1>2. ASSUME NEW w \in Workers, CheckNow(w) PROVE FlightInv'
  <2>1. PICK repo \in Repos :
          worker' = [worker EXCEPT ![w] = Checking(repo, Copy(upstreams, repo), FALSE)]
    BY <1>2 DEF CheckNow
  <2>2. ~Job(Checking(repo, Copy(upstreams, repo), FALSE))
    BY CheckingIs, CopyIs DEF HealthTables, Job
  <2>3. ~Job(worker[w]) /\ UNCHANGED <<inFlight, tasks>>
    BY <1>2 DEF CheckNow, Job
  <2>. QED
    BY <2>1, <2>2, <2>3, SameJob
<1>3. CASE \/ \E repo \in Repos : ReplaceUpstreams(repo) \/ SetMirrorEnabled(repo) \/ ReadUpstreams(repo)
           \/ ReadMirrors \/ ReloadNginx \/ ReplaceSnapshot \/ ActivationFails \/ UNCHANGED healthVars
  <2>1. UNCHANGED <<inFlight, tasks, worker>>
    BY <1>3 DEF ReplaceUpstreams, SetMirrorEnabled, ReadMirrors, ReadUpstreams, ReloadNginx,
                ReplaceSnapshot, ActivationFails, healthVars
  <2>. QED
    BY <2>1 DEF FlightInv
<1>. QED
  BY <1>1, <1>2, <1>3, QueueKeeps, TakeKeeps, EndKeeps DEF HealthNext

(* Nothing is in flight at the start.                                      *)
LEMMA FlightStart == HealthInit => FlightInv
<1> SUFFICES ASSUME HealthInit PROVE FlightInv
  OBVIOUS
<1>1. inFlight = {} /\ Len(tasks) = 0 /\ 1..Len(tasks) = {}
  BY DEF HealthInit
<1>2. \A w \in Workers : ~Job(worker[w])
  BY DEF HealthInit, FreeWorker, Job
<1>. QED
  BY <1>1, <1>2 DEF FlightInv, FlightOK

(* So the numbers of tasks and workers add up. *)
LEMMA FlightShown == HealthTables /\ FlightInv => InFlightExact
<1> SUFFICES ASSUME HealthTables, FlightInv, NEW r \in Repos
             PROVE  LET Q == {i \in DOMAIN tasks : tasks[i].repo = r}
                        W == {w \in Workers : /\ worker[w].pc # "free"
                                              /\ worker[w].queued /\ worker[w].repo = r}
                    IN  Cardinality(Q) + Cardinality(W) = IF r \in inFlight THEN 1 ELSE 0
  BY DEF InFlightExact
<1> DEFINE Q == {i \in DOMAIN tasks : tasks[i].repo = r}
           W == {w \in Workers : /\ worker[w].pc # "free"
                                 /\ worker[w].queued /\ worker[w].repo = r}
<1> SUFFICES Cardinality(Q) + Cardinality(W) = IF r \in inFlight THEN 1 ELSE 0
  OBVIOUS
<1>1. DOMAIN tasks = 1..Len(tasks)
  BY LenProperties DEF HealthTables
<1>2. Cardinality({}) = 0 /\ \A x : Cardinality({x}) = 1
  BY FS_EmptySet, FS_Singleton
<1>3. W = {w \in Workers : Job(worker[w]) /\ worker[w].repo = r}
  BY DEF Job
<1>q. Q = {i \in 1..Len(tasks) : tasks[i].repo = r}
  BY <1>1
<1> HIDE DEF Q, W
<1>4. CASE r \notin inFlight
  <2>1. Q = {} /\ W = {}
    BY <1>q, <1>3, <1>4 DEF FlightInv, FlightOK
  <2>. QED
    BY <1>2, <1>4, <2>1
<1>5. CASE r \in inFlight /\ Q # {}
  <2>1. PICK i \in Q : TRUE
    BY <1>5
  <2>2. Q = {i} /\ W = {}
    BY <1>q, <1>3, <2>1 DEF FlightInv, FlightOK
  <2>. QED
    BY <1>2, <1>5, <2>2
<1>6. CASE r \in inFlight /\ Q = {}
  <2>1. PICK w \in W : TRUE
    BY <1>q, <1>3, <1>6 DEF FlightInv, FlightOK
  <2>2. W = {w}
    BY <1>3, <2>1 DEF FlightInv, FlightOK
  <2>3. Cardinality(Q) = 0 /\ Cardinality(W) = 1
    BY <1>2, <1>6, <2>2
  <2>. QED
    BY <1>6, <2>3
<1>. QED
  BY <1>4, <1>5, <1>6

-----------------------------------------------------------------------------
(* Of the upstreams a request may use, one comes first. *)
LEMMA FirstExists ==
  ASSUME NEW rows, NEW n \in Nat, TableOK(rows, n), NEW S, S \subseteq DOMAIN rows, S # {}
  PROVE  \E m \in S : \A j \in S \ {m} : Precedes(rows, m, j)
<1>1. \A i \in S : i \in Nat /\ rows[i].priority \in Nat /\ Rank(rows[i].status) \in Nat
  BY DEF TableOK, RowOK, RowType, Rank
<1> DEFINE R == {Rank(rows[i].status) : i \in S}
<1>2. PICK r \in R : \A x \in R : r <= x
  BY <1>1, LeastNumber
<1> DEFINE A == {i \in S : Rank(rows[i].status) = r}
           P == {rows[i].priority : i \in A}
<1>3. A # {} /\ P # {} /\ P \subseteq Nat
  BY <1>1, <1>2
<1>4. PICK p \in P : \A x \in P : p <= x
  BY <1>3, LeastNumber
<1> DEFINE B == {i \in A : rows[i].priority = p}
<1>5. B # {} /\ B \subseteq Nat
  BY <1>1, <1>4
<1>6. PICK m \in B : \A x \in B : m <= x
  BY <1>5, LeastNumber
<1>7. ASSUME NEW j \in S \ {m} PROVE Precedes(rows, m, j)
  <2>1. Rank(rows[m].status) = r /\ rows[m].priority = p /\ r <= Rank(rows[j].status)
    BY <1>2, <1>6
  <2>2. CASE Rank(rows[j].status) # r
    BY <1>1, <2>1, <2>2 DEF Precedes
  <2>3. CASE Rank(rows[j].status) = r /\ rows[j].priority # p
    <3>1. p <= rows[j].priority
      BY <1>4, <2>3
    <3>. QED
      BY <1>1, <2>1, <2>3, <3>1 DEF Precedes, ByPriority
  <2>4. CASE Rank(rows[j].status) = r /\ rows[j].priority = p
    <3>1. m <= j
      BY <1>6, <2>4
    <3>. QED
      BY <1>1, <2>1, <2>4, <3>1 DEF Precedes, ByPriority
  <2>. QED
    BY <2>2, <2>3, <2>4
<1>. QED
  BY <1>6, <1>7

(* No two upstreams precede each other.                                    *)
LEMMA PrecedesStrict ==
  ASSUME NEW rows, NEW n \in Nat, TableOK(rows, n), NEW i \in DOMAIN rows, NEW j \in DOMAIN rows
  PROVE  /\ ~(Precedes(rows, i, j) /\ Precedes(rows, j, i))
         /\ ~(ByPriority(rows, i, j) /\ ByPriority(rows, j, i))
<1>1. /\ i \in Nat /\ rows[i].priority \in Nat /\ Rank(rows[i].status) \in Nat
      /\ j \in Nat /\ rows[j].priority \in Nat /\ Rank(rows[j].status) \in Nat
  BY DEF TableOK, RowOK, RowType, Rank
<1>. QED
  BY <1>1 DEF Precedes, ByPriority

(* The two functions choose the same upstream. *)
LEMMA ActiveShown ==
  ASSUME NEW rows, NEW n \in Nat, TableOK(rows, n), NEW repo, Usable(rows, repo) # {}
  PROVE  ActiveUpstream(rows, repo) = TriedFirst(rows, repo)
<1> DEFINE S == Usable(rows, repo)
           With(status) == {i \in S : rows[i].status = status}
           found == IF With("healthy") # {} THEN With("healthy")
                    ELSE IF With("unknown") # {} THEN With("unknown") ELSE With("unhealthy")
<1>1. S \subseteq DOMAIN rows /\ \A i \in S : rows[i].status \in Statuses
  BY DEF Usable, RowsOf, TableOK, RowOK, RowType
<1>2. PICK m \in S : \A j \in S \ {m} : Precedes(rows, m, j)
  BY <1>1, FirstExists
<1>3. TriedFirst(rows, repo) = m
  <2>1. \A i \in S : (\A j \in S \ {i} : Precedes(rows, i, j)) => i = m
    BY <1>1, <1>2, PrecedesStrict
  <2>. QED
    BY <1>2, <2>1 DEF TriedFirst
<1>4. \A j \in S : Rank(rows[m].status) <= Rank(rows[j].status)
  BY <1>1, <1>2 DEF Precedes, Rank, Statuses
<1>5. m \in found /\ \A j \in found : rows[j].status = rows[m].status /\ j \in S
  BY <1>1, <1>2, <1>4 DEF Rank, Statuses
<1>6. \A j \in found \ {m} : ByPriority(rows, m, j)
  <2> SUFFICES ASSUME NEW j \in found \ {m} PROVE ByPriority(rows, m, j)
    OBVIOUS
  <2>1. Precedes(rows, m, j) /\ rows[j].status = rows[m].status
    BY <1>2, <1>5
  <2>. QED
    BY <2>1 DEF Precedes, Rank
<1>7. ActiveUpstream(rows, repo) = CHOOSE i \in found : \A j \in found \ {i} : ByPriority(rows, i, j)
  BY DEF ActiveUpstream
<1> HIDE DEF found, S
<1>8. \A i \in found : (\A j \in found \ {i} : ByPriority(rows, i, j)) => i = m
  BY <1>1, <1>5, <1>6, PrecedesStrict
<1>9. ActiveUpstream(rows, repo) = m
  BY <1>5, <1>6, <1>7, <1>8
<1>. QED
  BY <1>3, <1>9

(* Whatever checks, edits and activations overlap: a status is never that  *)
(* of another server, because an id keeps its server for good, in the      *)
(* table, in the snapshot and in Nginx; "healthy" has an answer of that    *)
(* server behind it, or the 404 a repository expects; a repository has one *)
(* scheduled check at a time and never stays marked; and the upstream that *)
(* keys are made for is the one tried first (runDue, check,                *)
(* UpdateUpstreamHealth, replaceUpstreams, activeRepositoryUpstream and    *)
(* orderedRepositoryUpstreams).                                            *)
THEOREM HealthSoundHolds == HealthSpec => []HealthSound
<1>1. HealthTables => StatusWasProbed
  BY DEF HealthTables, TableOK, RowOK, Grounds, StatusWasProbed
<1>2. HealthTables => ActiveIsFirst
  BY ActiveShown DEF HealthTables, ActiveIsFirst
<1>3. HealthTables /\ FlightInv => HealthSound
  BY <1>1, <1>2, FlightShown DEF HealthSound
<1>. QED
  BY <1>3, TablesStart, TablesKeep, FlightStart, FlightKeep, PTL DEF HealthSpec
==============================================================================
