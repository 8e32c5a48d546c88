--------------------------- MODULE RequestLimiter ---------------------------
(***************************************************************************)
(* The concurrency limiter of the proxy: one counter for all requests, one *)
(* per client address and one per repository.  A limit of 0 is no limit.   *)
(* The maps drop an entry that falls to 0.                                 *)
(***************************************************************************)
EXTENDS Naturals

CONSTANTS
  Addresses,     \* client addresses
  Repositories,  \* repository ids
  MaxTotal,      \* limits.max_total_concurrency
  MaxIP,         \* limits.max_ip_concurrency
  MirrorMax      \* effectiveRepositoryConcurrency of every repository

ASSUME LimiterAssumption ==
  MaxTotal \in Nat /\ MaxIP \in Nat /\ MirrorMax \in [Repositories -> Nat]

VARIABLES total, byIP, byMirror

limiterVars == <<total, byIP, byMirror>>

Count(f, k) == IF k \in DOMAIN f THEN f[k] ELSE 0
Increment(f, k) == [x \in DOMAIN f \cup {k} |-> Count(f, x) + (IF x = k THEN 1 ELSE 0)]
Decrement(f, k) == IF f[k] = 1 THEN [x \in DOMAIN f \ {k} |-> f[x]]
                               ELSE [f EXCEPT ![k] = @ - 1]

Admits(ip, m) ==
  /\ MaxTotal > 0 => total < MaxTotal
  /\ MaxIP > 0 => Count(byIP, ip) < MaxIP
  /\ MirrorMax[m] > 0 => Count(byMirror, m) < MirrorMax[m]

Acquire(ip, m) ==
  /\ Admits(ip, m)
  /\ total' = total + 1
  /\ byIP' = Increment(byIP, ip)
  /\ byMirror' = Increment(byMirror, m)

(* Mutant: the counter of the repository is forgotten. *)
Release_NotMirror(ip, m) ==
  total' = total - 1 /\ byIP' = Decrement(byIP, ip) /\ UNCHANGED byMirror

(* The release function, called once by the deferred call of ServeHTTP. *)
Release(ip, m) ==
  /\ total' = total - 1
  /\ byIP' = Decrement(byIP, ip)
  /\ byMirror' = Decrement(byMirror, m)

LimiterInit == total = 0 /\ byIP = <<>> /\ byMirror = <<>>
=============================================================================
