---------------------------- MODULE LoginLimiter ----------------------------
(***************************************************************************)
(* auth.LoginLimiter: per key (client and account) a window with the       *)
(* failures seen and the attempts in flight.  Acquire admits an attempt,   *)
(* and the release function it returns reports the outcome to whatever     *)
(* entry the key has THEN: a success deletes the entry while other         *)
(* attempts are in flight, and their releases find none or a newer one.    *)
(***************************************************************************)
EXTENDS Integers, FiniteSets

CONSTANTS
  Keys,         \* limiter keys
  Attempts,     \* login requests
  MaxFailures,  \* LoginLimiter.max (login_max_failures)
  MaxItems      \* LoginLimiter.maxItems

ASSUME LimiterAssumption == MaxFailures \in Nat \ {0} /\ MaxItems \in Nat \ {0}

VARIABLES
  items,    \* LoginLimiter.items: an entry for every key in its domain
  attempt   \* the key an admitted request has not released yet, or NoKey

limiterVars == <<items, attempt>>

NoKey == "none"

(* An entry; "passed" says that its window is over, and "admitted" is an   *)
(* auxiliary count of the attempts it has admitted.                        *)
Entry == [failures: Nat, inFlight: Nat, passed: BOOLEAN, admitted: Nat]
NewEntry == [failures |-> 0, inFlight |-> 0, passed |-> FALSE, admitted |-> 0]

Tracked == DOMAIN items

(* pruneLocked keeps what has an open window or an attempt in flight. *)
Over(k) == items[k].passed /\ items[k].inFlight = 0

Pruned == {k \in Tracked : ~Over(k)}

(* The other keys an Acquire of k leaves in the table: at the limit, a key *)
(* without an entry prunes first.                                          *)
Kept(k) == IF k \notin Tracked /\ Cardinality(Tracked) >= MaxItems THEN Pruned ELSE Tracked
HasRoom(k) == k \in Tracked \/ Cardinality(Kept(k)) < MaxItems

(* The entry Acquire looks at: a new one for an unknown key, and for a     *)
(* passed window with nothing in flight.                                   *)
Current(k) == IF k \notin Tracked \/ Over(k) THEN NewEntry ELSE items[k]

(* Mutant: attempts in flight are not counted. *)
Admits_Failures(k) == HasRoom(k) /\ Current(k).failures < MaxFailures

Admits(k) ==
  /\ HasRoom(k)
  /\ Current(k).failures < MaxFailures /\ Current(k).inFlight < MaxFailures

Acquire(a) ==
  /\ attempt[a] = NoKey
  /\ \E k \in Keys :
       /\ Admits(k)
       /\ items' = [x \in Kept(k) \cup {k} |->
                     IF x # k THEN items[x]
                     ELSE [Current(k) EXCEPT !.inFlight = @ + 1, !.admitted = @ + 1]]
       /\ attempt' = [attempt EXCEPT ![a] = k]

(* A refused Acquire: the limit of the key, or of the table after pruning. *)
Refuse(a) ==
  /\ attempt[a] = NoKey
  /\ \E k \in Keys : ~Admits(k) /\ items' = [x \in Kept(k) |-> items[x]]
  /\ UNCHANGED attempt

ReleaseSuccess(a) ==
  /\ attempt[a] # NoKey
  /\ items' = [x \in Tracked \ {attempt[a]} |-> items[x]]
  /\ attempt' = [attempt EXCEPT ![a] = NoKey]

Decrement(n) == IF n = 0 THEN 0 ELSE n - 1

ReleaseFailure(a) ==
  /\ attempt[a] # NoKey
  /\ items' = [x \in Tracked |->
                IF x # attempt[a] THEN items[x]
                ELSE [items[x] EXCEPT !.inFlight = Decrement(@), !.failures = @ + 1]]
  /\ attempt' = [attempt EXCEPT ![a] = NoKey]

WindowPasses ==
  /\ \E k \in Tracked : ~items[k].passed /\ items' = [items EXCEPT ![k].passed = TRUE]
  /\ UNCHANGED attempt

LimiterInit == items = [k \in {} |-> NewEntry] /\ attempt = [a \in Attempts |-> NoKey]

LimiterNext ==
  \/ \E a \in Attempts : Acquire(a) \/ Refuse(a) \/ ReleaseSuccess(a) \/ ReleaseFailure(a)
  \/ WindowPasses

LimiterSpec == LimiterInit /\ [][LimiterNext]_limiterVars

-----------------------------------------------------------------------------
(* Every variable has its type. *)
LimiterTypeOK ==
  /\ Tracked \subseteq Keys
  /\ items \in [Tracked -> Entry]
  /\ attempt \in [Attempts -> Keys \cup {NoKey}]

(* One entry admits at most 2 * MaxFailures - 1 attempts before a success  *)
(* or a new window: concurrent attempts are all admitted before any of     *)
(* them has failed, and attempts left over from an earlier entry release   *)
(* into this one, so MaxFailures itself is not the bound (Acquire).        *)
AdmissionsBounded == \A k \in Tracked : items[k].admitted <= 2 * MaxFailures - 1

(* What AdmissionsBounded rests on: every attempt an entry has admitted is *)
(* still counted by it, in flight or as a failure.                         *)
AdmittedAccounted ==
  \A k \in Tracked : items[k].admitted <= items[k].inFlight + items[k].failures
=============================================================================
