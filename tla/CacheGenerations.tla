-------------------------- MODULE CacheGenerations --------------------------
(***************************************************************************)
(* Cache invalidation by generations: cachectl.Manager with its table, the *)
(* purge handlers of the Coordinator, and the broadcast to the Edges.      *)
(*                                                                         *)
(* A cache key is made of the global, the repository and the object        *)
(* generation and the object, which includes the upstream it comes from.   *)
(* A purge raises one generation in the database, in one transaction, and  *)
(* then copies the new value to memory; mutationMu admits one purge per    *)
(* node.  One repository is modelled: generations of different             *)
(* repositories are independent.                                           *)
(***************************************************************************)
EXTENDS Naturals, FiniteSets

CONSTANTS
  Coordinator,   \* the node with the purge handlers
  Edges,         \* enabled Edge nodes
  Upstreams,     \* upstreams of the repository
  Paths,         \* object paths
  MaxPurges      \* bound: purge requests

ASSUME CacheAssumption == MaxPurges \in Nat

Nodes == Edges \cup {Coordinator}
Objects == Upstreams \X Paths
Global == <<"global">>
Repository == <<"repository">>
Object(o) == <<"object", o[1], o[2]>>
Scopes == {Global, Repository} \cup {Object(o) : o \in Objects}
Covers(s, o) == s \in {Global, Repository, Object(o)}

VARIABLES
  generation, \* table cache_generations of every node (absent rows are 1)
  manager,    \* Manager.global, repositories, objects of every node
  loaded,     \* Manager.loaded: the process is up and has read its table
  work,       \* the purge under mutationMu on every node
  accepted,   \* Edges whose sync state is "applied" with this epoch
  broadcast,  \* what BroadcastPurge has done for every Edge: one request each
  requests,   \* number of purge requests
  used,       \* auxiliary: the keys requests have used on every node
  promised,   \* auxiliary: keys a caller was told are invalid
  pathPromised \* auxiliary: the same, for a purge of an object path

cacheVars == <<generation, manager, loaded, work, accepted, broadcast, requests, used,
               promised, pathPromised>>

(* A purge: where it stands, its scope, and the keys used before it. *)
NoWork == [pc |-> "idle", scope |-> Global, keys |-> {}]
NoBroadcast == [e \in Edges |-> "done"]

(* Manager.Key.  Requests come at any time, for the active upstream or,    *)
(* when they fail over, for another one: every key that can be computed is *)
(* taken to be used.                                                       *)
Key(n, o) == <<manager[n][Global], manager[n][Repository], manager[n][Object(o)], o>>
UseKeys(n) == used' = [used EXCEPT ![n] = @ \cup {Key(n, o)' : o \in Objects}]

(* The used keys of the objects a scope covers, and of the path it names. *)
CoveredKeys(n, s) == {k \in work[n].keys : Covers(s, k[4])}
PathKeys(n, s) == {k \in work[n].keys : \E u \in Upstreams : Covers(s, <<u, k[4][2]>>)}

-----------------------------------------------------------------------------
(* clearCache and purgeRepositoryCache: an object purge names the object   *)
(* of the upstream that is active on the Coordinator.                      *)
PurgeRequest ==
  /\ loaded[Coordinator] /\ work[Coordinator].pc = "idle"
  /\ requests < MaxPurges /\ requests' = requests + 1
  /\ \E s \in Scopes : work' = [work EXCEPT ![Coordinator] =
                                 [pc |-> "commit", scope |-> s, keys |-> used[Coordinator]]]
  /\ UNCHANGED <<generation, manager, loaded, accepted, broadcast, used, promised, pathPromised>>

(* Store.PurgeCache: one transaction. *)
PurgeCache(n, s) == generation' = [generation EXCEPT ![n][s] = @ + 1]

Committed(n) ==
  /\ work[n].pc = "commit"
  /\ \/ /\ PurgeCache(n, work[n].scope)
        /\ work' = [work EXCEPT ![n].pc = "publish"]
     \/ /\ work' = [work EXCEPT ![n] = NoWork]       \* error: nothing changed
        /\ UNCHANGED generation
  /\ UNCHANGED <<manager, loaded, accepted, broadcast, requests, used, promised, pathPromised>>

(* The job just inserted is read back; when that fails the purge returns   *)
(* an error with the new generation in the table and not in memory.        *)
ReadBackFails(n) ==
  /\ work[n].pc = "publish"
  /\ work' = [work EXCEPT ![n] = NoWork]
  /\ UNCHANGED <<generation, manager, loaded, accepted, broadcast, requests, used, promised, pathPromised>>

(* Manager.Purge sets memory to the generation of the job.  The            *)
(* Coordinator goes on to the broadcast, an Edge acknowledges.             *)
Publish(n) ==
  /\ work[n].pc = "publish"
  /\ manager' = [manager EXCEPT ![n][work[n].scope] = generation[n][work[n].scope]]
  /\ UseKeys(n)
  /\ IF n = Coordinator
     THEN /\ work' = [work EXCEPT ![n].pc = "broadcast"]
          /\ broadcast' = [e \in Edges |-> "todo"]
     ELSE /\ work' = [work EXCEPT ![n].pc = "ack"]
          /\ UNCHANGED broadcast
  /\ UNCHANGED <<generation, loaded, accepted, requests, promised, pathPromised>>

(* purgeNode reaches the Edge: applyClusterPurge takes the lock and checks *)
(* the accepted Coordinator epoch and that the repository is active.       *)
Receive(e) ==
  /\ broadcast[e] = "todo"
  /\ broadcast' = [broadcast EXCEPT ![e] = "sent"]
  /\ loaded[e] /\ work[e].pc = "idle" /\ e \in accepted
  /\ work' = [work EXCEPT ![e] = [pc |-> "commit", scope |-> work[Coordinator].scope,
                                  keys |-> used[e]]]
  /\ UNCHANGED <<generation, manager, loaded, accepted, requests, used, promised, pathPromised>>

Promise(n, s) ==
  /\ promised' = [promised EXCEPT ![n] = @ \cup CoveredKeys(n, s)]
  /\ pathPromised' = [pathPromised EXCEPT ![n] = @ \cup PathKeys(n, s)]

(* The acknowledgement arrives: this Edge counts as succeeded. *)
Acknowledge(e) ==
  /\ broadcast[e] = "sent" /\ work[e].pc = "ack"
  /\ Promise(e, work[e].scope)
  /\ work' = [work EXCEPT ![e] = NoWork]
  /\ broadcast' = [broadcast EXCEPT ![e] = "done"]
  /\ UNCHANGED <<generation, manager, loaded, accepted, requests, used>>

(* The request or its answer is lost, times out or is refused: failed.     *)
Lose(e) ==
  /\ broadcast[e] # "done"
  /\ broadcast' = [broadcast EXCEPT ![e] = "done"]
  /\ work' = [work EXCEPT ![e] = IF @.pc = "ack" THEN NoWork ELSE @]
  /\ UNCHANGED <<generation, manager, loaded, accepted, requests, used, promised, pathPromised>>

(* An answer nobody waits for any more. *)
Unheard(e) ==
  /\ work[e].pc = "ack" /\ broadcast[e] # "sent"
  /\ work' = [work EXCEPT ![e] = NoWork]
  /\ UNCHANGED <<generation, manager, loaded, accepted, broadcast, requests, used, promised, pathPromised>>

(* Every Edge was heard or given up: the handler answers the caller. *)
Respond ==
  /\ work[Coordinator].pc = "broadcast" /\ \A e \in Edges : broadcast[e] = "done"
  /\ Promise(Coordinator, work[Coordinator].scope)
  /\ work' = [work EXCEPT ![Coordinator] = NoWork]
  /\ UNCHANGED <<generation, manager, loaded, accepted, broadcast, requests, used>>

-----------------------------------------------------------------------------
(* A node stops; what its handler was doing is lost. *)
Crash(n) ==
  /\ loaded[n]
  /\ loaded' = [loaded EXCEPT ![n] = FALSE]
  /\ work' = [work EXCEPT ![n] = NoWork]
  /\ broadcast' = IF n = Coordinator THEN NoBroadcast ELSE broadcast
  /\ UNCHANGED <<generation, manager, accepted, requests, used, promised, pathPromised>>

(* Mutant: rows of scope "object" are not loaded. *)
Load_NoObjects(n) ==
  /\ ~loaded[n]
  /\ loaded' = [loaded EXCEPT ![n] = TRUE]
  /\ manager' = [manager EXCEPT ![n] =
       [s \in Scopes |-> IF s \in {Global, Repository} THEN generation[n][s] ELSE 1]]
  /\ UseKeys(n)
  /\ UNCHANGED <<generation, work, accepted, broadcast, requests, promised, pathPromised>>

(* Manager.Load at the next start. *)
Load(n) ==
  /\ ~loaded[n]
  /\ loaded' = [loaded EXCEPT ![n] = TRUE]
  /\ manager' = [manager EXCEPT ![n] = generation[n]]
  /\ UseKeys(n)
  /\ UNCHANGED <<generation, work, accepted, broadcast, requests, promised, pathPromised>>

(* A synchronization begins or completes on an Edge. *)
SyncStateChanges(e) ==
  /\ work[e].pc = "idle"
  /\ accepted' = IF e \in accepted THEN accepted \ {e} ELSE accepted \cup {e}
  /\ UNCHANGED <<generation, manager, loaded, work, broadcast, requests, used, promised, pathPromised>>

CacheInit ==
  /\ generation = [n \in Nodes |-> [s \in Scopes |-> 1]]
  /\ manager = generation
  /\ loaded = [n \in Nodes |-> TRUE]
  /\ work = [n \in Nodes |-> NoWork]
  /\ accepted = Edges /\ broadcast = NoBroadcast /\ requests = 0
  /\ used = [n \in Nodes |-> {Key(n, o) : o \in Objects}]
  /\ promised = [n \in Nodes |-> {}] /\ pathPromised = promised

CacheNext ==
  \/ PurgeRequest \/ Respond
  \/ \E n \in Nodes :
       Committed(n) \/ ReadBackFails(n) \/ Publish(n) \/ Crash(n) \/ Load(n)
  \/ \E e \in Edges :
       Receive(e) \/ Acknowledge(e) \/ Lose(e) \/ Unheard(e) \/ SyncStateChanges(e)

CacheSpec == CacheInit /\ [][CacheNext]_cacheVars

-----------------------------------------------------------------------------
(* Every variable has its type. *)
CacheTypeOK ==
  /\ generation \in [Nodes -> [Scopes -> Nat \ {0}]]
  /\ manager \in [Nodes -> [Scopes -> Nat \ {0}]]
  /\ loaded \in [Nodes -> BOOLEAN]
  /\ work \in [Nodes -> [pc: {"idle", "commit", "publish", "broadcast", "ack"}, scope: Scopes,
                        keys: SUBSET (Nat \X Nat \X Nat \X Objects)]]
  /\ requests \in 0..MaxPurges
  /\ accepted \subseteq Edges /\ broadcast \in [Edges -> {"todo", "sent", "done"}]

(* A key a caller was told is invalid is never used again: not after a     *)
(* purge that failed half way, a crash between the table and memory, a     *)
(* restart, and not on an Edge that acknowledged the broadcast (Purge,     *)
(* Load, BroadcastPurge).                                                  *)
PurgedStaysPurged ==
  \A n \in Nodes : loaded[n] => \A o \in Objects : Key(n, o) \notin promised[n]

(* The administration page's promise for an object path: once the purge of *)
(* a path was answered, no object of that path is served under a key from  *)
(* before, from whatever upstream (purgeRepositoryCache).                  *)
PathPurged ==
  \A n \in Nodes : loaded[n] => \A o \in Objects : Key(n, o) \notin pathPromised[n]
=============================================================================
