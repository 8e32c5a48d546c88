---------------------------- MODULE ClusterRouting ----------------------------
(***************************************************************************)
(* Health checking and routing on the Coordinator: the cluster_nodes table,*)
(* Checker.CheckNode and CheckAll, the routing snapshot of Router, and the *)
(* node administration handlers of admin_cluster.go.                       *)
(*                                                                         *)
(* Two processes run the same code: the timer's scan and the one handler   *)
(* mutationMu admits.  Each works on a copy of a row taken earlier, probes *)
(* the Edge in two requests, and writes the status back by id.  The        *)
(* workers of one scan touch different rows and counters, so they run one  *)
(* after the other here.  A manifest is a configuration (fingerprint) and  *)
(* a generation; one repository stands for all.                            *)
(***************************************************************************)
EXTENDS Integers, FiniteSets

CONSTANTS
    Ids,                 \* node ids; AUTOINCREMENT never gives one twice
    Urls,                \* Edge URLs
    Configs, InitConfig,
    None,
    Bodies,              \* status fields a node request body can carry
    HealthyThreshold, UnhealthyThreshold,
    MaxGen,              \* bound on Coordinator generations
    MaxWork,             \* bound on operator requests
    MaxEvents            \* bound on Edge failures, recoveries, DB errors, ...

ASSUME ConfigAssumption == InitConfig \in Configs /\ None \notin Configs
ASSUME NoneAssumption == None \notin Ids /\ None \notin Urls
ASSUME ThresholdAssumption ==
    HealthyThreshold \in Nat \ {0} /\ UnhealthyThreshold \in Nat \ {0}
ASSUME BoundAssumption ==
    MaxGen \in Nat \ {0} /\ MaxWork \in Nat /\ MaxEvents \in Nat

Procs == {"scan", "admin"}

VARIABLES
    rows,        \* cluster_nodes
    usedIds,     \* ids the table has given out
    router,      \* Router.nodes
    expected,    \* manifest the Checker compares with
    edges,       \* Edge per URL: reachable, manifest, repository viable
    failures, successes,   \* consecutiveF, consecutiveS per id
    step,        \* next step of each process
    loop,        \* single, check or broadcast: what a process iterates
    todo,        \* nodes of the list still to be treated
    id, node,    \* the node being treated: its id and the copy of its row
    manifest,    \* manifest fetched, or payload being sent
    list,        \* rows read for SetNodes
    work, events,
    grounds      \* why a node was called healthy for a manifest: the URL of
                 \* a successful probe, or None when a request body said so

proc == <<step, loop, todo, id, node, manifest, list>>
vars == <<rows, usedIds, router, expected, edges, failures, successes, proc,
          work, events, grounds>>

Manifest == [cfg : Configs, gen : Nat]
NoManifest == [cfg |-> None, gen |-> 0]
Health == {"unset", "unknown", "healthy", "degraded", "unhealthy"}
ConfigStatus == {"unset", "unknown", "match", "mismatch",
                 "generation_mismatch", "inconsistent"}
Node == [url : Urls, enabled : {"yes", "no"}, health : Health,
         config : ConfigStatus, man : Manifest \cup {NoManifest},
         repo : {"viable", "not_viable", "nil"}]
Status == [health : Health, config : ConfigStatus,
           man : Manifest \cup {NoManifest},
           repo : {"viable", "not_viable", "nil"}]
Edge == [state : {"up", "down"}, man : Manifest,
         repo : {"viable", "not_viable"}]

ASSUME BodiesAssumption == Bodies \subseteq Status

Absent == [url |-> None, enabled |-> "no", health |-> "unset",
           config |-> "unset", man |-> NoManifest, repo |-> "nil"]
Table == [Ids -> Node \cup {Absent}]

TypeOK ==
    /\ rows \in Table /\ router \in Table /\ usedIds \subseteq Ids
    /\ expected \in Manifest /\ edges \in [Urls -> Edge]
    /\ failures \in [Ids -> Nat] /\ successes \in [Ids -> Nat]
    /\ step \in [Procs -> {"idle", "next", "manifest", "health", "failure",
                           "persist", "sync", "list", "set"}]
    /\ loop \in [Procs -> {"single", "check", "broadcast"}]
    /\ todo \in [Procs -> Table]
    /\ id \in [Procs -> Ids \cup {None}]
    /\ node \in [Procs -> Node \cup {Absent}]
    /\ manifest \in [Procs -> Manifest \cup {NoManifest}]
    /\ list \in [Procs -> Table]
    /\ work \in Nat /\ events \in Nat
    /\ grounds \subseteq
          (Ids \X (Urls \cup {None}) \X (Manifest \cup {NoManifest}))

Empty == [i \in Ids |-> Absent]
Event == events > 0 /\ events' = events - 1
Spend == work > 0 /\ work' = work - 1

\* The filters of SelectNode that decide whether a node may be chosen at all.
Routable(n) ==
    /\ n.enabled = "yes"
    /\ n.health \in {"healthy", "degraded"}
    /\ n.man.cfg = expected.cfg
    /\ n.config = "match"
    /\ n.repo = "viable"

-----------------------------------------------------------------------------
(* CheckNode                                                               *)

\* The manifest endpoint of the Edge answers, or the check has failed.
FetchManifest(p) ==
    /\ step[p] = "manifest"
    /\ LET edge == edges[node[p].url] IN
       IF edge.state = "up"
         THEN /\ manifest' = [manifest EXCEPT ![p] = edge.man]
              /\ step' = [step EXCEPT ![p] = "health"]
         ELSE /\ step' = [step EXCEPT ![p] = "failure"]
              /\ UNCHANGED manifest
    /\ UNCHANGED <<rows, usedIds, router, expected, edges, failures,
                   successes, loop, todo, id, node, list, work, events,
                   grounds>>

\* Mutant of Counted: the streak is lost with every answer.
Counted_Forgets(streak, i, limit) == [streak EXCEPT ![i] = 1]

\* A streak, capped where the thresholds stop telling values apart.
Counted(streak, i, limit) ==
    [streak EXCEPT ![i] = IF @ < limit THEN @ + 1 ELSE limit]

\* recordFailure, up to the write of the row.
RecordFailure(p) ==
    /\ step[p] = "failure"
    /\ LET i == id[p] IN
       /\ failures' = Counted(failures, i, UnhealthyThreshold)
       /\ successes' = [successes EXCEPT ![i] = 0]
       /\ node' = [node EXCEPT ![p] =
             IF failures'[i] >= UnhealthyThreshold
               THEN [@ EXCEPT !.health = "unhealthy", !.repo = "nil"] ELSE @]
    /\ step' = [step EXCEPT ![p] = "persist"]
    /\ UNCHANGED <<rows, usedIds, router, expected, edges, loop, todo, id,
                   manifest, list, work, events, grounds>>

\* recordInconsistent: the Edge changed between the two requests.
Inconsistent(p) ==
    LET i == id[p] IN
    /\ failures' = Counted(failures, i, UnhealthyThreshold)
    /\ successes' = [successes EXCEPT ![i] = 0]
    /\ node' = [node EXCEPT ![p] =
          [@ EXCEPT !.health = "unhealthy", !.config = "inconsistent",
                    !.man = manifest[p], !.repo = "nil"]]
    /\ UNCHANGED grounds

NewConfigStatus(m) ==
    IF m.cfg # expected.cfg THEN "mismatch"
    ELSE IF expected.gen = 0 \/ m.gen # expected.gen
      THEN "generation_mismatch" ELSE "match"

\* recordSuccess, up to the write of the row.
Consistent(p) ==
    LET i == id[p]
        edge == edges[node[p].url]
        reported == IF edge.repo = "viable" THEN "healthy" ELSE "degraded" IN
    /\ failures' = [failures EXCEPT ![i] = 0]
    /\ successes' = Counted(successes, i, HealthyThreshold)
    /\ node' = [node EXCEPT ![p] =
          [node[p] EXCEPT
            !.health = IF node[p].health = "unhealthy"
                          /\ successes'[i] < HealthyThreshold
                         THEN "unhealthy" ELSE reported,
            !.config = NewConfigStatus(manifest[p]),
            !.man = manifest[p], !.repo = edge.repo]]
    /\ grounds' = grounds \cup {<<i, node[p].url, manifest[p]>>}

\* The health endpoint answers for the same manifest, for another, or not.
FetchHealth(p) ==
    /\ step[p] = "health"
    /\ LET edge == edges[node[p].url] IN
       \/ /\ edge.state = "down" /\ step' = [step EXCEPT ![p] = "failure"]
          /\ UNCHANGED <<failures, successes, node, grounds>>
       \/ /\ edge.state = "up" /\ step' = [step EXCEPT ![p] = "persist"]
          /\ IF edge.man = manifest[p] THEN Consistent(p) ELSE Inconsistent(p)
    /\ UNCHANGED <<rows, usedIds, router, expected, edges, loop, todo, id,
                   manifest, list, work, events>>

\* UpdateClusterNodeStatus writes the status columns of whatever row has the
\* id now; a single check or sync whose write fails returns at once, without
\* refreshing the router, while a scan goes on with its next node.
StatusOf(n, i) == [rows[i] EXCEPT !.health = n.health, !.config = n.config,
                                  !.man = n.man, !.repo = n.repo]
Treated(p) == /\ id' = [id EXCEPT ![p] = None]
              /\ node' = [node EXCEPT ![p] = Absent]

PersistStatus(p) ==
    /\ step[p] = "persist" /\ Treated(p)
    /\ LET i == id[p] IN
       \/ /\ rows[i] # Absent
          /\ rows' = [rows EXCEPT ![i] = StatusOf(node[p], i)]
          /\ step' = [step EXCEPT ![p] =
                        IF loop[p] = "single" THEN "list" ELSE "next"]
          /\ UNCHANGED events
       \/ /\ IF rows[i] = Absent THEN UNCHANGED events ELSE Event
          /\ step' = [step EXCEPT ![p] =
                        IF loop[p] = "single" THEN "idle" ELSE "next"]
          /\ UNCHANGED rows
    /\ UNCHANGED <<usedIds, router, expected, edges, failures, successes,
                   loop, todo, manifest, list, work, grounds>>

-----------------------------------------------------------------------------
(* Loops, and the refresh every handler and scan ends with.                *)

\* Mutant of NextNode: a scan ends without reloading the router.
NextNode_NoReload(p) ==
    /\ step[p] = "next"
    /\ \/ /\ todo[p] = Empty
          /\ step' = [step EXCEPT ![p] = IF p = "scan" THEN "idle" ELSE "list"]
          /\ UNCHANGED <<todo, id, node>>
       \/ \E i \in Ids :
             /\ todo[p][i] # Absent
             /\ todo' = [todo EXCEPT ![p][i] = Absent]
             /\ id' = [id EXCEPT ![p] = i]
             /\ node' = [node EXCEPT ![p] = todo[p][i]]
             /\ step' = [step EXCEPT ![p] =
                    IF loop[p] = "broadcast" THEN "sync" ELSE "manifest"]
    /\ UNCHANGED <<rows, usedIds, router, expected, edges, failures,
                   successes, loop, manifest, list, work, events, grounds>>

\* The next node of the list; an empty list ends the loop.
NextNode(p) ==
    /\ step[p] = "next"
    /\ \/ /\ todo[p] = Empty
          /\ step' = [step EXCEPT ![p] = "list"]
          /\ UNCHANGED <<todo, id, node>>
       \/ \E i \in Ids :
             /\ todo[p][i] # Absent
             /\ todo' = [todo EXCEPT ![p][i] = Absent]
             /\ id' = [id EXCEPT ![p] = i]
             /\ node' = [node EXCEPT ![p] = todo[p][i]]
             /\ step' = [step EXCEPT ![p] =
                    IF loop[p] = "broadcast" THEN "sync" ELSE "manifest"]
    /\ UNCHANGED <<rows, usedIds, router, expected, edges, failures,
                   successes, loop, manifest, list, work, events, grounds>>

ListClusterNodes(p) ==
    /\ step[p] = "list"
    /\ manifest' = [manifest EXCEPT ![p] = NoManifest]
    /\ \/ /\ list' = [list EXCEPT ![p] = rows]
          /\ step' = [step EXCEPT ![p] = "set"] /\ UNCHANGED events
       \/ Event /\ step' = [step EXCEPT ![p] = "idle"] /\ UNCHANGED list
    /\ UNCHANGED <<rows, usedIds, router, expected, edges, failures,
                   successes, loop, todo, id, node, work, grounds>>

SetNodes(p) ==
    /\ step[p] = "set"
    /\ router' = list[p]
    /\ step' = [step EXCEPT ![p] = "idle"]
    /\ list' = [list EXCEPT ![p] = Empty]
    /\ UNCHANGED <<rows, usedIds, expected, edges, failures, successes, loop,
                   todo, id, node, manifest, work, events, grounds>>

\* CheckAll on the timer.
CheckAll ==
    /\ step["scan"] = "idle"
    /\ step' = [step EXCEPT !["scan"] = "next"]
    /\ todo' = [todo EXCEPT !["scan"] = rows]
    /\ UNCHANGED <<rows, usedIds, router, expected, edges, failures,
                   successes, loop, id, node, manifest, list, work, events,
                   grounds>>

-----------------------------------------------------------------------------
(* SyncNode, reduced to its outcome (ClusterSync has the protocol).        *)

\* Mutant of Synchronized: an acknowledged Edge is called healthy.
Synchronized_Healthy(n, m) ==
    [n EXCEPT !.health = "healthy", !.config = "match", !.man = m,
              !.repo = "viable"]

Synchronized(n, m) ==
    [n EXCEPT !.health = "unknown", !.config = "match", !.man = m,
              !.repo = "nil"]

SyncNode(p) ==
    /\ step[p] = "sync"
    /\ LET u == node[p].url IN
       IF edges[u].state = "up"
         THEN /\ edges' = [edges EXCEPT ![u].man = manifest[p]]
              /\ node' = [node EXCEPT ![p] = Synchronized(@, manifest[p])]
              /\ step' = [step EXCEPT ![p] = "persist"] /\ UNCHANGED id
         ELSE /\ step' = [step EXCEPT ![p] =
                            IF loop[p] = "single" THEN "idle" ELSE "next"]
              /\ Treated(p) /\ UNCHANGED edges
    /\ UNCHANGED <<rows, usedIds, router, expected, failures, successes,
                   loop, todo, manifest, list, work, events, grounds>>

-----------------------------------------------------------------------------
(* Node administration; mutationMu admits one handler at a time.  A body   *)
(* is decoded into a whole model.ClusterNode, so besides the URL it may    *)
(* state health, configuration status, manifest and repository health.     *)

Handler(kind, first) ==
    /\ step["admin"] = "idle" /\ Spend
    /\ loop' = [loop EXCEPT !["admin"] = kind]
    /\ step' = [step EXCEPT !["admin"] = first]

FreeUrl(u, i) == \A j \in Ids \ {i} : rows[j].url # u

Treat(i, n) ==
    /\ id' = [id EXCEPT !["admin"] = i]
    /\ node' = [node EXCEPT !["admin"] = n]

\* A node as a body describes it.
Described(u, e, b) ==
    [url |-> u, enabled |-> e, health |-> b.health, config |-> b.config,
     man |-> b.man, repo |-> b.repo]

\* What blank fields of a new row become.
OrUnknown(n) ==
    [n EXCEPT !.health = IF @ = "unset" THEN "unknown" ELSE @,
              !.config = IF @ = "unset" THEN "unknown" ELSE @]

\* A status that lets the router choose the node.
Passes(n) == n.health \in {"healthy", "degraded"} /\ n.config = "match"
Claimed(i, n) ==
    grounds' = IF Passes(n) THEN grounds \cup {<<i, None, n.man>>} ELSE grounds

\* The row gets the status of the body, until the probe that follows.
CreateClusterNode ==
    /\ Handler("single", "manifest")
    /\ \E i \in Ids \ usedIds, u \in Urls, b \in Bodies :
          LET n == OrUnknown(Described(u, "yes", b)) IN
          /\ FreeUrl(u, i)
          /\ rows' = [rows EXCEPT ![i] = n] /\ usedIds' = usedIds \cup {i}
          /\ Treat(i, n) /\ Claimed(i, n)
    /\ UNCHANGED <<router, expected, edges, failures, successes, todo,
                   manifest, list, events>>

\* The row keeps its status; the copy probed has what the request body had,
\* and a probe that fails below the threshold writes it.
UpdateClusterNode ==
    /\ Handler("single", "manifest")
    /\ \E i \in Ids, u \in Urls, e \in {"yes", "no"}, b \in Bodies :
          /\ rows[i] # Absent /\ FreeUrl(u, i)
          /\ rows' = [rows EXCEPT ![i].url = u, ![i].enabled = e]
          /\ Treat(i, Described(u, e, b)) /\ Claimed(i, Described(u, e, b))
    /\ UNCHANGED <<usedIds, router, expected, edges, failures, successes,
                   todo, manifest, list, events>>

DeleteClusterNode ==
    /\ Handler("single", "list")
    /\ \E i \in Ids : rows[i] # Absent /\ rows' = [rows EXCEPT ![i] = Absent]
    /\ UNCHANGED <<usedIds, router, expected, edges, failures, successes,
                   todo, id, node, manifest, list, events, grounds>>

SetClusterNodeEnabled ==
    /\ Handler("single", "list")
    /\ \E i \in Ids, e \in {"yes", "no"} :
          rows[i] # Absent /\ rows' = [rows EXCEPT ![i].enabled = e]
    /\ UNCHANGED <<usedIds, router, expected, edges, failures, successes,
                   todo, id, node, manifest, list, events, grounds>>

CheckOne ==
    /\ Handler("single", "manifest")
    /\ \E i \in Ids : rows[i] # Absent /\ Treat(i, rows[i])
    /\ UNCHANGED <<rows, usedIds, router, expected, edges, failures,
                   successes, todo, manifest, list, events, grounds>>

SyncOne ==
    /\ Handler("single", "sync")
    /\ \E i \in Ids : rows[i] # Absent /\ Treat(i, rows[i])
    /\ manifest' = [manifest EXCEPT !["admin"] = expected]
    /\ UNCHANGED <<rows, usedIds, router, expected, edges, failures,
                   successes, todo, list, events, grounds>>

\* syncAllClusterNodes: every enabled node, then the router in any case.
SyncAll ==
    /\ Handler("broadcast", "next")
    /\ todo' = [todo EXCEPT !["admin"] = [i \in Ids |->
                  IF rows[i].enabled = "yes" THEN rows[i] ELSE Absent]]
    /\ manifest' = [manifest EXCEPT !["admin"] = expected]
    /\ UNCHANGED <<rows, usedIds, router, expected, edges, failures,
                   successes, id, node, list, events, grounds>>

\* resetClusterFingerprint: the active manifest again, then a whole scan.
ResetClusterFingerprint ==
    /\ Handler("check", "next")
    /\ todo' = [todo EXCEPT !["admin"] = rows]
    /\ UNCHANGED <<rows, usedIds, router, expected, edges, failures,
                   successes, id, node, manifest, list, events, grounds>>

-----------------------------------------------------------------------------
(* The rest of the world.                                                  *)

\* The Coordinator activates a version: edited, or the same content again by
\* a scheduled refresh.
SetExpectedConfiguration ==
    /\ expected.gen < MaxGen /\ Event
    /\ \E c \in Configs : expected' = [cfg |-> c, gen |-> expected.gen + 1]
    /\ UNCHANGED <<rows, usedIds, router, edges, failures, successes, proc,
                   work, grounds>>

\* An Edge fails, comes back, is edited, is synchronized by a late request,
\* or sees its upstream fail.
EdgeChanges ==
    /\ Event
    /\ \E u \in Urls, s \in {"up", "down"}, r \in {"viable", "not_viable"} :
       \E m \in {expected} \cup [cfg : Configs, gen : {edges[u].man.gen}] :
             edges' = [edges EXCEPT ![u] = [state |-> s, man |-> m, repo |-> r]]
    /\ UNCHANGED <<rows, usedIds, router, expected, failures, successes, proc,
                   work, grounds>>

FirstManifest == [cfg |-> InitConfig, gen |-> 1]

Init ==
    /\ rows = Empty /\ usedIds = {} /\ router = Empty
    /\ expected = FirstManifest
    /\ edges = [u \in Urls |-> [state |-> "up", man |-> FirstManifest,
                                repo |-> "viable"]]
    /\ failures = [i \in Ids |-> 0] /\ successes = [i \in Ids |-> 0]
    /\ step = [p \in Procs |-> "idle"]
    /\ loop = [p \in Procs |-> IF p = "scan" THEN "check" ELSE "single"]
    /\ todo = [p \in Procs |-> Empty] /\ id = [p \in Procs |-> None]
    /\ node = [p \in Procs |-> Absent]
    /\ manifest = [p \in Procs |-> NoManifest]
    /\ list = [p \in Procs |-> Empty]
    /\ work = MaxWork /\ events = MaxEvents /\ grounds = {}

Step(p) ==
    \/ FetchManifest(p) \/ FetchHealth(p) \/ RecordFailure(p)
    \/ PersistStatus(p) \/ NextNode(p) \/ ListClusterNodes(p)
    \/ SetNodes(p) \/ SyncNode(p)

AdminOperation ==
    \/ CreateClusterNode \/ UpdateClusterNode \/ DeleteClusterNode
    \/ SetClusterNodeEnabled \/ CheckOne \/ SyncOne \/ SyncAll
    \/ ResetClusterFingerprint

Next ==
    \/ \E p \in Procs : Step(p)
    \/ CheckAll \/ AdminOperation
    \/ SetExpectedConfiguration \/ EdgeChanges

Spec == Init /\ [][Next]_vars

-----------------------------------------------------------------------------
(* Properties                                                              *)

\* A node the router may choose has grounds for it: some probe of that node
\* found manifest and health agreeing on exactly the manifest it is routed
\* for, or a request body of that node claimed so.  Neither a sync
\* acknowledgement, nor a status put together from stale copies of the row,
\* nor what was said of another node or manifest is enough.
RoutableHasGrounds ==
    \A i \in Ids : Routable(router[i]) =>
        \E u \in Urls \cup {None} : <<i, u, router[i].man>> \in grounds

\* The same of every copy of a row, the inductive strengthening: whatever is
\* healthy and matching somewhere had grounds at some time.
Sound(found, i, n) ==
    Passes(n) => \E u \in Urls \cup {None} : <<i, u, n.man>> \in found
CopiesSound ==
    /\ \A i \in Ids :
          /\ Sound(grounds, i, rows[i]) /\ Sound(grounds, i, router[i])
          /\ \A p \in Procs : /\ Sound(grounds, i, todo[p][i])
                              /\ Sound(grounds, i, list[p][i])
    /\ \A p \in Procs : id[p] # None => Sound(grounds, id[p], node[p])

\* Which steps hold a node and a manifest.
WorkInv ==
    /\ loop["scan"] = "check"
    /\ \A p \in Procs :
        /\ step[p] \in {"manifest", "health", "failure", "persist", "sync"}
               => id[p] \in Ids /\ node[p] \in Node
        /\ step[p] \in {"health", "sync"} => manifest[p] \in Manifest
        /\ loop[p] = "broadcast" =>
               /\ step[p] \notin {"manifest", "health", "failure"}
               /\ step[p] \in {"next", "persist"} => manifest[p] \in Manifest

-----------------------------------------------------------------------------
(* Liveness: the timer keeps scanning and handlers end.                    *)
Fairness ==
    /\ WF_vars(CheckAll)
    /\ \A p \in Procs : WF_vars(Step(p))

FairSpec == Spec /\ Fairness

\* An Edge that stays down is eventually never chosen again, whatever stale
\* copies were in flight when it went down and whatever a body claims of it.
DeadEdgeUnrouted ==
    \A u \in Urls :
        <>[](edges[u].state = "down")
            => <>[](\A i \in Ids : router[i].url = u => ~Routable(router[i]))

\* After the last operator request the router only chooses nodes that the
\* table has, enabled, at the URL it has: a lost race for SetNodes or a
\* failed refresh is repaired by the next scan.
RouterFollowsTable ==
    <>[](\A i \in Ids : Routable(router[i]) =>
            /\ rows[i] # Absent /\ rows[i].enabled = "yes"
            /\ rows[i].url = router[i].url)

-----------------------------------------------------------------------------
(* Statements of the repository that the code does not meet.               *)

\* docs/distributed.md: "Nodes remain unroutable until a v2 sync succeeds and
\* a subsequent health probe confirms the requested repository."  The node
\* chosen was then probed, and at the URL clients are sent to.
ConfirmedByProbe ==
    \A i \in Ids : Routable(router[i]) =>
        \E u \in Urls : <<i, u, router[i].man>> \in grounds
ConfirmedAtUrl ==
    \A i \in Ids : Routable(router[i]) =>
        <<i, router[i].url, router[i].man>> \in grounds
=============================================================================
