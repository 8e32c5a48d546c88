------------------------- MODULE ClusterRoutingProofs -------------------------
(***************************************************************************)
(* Proofs about ClusterRouting for any number of nodes, URLs and           *)
(* configurations, any request bodies, thresholds and budgets.  Types need WorkInv     *)
(* (which steps hold a node and a manifest); RoutableHasGrounds needs        *)
(* CopiesSound, its generalization from the router to every copy of a row. *)
(***************************************************************************)
EXTENDS ClusterRouting, TLAPS

USE ConfigAssumption, NoneAssumption, ThresholdAssumption, BoundAssumption
USE BodiesAssumption
USE DEF proc, Procs, Event, Spend, Handler, Treat, Treated

Base == TypeOK /\ WorkInv

\* A table without rows, the value of lists nobody uses.
LEMMA EmptyTable == Empty \in Table
  BY DEF Empty, Table

\* What a request body describes is a node, with blank fields filled in too.
LEMMA DescribedNode ==
    ASSUME NEW u \in Urls, NEW e \in {"yes", "no"}, NEW b \in Bodies
    PROVE  Described(u, e, b) \in Node /\ OrUnknown(Described(u, e, b)) \in Node
<1>1. b \in Status
  OBVIOUS
<1>2. ASSUME NEW n \in Node PROVE OrUnknown(n) \in Node
  BY DEF OrUnknown, Node, Health, ConfigStatus
<1>3. Described(u, e, b) \in Node
  BY <1>1 DEF Described, Status, Node
<1>. QED
  BY <1>2, <1>3

\* Grounds keep their type when a body claims something of a node.
LEMMA ClaimedType ==
    ASSUME NEW i \in Ids, NEW n \in Node, Claimed(i, n), TypeOK
    PROVE  grounds' \subseteq
             (Ids \X (Urls \cup {None}) \X (Manifest \cup {NoManifest}))
<1>1. n.man \in Manifest \cup {NoManifest}
  BY DEF Node
<1>. QED
  BY <1>1 DEF Claimed, TypeOK

\* Types, and that a process which treats a node holds a row the table once
\* had and the manifest its step needs.
THEOREM BaseCorrect == Spec => []Base
<1>1. Init => Base
  BY EmptyTable DEF Init, Base, TypeOK, WorkInv, FirstManifest, Manifest, Edge
<1>2. Base /\ [Next]_vars => Base'
  <2>. SUFFICES ASSUME Base, [Next]_vars PROVE Base'
    OBVIOUS
  <2>. USE DEF Base, TypeOK, WorkInv
  <2>1. ASSUME NEW p \in Procs, FetchManifest(p) PROVE Base'
    <3>1. ASSUME NEW e \in Edge PROVE e.man \in Manifest
      BY DEF Edge
    <3>2. node[p] \in Node /\ id[p] \in Ids /\ node[p].url \in Urls
      BY <2>1 DEF FetchManifest, Node
    <3>. QED
      BY <2>1, <3>1, <3>2 DEF FetchManifest
  <2>2. ASSUME NEW p \in Procs, FetchHealth(p) PROVE Base'
    <3>1. edges[node[p].url] \in Edge /\ node[p] \in Node /\ id[p] \in Ids
          /\ manifest[p] \in Manifest
      BY <2>2 DEF FetchHealth, Node
    <3>2. CASE step'[p] = "failure"
      BY <2>2, <3>1, <3>2 DEF FetchHealth
    <3>3. CASE Inconsistent(p) /\ step' = [step EXCEPT ![p] = "persist"]
      <4>1. [node[p] EXCEPT !.health = "unhealthy", !.config = "inconsistent",
                !.man = manifest[p], !.repo = "nil"] \in Node
        BY <3>1 DEF Node, Health, ConfigStatus
      <4>. QED
        BY <2>2, <3>1, <3>3, <4>1 DEF FetchHealth, Inconsistent, Counted
    <3>4. CASE Consistent(p) /\ step' = [step EXCEPT ![p] = "persist"]
      <4>. DEFINE n == node'[p]
      <4>. DEFINE edge == edges[node[p].url]
                  reported == IF edge.repo = "viable" THEN "healthy" ELSE "degraded"
                  h == IF node[p].health = "unhealthy"
                          /\ successes'[id[p]] < HealthyThreshold
                         THEN "unhealthy" ELSE reported
                  c == NewConfigStatus(manifest[p])
      <4>0. h \in Health /\ c \in ConfigStatus
            /\ edge.repo \in {"viable", "not_viable", "nil"}
        BY <3>1 DEF NewConfigStatus, Health, ConfigStatus, Edge
      <4>n. n = [node[p] EXCEPT !.health = h, !.config = c,
                                !.man = manifest[p], !.repo = edge.repo]
        <5>1. node' = [node EXCEPT ![p] = [node[p] EXCEPT !.health = h,
                  !.config = c, !.man = manifest[p], !.repo = edge.repo]]
          BY <3>4 DEF Consistent
        <5>. HIDE DEF h, c, edge
        <5>. QED
          BY <5>1
      <4>1. n \in Node
        <5>. HIDE DEF h, c, edge
        <5>. QED
          BY <3>1, <4>0, <4>n DEF Node
      <4>2. node' = [node EXCEPT ![p] = n]
        BY <3>4 DEF Consistent
      <4>3. grounds' \subseteq
              (Ids \X (Urls \cup {None}) \X (Manifest \cup {NoManifest}))
        BY <3>1, <3>4 DEF Consistent, Node
      <4>4. failures' \in [Ids -> Nat] /\ successes' \in [Ids -> Nat]
        BY <3>1, <3>4 DEF Consistent, Counted
      <4>. HIDE DEF n
      <4>. QED
        BY <2>2, <3>1, <3>4, <4>1, <4>2, <4>3, <4>4 DEF FetchHealth
    <3>. QED
      BY <2>2, <3>1, <3>2, <3>3, <3>4 DEF FetchHealth
  <2>3. ASSUME NEW p \in Procs, RecordFailure(p) PROVE Base'
    <3>1. node[p] \in Node /\ id[p] \in Ids
      BY <2>3 DEF RecordFailure
    <3>. DEFINE n == node'[p]
    <3>2. n \in Node
      <4>1. [node[p] EXCEPT !.health = "unhealthy", !.repo = "nil"] \in Node
        BY <3>1 DEF Node, Health
      <4>. QED
        BY <2>3, <3>1, <4>1 DEF RecordFailure
    <3>3. node' = [node EXCEPT ![p] = n]
      BY <2>3 DEF RecordFailure
    <3>4. failures' \in [Ids -> Nat] /\ successes' \in [Ids -> Nat]
      BY <2>3, <3>1 DEF RecordFailure, Counted
    <3>. HIDE DEF n
    <3>. QED
      BY <2>3, <3>1, <3>2, <3>3, <3>4 DEF RecordFailure
  <2>4. ASSUME NEW p \in Procs, PersistStatus(p) PROVE Base'
    <3>1. node[p] \in Node /\ id[p] \in Ids
      BY <2>4 DEF PersistStatus
    <3>2. ASSUME rows[id[p]] # Absent PROVE StatusOf(node[p], id[p]) \in Node
      <4>1. rows[id[p]] \in Node
        BY <3>1, <3>2 DEF Table
      <4>. HIDE DEF Base
      <4>. QED
        BY <3>1, <4>1 DEF StatusOf, Node
    <3>3. rows' \in Table
      BY <2>4, <3>1, <3>2 DEF PersistStatus, Table
    <3>. QED
      BY <2>4, <3>1, <3>3 DEF PersistStatus
  <2>5. ASSUME NEW p \in Procs, NextNode(p) PROVE Base'
    BY <2>5, EmptyTable DEF NextNode, Table
  <2>6. ASSUME NEW p \in Procs, ListClusterNodes(p) PROVE Base'
    BY <2>6 DEF ListClusterNodes, NoManifest
  <2>7. ASSUME NEW p \in Procs, SetNodes(p) PROVE Base'
    BY <2>7, EmptyTable DEF SetNodes
  <2>8. ASSUME NEW p \in Procs, SyncNode(p) PROVE Base'
    <3>1. node[p] \in Node /\ id[p] \in Ids /\ manifest[p] \in Manifest
          /\ node[p].url \in Urls
      BY <2>8 DEF SyncNode, Node
    <3>2. Synchronized(node[p], manifest[p]) \in Node
      BY <3>1 DEF Synchronized, Node, Health, ConfigStatus
    <3>3. edges' \in [Urls -> Edge]
      BY <2>8, <3>1 DEF SyncNode, Edge
    <3>. QED
      BY <2>8, <3>1, <3>2, <3>3 DEF SyncNode
  <2>9. CASE CheckAll
    BY <2>9 DEF CheckAll
  <2>10. CASE CreateClusterNode
    <3>1. PICK i \in Ids \ usedIds, u \in Urls, b \in Bodies :
             LET n == OrUnknown(Described(u, "yes", b)) IN
             /\ rows' = [rows EXCEPT ![i] = n]
             /\ usedIds' = usedIds \cup {i} /\ Treat(i, n) /\ Claimed(i, n)
      BY <2>10 DEF CreateClusterNode
    <3>. DEFINE n == OrUnknown(Described(u, "yes", b))
    <3>2. n \in Node
      BY DescribedNode
    <3>3. /\ rows' = [rows EXCEPT ![i] = n]
          /\ usedIds' = usedIds \cup {i} /\ Treat(i, n) /\ Claimed(i, n)
      BY <3>1
    <3>. HIDE DEF n
    <3>4. rows' \in Table
      BY <3>2, <3>3 DEF Table
    <3>5. grounds' \subseteq
            (Ids \X (Urls \cup {None}) \X (Manifest \cup {NoManifest}))
      BY <3>2, <3>3, ClaimedType
    <3>. QED
      BY <2>10, <3>2, <3>3, <3>4, <3>5 DEF CreateClusterNode
  <2>11. CASE UpdateClusterNode
    <3>1. ASSUME NEW n \in Node, NEW u \in Urls, NEW e \in {"yes", "no"}
          PROVE [n EXCEPT !.url = u, !.enabled = e] \in Node
      BY DEF Node
    <3>2. PICK i \in Ids, u \in Urls, e \in {"yes", "no"}, b \in Bodies :
             /\ rows[i] # Absent
             /\ rows' = [rows EXCEPT ![i].url = u, ![i].enabled = e]
             /\ Treat(i, Described(u, e, b)) /\ Claimed(i, Described(u, e, b))
      BY <2>11 DEF UpdateClusterNode
    <3>3. rows' \in Table
      BY <3>1, <3>2 DEF Table
    <3>. DEFINE n == Described(u, e, b)
    <3>4. n \in Node
      BY DescribedNode
    <3>5. Treat(i, n) /\ Claimed(i, n)
      BY <3>2
    <3>. HIDE DEF n
    <3>6. grounds' \subseteq
            (Ids \X (Urls \cup {None}) \X (Manifest \cup {NoManifest}))
      BY <3>4, <3>5, ClaimedType
    <3>. QED
      BY <2>11, <3>3, <3>4, <3>5, <3>6 DEF UpdateClusterNode
  <2>12. CASE DeleteClusterNode
    BY <2>12 DEF DeleteClusterNode, Table
  <2>13. CASE SetClusterNodeEnabled
    <3>1. ASSUME NEW n \in Node, NEW e \in {"yes", "no"}
          PROVE [n EXCEPT !.enabled = e] \in Node
      BY DEF Node
    <3>2. PICK i \in Ids, e \in {"yes", "no"} :
             rows[i] # Absent /\ rows' = [rows EXCEPT ![i].enabled = e]
      BY <2>13 DEF SetClusterNodeEnabled
    <3>3. rows[i] \in Node /\ rows' = [rows EXCEPT ![i] = [rows[i] EXCEPT !.enabled = e]]
      BY <3>2 DEF Table
    <3>4. rows' \in Table
      BY <3>1, <3>3 DEF Table
    <3>. QED
      BY <2>13, <3>4 DEF SetClusterNodeEnabled
  <2>14. CASE CheckOne
    BY <2>14 DEF CheckOne, Table
  <2>15. CASE SyncOne
    BY <2>15 DEF SyncOne, Table
  <2>16. CASE SyncAll
    BY <2>16 DEF SyncAll, Table
  <2>17. CASE ResetClusterFingerprint
    BY <2>17 DEF ResetClusterFingerprint
  <2>18. CASE SetExpectedConfiguration
    BY <2>18 DEF SetExpectedConfiguration, Manifest
  <2>19. CASE EdgeChanges
    BY <2>19 DEF EdgeChanges, Edge, Manifest
  <2>20. CASE UNCHANGED vars
    BY <2>20 DEF vars
  <2>. QED
    BY <2>1, <2>2, <2>3, <2>4, <2>5, <2>6, <2>7, <2>8, <2>9, <2>10,
       <2>11, <2>12, <2>13, <2>14, <2>15, <2>16, <2>17, <2>18, <2>19,
       <2>20
    DEF Next, Step, AdminOperation
<1>. QED
  BY <1>1, <1>2, PTL DEF Spec

\* Type correctness of the Coordinator's node table, router and processes.
THEOREM TypeCorrect == Spec => []TypeOK
<1>1. Base => TypeOK
  BY DEF Base
<1>. QED
  BY <1>1, BaseCorrect, PTL

\* No row: nothing to justify.
LEMMA SoundAbsent == \A found, i : Sound(found, i, Absent)
  BY DEF Sound, Passes, Absent

\* More grounds justify no less.
LEMMA SoundGrows ==
  \A c, d, i, n : c \subseteq d /\ Sound(c, i, n) => Sound(d, i, n)
  BY DEF Sound

\* What a body claims of a node it gives grounds for.
LEMMA ClaimedSound ==
    ASSUME NEW i, NEW n, Claimed(i, n)
    PROVE  grounds \subseteq grounds' /\ Sound(grounds', i, n)
  BY DEF Claimed, Sound

\* Every copy of a row that is healthy and matching has grounds for it:
\* the rows, the routing snapshot, the lists in flight and the node treated.
THEOREM CopiesSoundHolds == Spec => []CopiesSound
<1>1. Init => CopiesSound
  BY SoundAbsent DEF Init, CopiesSound, Empty
<1>2. Base /\ CopiesSound /\ [Next]_vars => CopiesSound'
  <2>. SUFFICES ASSUME Base, CopiesSound, [Next]_vars PROVE CopiesSound'
    OBVIOUS
  <2>. USE DEF Base, TypeOK, WorkInv, CopiesSound
  <2>1. ASSUME NEW p \in Procs, FetchManifest(p) PROVE CopiesSound'
    BY <2>1 DEF FetchManifest
  <2>2. ASSUME NEW p \in Procs, FetchHealth(p) PROVE CopiesSound'
    <3>1. node[p] \in Node /\ id[p] \in Ids /\ manifest[p] \in Manifest
          /\ node[p].url \in Urls /\ id[p] # None
      BY <2>2 DEF FetchHealth, Node
    <3>2. grounds \subseteq grounds'
      BY <2>2 DEF FetchHealth, Consistent, Inconsistent
    <3>3. Sound(grounds', id[p], node'[p])
      <4>1. CASE UNCHANGED <<node, grounds>>
        BY <2>2, <3>1, <4>1
      <4>2. CASE Inconsistent(p)
        BY <3>1, <4>2 DEF Inconsistent, Sound, Passes, Node
      <4>3. CASE Consistent(p)
        BY <3>1, <4>3 DEF Consistent, Sound, Passes, Node
      <4>. QED
        BY <2>2, <4>1, <4>2, <4>3 DEF FetchHealth
    <3>4. \A q \in Procs : q # p => node'[q] = node[q]
      BY <2>2 DEF FetchHealth, Consistent, Inconsistent
    <3>. QED
      BY <2>2, <3>1, <3>2, <3>3, <3>4, SoundGrows DEF FetchHealth
  <2>3. ASSUME NEW p \in Procs, RecordFailure(p) PROVE CopiesSound'
    <3>1. node[p] \in Node /\ id[p] \in Ids /\ id[p] # None
      BY <2>3 DEF RecordFailure
    <3>2. Sound(grounds, id[p], node'[p])
      <4>1. \/ node'[p] = node[p]
            \/ node'[p] = [node[p] EXCEPT !.health = "unhealthy", !.repo = "nil"]
        BY <2>3 DEF RecordFailure
      <4>2. CASE node'[p] = node[p]
        BY <3>1, <4>2
      <4>3. CASE node'[p] = [node[p] EXCEPT !.health = "unhealthy", !.repo = "nil"]
        BY <3>1, <4>3 DEF Sound, Passes, Node
      <4>. QED
        BY <4>1, <4>2, <4>3
    <3>3. \A q \in Procs : q # p => node'[q] = node[q]
      BY <2>3 DEF RecordFailure
    <3>. QED
      BY <2>3, <3>2, <3>3 DEF RecordFailure
  <2>4. ASSUME NEW p \in Procs, PersistStatus(p) PROVE CopiesSound'
    <3>1. node[p] \in Node /\ id[p] \in Ids /\ id[p] # None
      BY <2>4 DEF PersistStatus
    <3>2. ASSUME rows[id[p]] # Absent
          PROVE Sound(grounds, id[p], StatusOf(node[p], id[p]))
      <4>1. rows[id[p]] \in Node
        BY <3>1, <3>2 DEF Table
      <4>2. Sound(grounds, id[p], node[p])
        BY <3>1
      <4>. QED
        BY <3>1, <4>1, <4>2 DEF StatusOf, Sound, Passes, Node
    <3>3. \A i \in Ids : Sound(grounds, i, rows'[i])
      BY <2>4, <3>1, <3>2 DEF PersistStatus, Table
    <3>. QED
      BY <2>4, <3>3, SoundAbsent DEF PersistStatus
  <2>5. ASSUME NEW p \in Procs, NextNode(p) PROVE CopiesSound'
    BY <2>5, SoundAbsent DEF NextNode, Table
  <2>6. ASSUME NEW p \in Procs, ListClusterNodes(p) PROVE CopiesSound'
    BY <2>6 DEF ListClusterNodes
  <2>7. ASSUME NEW p \in Procs, SetNodes(p) PROVE CopiesSound'
    BY <2>7, SoundAbsent DEF SetNodes, Empty
  <2>8. ASSUME NEW p \in Procs, SyncNode(p) PROVE CopiesSound'
    <3>1. node[p] \in Node
      BY <2>8 DEF SyncNode
    <3>2. Sound(grounds, id[p], Synchronized(node[p], manifest[p]))
      BY <3>1 DEF Synchronized, Sound, Passes, Node
    <3>. QED
      BY <2>8, <3>2, SoundAbsent DEF SyncNode
  <2>9. CASE CheckAll
    BY <2>9 DEF CheckAll
  <2>10. CASE CreateClusterNode
    <3>1. PICK i \in Ids \ usedIds, u \in Urls, b \in Bodies :
             LET n == OrUnknown(Described(u, "yes", b)) IN
             /\ rows' = [rows EXCEPT ![i] = n] /\ Treat(i, n) /\ Claimed(i, n)
      BY <2>10 DEF CreateClusterNode
    <3>. DEFINE n == OrUnknown(Described(u, "yes", b))
    <3>2. rows' = [rows EXCEPT ![i] = n] /\ Treat(i, n) /\ Claimed(i, n)
      BY <3>1
    <3>. HIDE DEF n
    <3>3. grounds \subseteq grounds' /\ Sound(grounds', i, n)
      BY <3>2, ClaimedSound
    <3>4. \A j \in Ids : Sound(grounds', j, rows'[j])
      BY <3>2, <3>3, SoundGrows DEF Table
    <3>5. \A q \in Procs : id'[q] # None => Sound(grounds', id'[q], node'[q])
      BY <3>2, <3>3, SoundGrows
    <3>6. UNCHANGED <<router, todo, list>>
      BY <2>10 DEF CreateClusterNode
    <3>. QED
      BY <3>3, <3>4, <3>5, <3>6, SoundGrows
  <2>11. CASE UpdateClusterNode
    <3>1. ASSUME NEW i, NEW n \in Node, NEW u, NEW e, Sound(grounds, i, n)
          PROVE Sound(grounds, i, [n EXCEPT !.url = u, !.enabled = e])
      BY <3>1 DEF Sound, Passes, Node
    <3>2. PICK i \in Ids, u \in Urls, e \in {"yes", "no"}, b \in Bodies :
             /\ rows[i] # Absent
             /\ rows' = [rows EXCEPT ![i].url = u, ![i].enabled = e]
             /\ Treat(i, Described(u, e, b)) /\ Claimed(i, Described(u, e, b))
      BY <2>11 DEF UpdateClusterNode
    <3>3. rows[i] \in Node /\ rows'[i] = [rows[i] EXCEPT !.url = u, !.enabled = e]
          /\ \A j \in Ids : j # i => rows'[j] = rows[j]
      BY <3>2 DEF Table
    <3>. DEFINE n == Described(u, e, b)
    <3>4. Treat(i, n) /\ Claimed(i, n)
      BY <3>2
    <3>. HIDE DEF n
    <3>5. grounds \subseteq grounds' /\ Sound(grounds', i, n)
      BY <3>4, ClaimedSound
    <3>6. \A j \in Ids : Sound(grounds, j, rows'[j])
      <4>1. Sound(grounds, i, rows[i])
        OBVIOUS
      <4>2. Sound(grounds, i, [rows[i] EXCEPT !.url = u, !.enabled = e])
        BY <3>1, <3>3, <4>1, Zenon
      <4>3. Sound(grounds, i, rows'[i])
        BY <3>3, <4>2, Zenon
      <4>. QED
        BY <3>3, <4>3
    <3>7. \A q \in Procs : id'[q] # None => Sound(grounds', id'[q], node'[q])
      BY <3>4, <3>5, SoundGrows
    <3>8. UNCHANGED <<router, todo, list>>
      BY <2>11 DEF UpdateClusterNode
    <3>. QED
      BY <3>5, <3>6, <3>7, <3>8, SoundGrows
  <2>12. CASE DeleteClusterNode
    BY <2>12, SoundAbsent DEF DeleteClusterNode, Table
  <2>13. CASE SetClusterNodeEnabled
    <3>1. ASSUME NEW i, NEW n \in Node, NEW e, Sound(grounds, i, n)
          PROVE Sound(grounds, i, [n EXCEPT !.enabled = e])
      BY <3>1 DEF Sound, Passes, Node
    <3>2. PICK i \in Ids, e \in {"yes", "no"} :
             rows[i] # Absent /\ rows' = [rows EXCEPT ![i].enabled = e]
      BY <2>13 DEF SetClusterNodeEnabled
    <3>3. rows[i] \in Node /\ rows' = [rows EXCEPT ![i] = [rows[i] EXCEPT !.enabled = e]]
      BY <3>2 DEF Table
    <3>4. Sound(grounds, i, [rows[i] EXCEPT !.enabled = e])
      BY <3>1, <3>3
    <3>5. \A j \in Ids : Sound(grounds, j, rows'[j])
      BY <3>3, <3>4 DEF Table
    <3>. QED
      BY <2>13, <3>5 DEF SetClusterNodeEnabled
  <2>14. CASE CheckOne
    BY <2>14 DEF CheckOne
  <2>15. CASE SyncOne
    BY <2>15 DEF SyncOne
  <2>16. CASE SyncAll
    BY <2>16, SoundAbsent DEF SyncAll, Table
  <2>17. CASE ResetClusterFingerprint
    BY <2>17 DEF ResetClusterFingerprint
  <2>18. CASE SetExpectedConfiguration
    BY <2>18 DEF SetExpectedConfiguration
  <2>19. CASE EdgeChanges
    BY <2>19 DEF EdgeChanges
  <2>20. CASE UNCHANGED vars
    BY <2>20 DEF vars
  <2>. QED
    BY <2>1, <2>2, <2>3, <2>4, <2>5, <2>6, <2>7, <2>8, <2>9, <2>10,
       <2>11, <2>12, <2>13, <2>14, <2>15, <2>16, <2>17, <2>18, <2>19,
       <2>20
    DEF Next, Step, AdminOperation
<1>. QED
  BY <1>1, <1>2, BaseCorrect, PTL DEF Spec

\* A node the router may choose was confirmed by a probe that found exactly
\* the manifest it is routed for, or a request body claimed that of it.
THEOREM RoutableHasGroundsHolds == Spec => []RoutableHasGrounds
<1>1. CopiesSound => RoutableHasGrounds
  BY DEF CopiesSound, Sound, Passes, RoutableHasGrounds, Routable
<1>. QED
  BY <1>1, CopiesSoundHolds, PTL
=============================================================================
