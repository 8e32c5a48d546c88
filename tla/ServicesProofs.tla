--------------------------- MODULE ServicesProofs ----------------------------
(***************************************************************************)
(* The background services, each on its own: the webhook dispatcher keeps  *)
(* its types and implements AlertFeed, a due reopen of the logs is not     *)
(* forgotten, no request is counted twice, what was purged stays purged,   *)
(* and settings survive a restart with their credentials in place.  For    *)
(* every set of alerts, log files, flushers, cells, nodes, objects and     *)
(* documents, and for every capacity and bound.                            *)
(***************************************************************************)
EXTENDS Settings, CacheGenerations, Webhook, Statistics, LogRotation, SequenceTheorems,
        WellFoundedInduction, TLAPS

(* An idle or exited worker holds no alert, and Stop returns only after    *)
(* the worker has left: without these two the mapped feed could receive    *)
(* after it was closed, and an alert could vanish from its front.          *)
WorkerInv ==
  /\ worker.pc # "sending" => worker.alert = <<>>
  /\ stopper = "returned" => worker.pc = "exited"

-----------------------------------------------------------------------------
(* Appending behind the queue appends to the feed. *)
LEMMA AppendBehind ==
  ASSUME NEW S, NEW s \in {<<>>} \cup {<<x>> : x \in S}, NEW q \in Seq(S), NEW a \in S
  PROVE  s \o Append(q, a) = Append(s \o q, a)
<1>1. CASE s = <<>>
  BY <1>1
<1>2. CASE s \in {<<x>> : x \in S}
  <2>1. PICK x \in S : s = <<x>>
    BY <1>2
  <2>2. s \in Seq(S) /\ Append(q, a) \in Seq(S)
    BY <2>1
  <2>. QED
    BY <2>1, <2>2
<1>. QED
  BY <1>1, <1>2

(* The front of the queue and its rest make up the queue. *)
LEMMA TakeFront ==
  ASSUME NEW S, NEW q \in Seq(S), q # <<>>
  PROVE  /\ Head(q) \in S /\ Tail(q) \in Seq(S) /\ Len(Tail(q)) = Len(q) - 1
         /\ <<Head(q)>> \o Tail(q) = q
<1>1. Head(q) \in S /\ Tail(q) \in Seq(S) /\ Len(q) > 0 /\ Len(Tail(q)) = Len(q) - 1
  BY EmptySeq, HeadTailProperties
<1>. QED
  BY <1>1

(* The first element of a feed with an alert in hand. *)
LEMMA FrontOf ==
  ASSUME NEW S, NEW q \in Seq(S), NEW a \in S
  PROVE  /\ <<a>> \o q # <<>> /\ <<>> \o q = q
         /\ Head(<<a>> \o q) = a /\ Tail(<<a>> \o q) = q
  OBVIOUS

-----------------------------------------------------------------------------
(* Every variable keeps its type, the queue its capacity. *)
THEOREM WebhookTypeCorrect == WebhookSpec => []WebhookTypeOK
<1>1. WebhookInit => WebhookTypeOK
  <2> SUFFICES ASSUME WebhookInit PROVE WebhookTypeOK
    OBVIOUS
  <2>1. queue \in Seq(Alerts) /\ Len(queue) <= QueueSize /\ received \in Seq(Alerts)
    BY WebhookAssumption DEF WebhookInit
  <2>2. worker \in [pc : {"idle", "sending", "exited"},
                    alert : {<<>>} \cup {<<a>> : a \in Alerts}]
    BY DEF WebhookInit, IdleWorker
  <2>. QED
    BY <2>1, <2>2 DEF WebhookInit, WebhookTypeOK
<1>2. WebhookTypeOK /\ [WebhookNext]_webhookVars => WebhookTypeOK'
  <2> SUFFICES ASSUME WebhookTypeOK, [WebhookNext]_webhookVars PROVE WebhookTypeOK'
    OBVIOUS
  <2> USE WebhookAssumption DEF WebhookTypeOK, IdleWorker
  <2>1. ASSUME NEW a \in Alerts, DispatchChecks(a) PROVE WebhookTypeOK'
    BY <2>1 DEF DispatchChecks
  <2>2. ASSUME NEW a \in Alerts, DispatchQueues(a) PROVE WebhookTypeOK'
    BY <2>2 DEF DispatchQueues
  <2>3. ASSUME NEW a \in Alerts, DispatchDrops(a) PROVE WebhookTypeOK'
    BY <2>3 DEF DispatchDrops
  <2>4. CASE WorkerTakes
    BY <2>4, TakeFront DEF WorkerTakes
  <2>5. CASE PostArrives
    <3>1. PICK a \in Alerts : worker.alert = <<a>>
      BY <2>5 DEF PostArrives
    <3>2. worker' \in [pc : {"idle", "sending", "exited"},
                       alert : {<<>>} \cup {<<b>> : b \in Alerts}]
      BY <2>5 DEF PostArrives
    <3>3. received' \in Seq(Alerts)
      <4>1. received' = Append(received, a)
        BY <2>5, <3>1 DEF PostArrives
      <4>. QED
        BY <4>1, AppendProperties
    <3>. HIDE DEF WebhookTypeOK
    <3>4. UNCHANGED <<caller, queue, stopped, stopChan, stopper>>
      BY <2>5 DEF PostArrives
    <3>. QED
      BY <3>2, <3>3, <3>4 DEF WebhookTypeOK
  <2>6. CASE PostEnds
    BY <2>6 DEF PostEnds
  <2>7. CASE WorkerExits
    BY <2>7 DEF WorkerExits
  <2>8. CASE StopSets \/ StopCloses \/ StopReturns
    BY <2>8 DEF StopSets, StopCloses, StopReturns
  <2>9. CASE UNCHANGED webhookVars
    BY <2>9 DEF webhookVars
  <2>. QED
    BY <2>1, <2>2, <2>3, <2>4, <2>5, <2>6, <2>7, <2>8, <2>9 DEF WebhookNext
<1>. QED
  BY <1>1, <1>2, PTL DEF WebhookSpec

(* Worker and Stop keep WorkerInv. *)
LEMMA WorkerCorrect == WebhookSpec => []WorkerInv
<1>1. WebhookInit => WorkerInv
  BY DEF WebhookInit, WorkerInv, IdleWorker
<1>2. WebhookTypeOK /\ WorkerInv /\ [WebhookNext]_webhookVars => WorkerInv'
  BY DEF WebhookTypeOK, WorkerInv, WebhookNext, webhookVars, IdleWorker, DispatchChecks,
         DispatchQueues, DispatchDrops, WorkerTakes, PostArrives, PostEnds, WorkerExits,
         StopSets, StopCloses, StopReturns
<1>. QED
  BY <1>1, <1>2, WebhookTypeCorrect, PTL DEF WebhookSpec

-----------------------------------------------------------------------------
(* The dispatcher implements AlertFeed: what a caller queues is accepted,  *)
(* an arriving POST is received, a POST that ends without having arrived   *)
(* is discarded, the return of Stop closes the feed; all other steps leave *)
(* it alone.                                                               *)
THEOREM ImplementsAlertFeedHolds == WebhookSpec => ImplementsAlertFeed
<1>1. WebhookInit => Feed!FeedInit
  BY DEF WebhookInit, IdleWorker, Feed!FeedInit
<1>2. WebhookTypeOK /\ WorkerInv /\ [WebhookNext]_webhookVars
        => [Feed!FeedNext]_Feed!feedVars
  <2> SUFFICES ASSUME WebhookTypeOK, WorkerInv, [WebhookNext]_webhookVars
               PROVE  Feed!FeedNext \/ UNCHANGED Feed!feedVars
    BY DEF Feed!feedVars
  <2>1. ASSUME NEW a \in Alerts, DispatchChecks(a) \/ DispatchDrops(a)
        PROVE  UNCHANGED Feed!feedVars
    BY <2>1 DEF DispatchChecks, DispatchDrops, Feed!feedVars
  <2>2. ASSUME NEW a \in Alerts, DispatchQueues(a) PROVE Feed!Accept(a)
    BY <2>2, AppendBehind DEF DispatchQueues, WebhookTypeOK, Feed!Accept
  <2>3. CASE WorkerTakes
    <3>1. worker.alert = <<>> /\ worker'.alert \o queue' = queue
      BY <2>3, TakeFront DEF WorkerTakes, WebhookTypeOK, WorkerInv
    <3>2. worker.alert \o queue = queue
      BY <3>1 DEF WebhookTypeOK
    <3>. QED
      BY <2>3, <3>1, <3>2 DEF WorkerTakes, Feed!feedVars
  <2>4. CASE PostArrives
    <3>1. PICK a \in Alerts : worker.alert = <<a>>
      BY <2>4 DEF PostArrives, WebhookTypeOK
    <3>2. /\ worker.alert \o queue # <<>> /\ Head(worker.alert \o queue) = a
          /\ Tail(worker.alert \o queue) = queue /\ <<>> \o queue = queue
      BY <3>1, FrontOf DEF WebhookTypeOK
    <3>3. worker'.alert = <<>> /\ queue' = queue /\ received' = Append(received, a)
      BY <2>4, <3>1 DEF PostArrives, WebhookTypeOK
    <3>4. stopper # "returned" /\ stopper' = stopper
      BY <2>4 DEF PostArrives, WorkerInv
    <3>. QED
      BY <3>2, <3>3, <3>4 DEF Feed!FeedNext, Feed!Receive
  <2>5. CASE PostEnds
    <3>1. worker'.alert = <<>> /\ queue' = queue /\ received' = received /\ stopper' = stopper
      BY <2>5 DEF PostEnds, IdleWorker
    <3>2. CASE worker.alert = <<>>
      BY <3>1, <3>2 DEF Feed!feedVars
    <3>3. CASE worker.alert # <<>>
      <4>1. PICK a \in Alerts : worker.alert = <<a>>
        BY <3>3 DEF WebhookTypeOK
      <4>2. worker.alert \o queue # <<>> /\ Tail(worker.alert \o queue) = queue
              /\ <<>> \o queue = queue
        BY <4>1, FrontOf DEF WebhookTypeOK
      <4>. QED
        BY <3>1, <4>2 DEF Feed!FeedNext, Feed!Discard
    <3>. QED
      BY <3>2, <3>3
  <2>6. CASE WorkerExits
    BY <2>6 DEF WorkerExits, WebhookTypeOK, Feed!feedVars
  <2>7. CASE StopSets \/ StopCloses
    BY <2>7 DEF StopSets, StopCloses, Feed!feedVars
  <2>8. CASE StopReturns
    BY <2>8 DEF StopReturns, Feed!FeedNext, Feed!Close
  <2>9. CASE UNCHANGED webhookVars
    BY <2>9 DEF webhookVars, Feed!feedVars
  <2>. QED
    BY <2>1, <2>2, <2>3, <2>4, <2>5, <2>6, <2>7, <2>8, <2>9 DEF WebhookNext, Feed!FeedNext
<1>. QED
  BY <1>1, <1>2, WebhookTypeCorrect, WorkerCorrect, PTL
     DEF WebhookSpec, ImplementsAlertFeed, Feed!FeedSpec

-----------------------------------------------------------------------------
(* Log rotation. *)
(* A log Nginx writes to under a rotated name was renamed by the run in    *)
(* progress, which still has to note it, or a reopen is pending.           *)
RotationInv ==
  /\ pc \in Files \cup {"idle", "clean", "reopen"}
  /\ ~errors /\ renamed # {} =>
       pendingReopen \/ (rotated /\ pc \in {"error", "clean"})

(* A reopen that is due is not forgotten between two runs as long as no    *)
(* step of a rotation fails.                                               *)
THEOREM ReopenPendingHolds == RotationSpec => []ReopenPending
<1>1. RotationInit => RotationInv
  BY DEF RotationInit, RotationInv
<1>2. RotationInv /\ [RotationNext]_rotationVars => RotationInv'
  BY DEF RotationInv, RotationNext, RotationStep, rotationVars, Files, Visiting, Following,
         RotationTick, SkipLog, RenameLog, RotationFails, RemoveOld, ReopenFails, Reopen,
         OpensLogs, BecomesDue, NginxStops, NginxOpens
<1>3. RotationInv => ReopenPending
  BY DEF RotationInv, ReopenPending, Files
<1>. QED
  BY <1>1, <1>2, <1>3, PTL DEF RotationSpec

-----------------------------------------------------------------------------
(* Statistics. *)
(* Memory, table and the records a flush has read but not saved never      *)
(* exceed the requests there were: records in hand go to the table, the    *)
(* table to memory at a start, memory to the records of the next flush.    *)
Counts == [Cells -> Nat]
NotAbove(counts) == \A c \in Cells : counts[c] <= true[c]
CountsInv ==
  /\ hour \in Hours
  /\ hourlyByID \in Counts /\ table \in Counts /\ true \in Counts
  /\ flushing \in [Flushers -> SUBSET Counts]
  /\ NotAbove(hourlyByID) /\ NotAbove(table)
  /\ \A f \in Flushers : \A counts \in flushing[f] : NotAbove(counts)

(* Dropping the expired hours keeps counts and only lowers them. *)
LEMMA KeptLowers ==
  ASSUME NEW counts \in Counts
  PROVE  Kept(counts) \in Counts /\ \A c \in Cells : Kept(counts)[c] <= counts[c]
  BY DEF Counts, Kept

(* No request is counted twice, whatever flushes overlap or are repeated   *)
(* and wherever the process crashes and starts again.                      *)
THEOREM CountedOnceHolds == StatisticsSpec => []CountedOnce
<1>1. StatisticsInit => CountsInv
  BY StatisticsAssumption
     DEF StatisticsInit, CountsInv, Counts, NotAbove, NoCounts, Hours
<1>2. CountsInv /\ [StatisticsNext]_statsVars => CountsInv'
  <2> SUFFICES ASSUME CountsInv, [StatisticsNext]_statsVars PROVE CountsInv'
    OBVIOUS
  <2> USE DEF CountsInv
  <2>1. ASSUME NEW m \in Mirrors, Record(m) PROVE CountsInv'
    <3> DEFINE cell == <<hour, m>>
               more == [hourlyByID EXCEPT ![cell] = @ + 1]
    <3>1. cell \in Cells
      BY DEF Cells
    <3>2. more \in Counts /\ true' \in Counts /\ hourlyByID' = Kept(more)
      BY <2>1, <3>1 DEF Record, Counts
    <3>3. \A c \in Cells : true[c] <= true'[c] /\ more[c] <= true'[c]
      BY <2>1, <3>1 DEF Record, Counts, NotAbove
    <3>4. hourlyByID' \in Counts /\ \A c \in Cells : hourlyByID'[c] <= true'[c]
      <4> HIDE DEF more
      <4> QED BY <3>2, <3>3, KeptLowers DEF Counts
    <3>5. UNCHANGED <<hour, table, flushing>>
      BY <2>1 DEF Record
    <3>6. ASSUME NEW counts \in Counts, NotAbove(counts)
          PROVE  \A c \in Cells : counts[c] <= true'[c]
      BY <3>2, <3>3, <3>6 DEF NotAbove, Counts
    <3>. QED
      BY <3>2, <3>4, <3>5, <3>6 DEF NotAbove
  <2>2. ASSUME NEW f \in Flushers, FlushReads(f) PROVE CountsInv'
    BY <2>2 DEF FlushReads, NotAbove
  <2>3. ASSUME NEW f \in Flushers, FlushSaves(f) PROVE CountsInv'
    <3>1. table' \in Counts /\ \A c \in Cells : table'[c] <= true[c]
      <4>1. ASSUME NEW counts \in flushing[f], SaveStatsHourly(counts)
            PROVE  table' \in Counts /\ \A c \in Cells : table'[c] <= true[c]
        <5> DEFINE merged == [c \in Cells |-> IF counts[c] = 0 THEN table[c] ELSE counts[c]]
        <5>1. merged \in Counts /\ \A c \in Cells : merged[c] <= true[c]
          BY DEF Counts, NotAbove
        <5>2. table' = Kept(merged)
          BY <4>1 DEF SaveStatsHourly
        <5> HIDE DEF merged
        <5>. QED
          BY <5>1, <5>2, KeptLowers DEF Counts
      <4>. QED
        BY <2>3, <4>1 DEF FlushSaves, NotAbove
    <3>. QED
      BY <2>3, <3>1 DEF FlushSaves, NotAbove
  <2>4. CASE Cancel \/ Exit
    BY <2>4 DEF Cancel, Exit, NotAbove
  <2>5. CASE LoadStats
    BY <2>5, KeptLowers DEF LoadStats, NotAbove, Counts
  <2>6. CASE Tick
    BY <2>6, StatisticsAssumption DEF Tick, Hours, NotAbove
  <2>7. CASE UNCHANGED statsVars
    BY <2>7 DEF statsVars, NotAbove
  <2>. QED
    BY <2>1, <2>2, <2>3, <2>4, <2>5, <2>6, <2>7 DEF StatisticsNext
<1>3. CountsInv => CountedOnce
  BY DEF CountsInv, NotAbove, CountedOnce
<1>. QED
  BY <1>1, <1>2, <1>3, PTL DEF StatisticsSpec

-----------------------------------------------------------------------------
(* Cache generations. *)
CacheKey == Nat \X Nat \X Nat \X Objects

(* A key whose generations are not ahead of the ones of a manager; one the *)
(* manager can no longer compute; one a purge of scope s has to outdate.   *)
Reached(k, m) == k[1] <= m[Global] /\ k[2] <= m[Repository] /\ k[3] <= m[Object(k[4])]
Outdated(k, m) == k[1] < m[Global] \/ k[2] < m[Repository] \/ k[3] < m[Object(k[4])]
Passed(k, s, m) ==
  /\ s = Global => k[1] < m[Global]
  /\ s = Repository => k[2] < m[Repository]
  /\ s = Object(k[4]) => k[3] < m[Object(k[4])]

(* Memory never runs ahead of the table and keys never ahead of memory.    *)
(* Of the keys a purge found in use, the ones it covers are passed by the  *)
(* table once it has committed and by memory once it has published.        *)
Purging(n) ==
  /\ \A k \in work[n].keys : Reached(k, manager[n])
  /\ work[n].pc = "publish" => \A k \in work[n].keys : Passed(k, work[n].scope, generation[n])
  /\ work[n].pc \in {"broadcast", "ack"} =>
       \A k \in work[n].keys : Passed(k, work[n].scope, manager[n])
NodeInv(n) ==
  /\ \A s \in Scopes : manager[n][s] <= generation[n][s]
  /\ \A k \in used[n] : Reached(k, manager[n])
  /\ \A k \in promised[n] : Outdated(k, manager[n])
  /\ Purging(n)
CacheInv ==
  /\ CacheTypeOK
  /\ used \in [Nodes -> SUBSET CacheKey] /\ promised \in [Nodes -> SUBSET CacheKey]
  /\ \A n \in Nodes : NodeInv(n)

(* The names of scopes are scopes. *)
LEMMA ScopeTypes ==
  /\ Global \in Scopes /\ Repository \in Scopes
  /\ \A o \in Objects : Object(o) \in Scopes
  BY DEF Scopes

(* Raising generations outdates keys for good. *)
LEMMA Raised ==
  ASSUME NEW k \in CacheKey, NEW m \in [Scopes -> Nat], NEW m2 \in [Scopes -> Nat],
         \A s \in Scopes : m[s] <= m2[s]
  PROVE  /\ Reached(k, m) => Reached(k, m2)
         /\ Outdated(k, m) => Outdated(k, m2)
         /\ \A s \in Scopes : Passed(k, s, m) => Passed(k, s, m2)
<1>1. k[1] \in Nat /\ k[2] \in Nat /\ k[3] \in Nat /\ Object(k[4]) \in Scopes
  BY ScopeTypes DEF CacheKey
<1>2. /\ m[Global] \in Nat /\ m[Repository] \in Nat /\ m[Object(k[4])] \in Nat
      /\ m2[Global] \in Nat /\ m2[Repository] \in Nat /\ m2[Object(k[4])] \in Nat
      /\ m[Global] <= m2[Global] /\ m[Repository] <= m2[Repository]
      /\ m[Object(k[4])] <= m2[Object(k[4])]
  BY <1>1, ScopeTypes
<1>. QED
  BY <1>1, <1>2 DEF Reached, Outdated, Passed

(* A covered key that a purge has passed is outdated. *)
LEMMA PassedOutdates ==
  ASSUME NEW k \in CacheKey, NEW m \in [Scopes -> Nat], NEW s \in Scopes,
         Covers(s, k[4]), Passed(k, s, m)
  PROVE  Outdated(k, m)
  BY DEF Covers, Passed, Outdated

(* The generation a purge raises passes every key that is not ahead. *)
LEMMA RaisePasses ==
  ASSUME NEW k \in CacheKey, NEW m \in [Scopes -> Nat], NEW g \in [Scopes -> Nat],
         NEW s \in Scopes, Reached(k, m), \A t \in Scopes : m[t] <= g[t]
  PROVE  Passed(k, s, [g EXCEPT ![s] = @ + 1])
<1>1. k[1] \in Nat /\ k[2] \in Nat /\ k[3] \in Nat /\ Object(k[4]) \in Scopes
  BY ScopeTypes DEF CacheKey
<1>2. Reached(k, g)
  BY Raised
<1>3. [g EXCEPT ![s] = @ + 1][s] = g[s] + 1 /\ g[s] \in Nat
  OBVIOUS
<1>. QED
  BY <1>1, <1>2, <1>3 DEF Reached, Passed

(* What holds of a node whose memory, table and work a step leaves alone.  *)
Quiet(n) == /\ generation'[n] = generation[n] /\ manager'[n] = manager[n]
            /\ used'[n] = used[n] /\ promised'[n] = promised[n]
(* A node at rest that only drops its work keeps its invariant.            *)
LEMMA QuietKeeps ==
  ASSUME NEW n \in Nodes, NodeInv(n), Quiet(n),
         work'[n] = work[n] \/ work'[n] = NoWork
  PROVE  NodeInv(n)'
  BY DEF NodeInv, Quiet, Purging, NoWork

(* The keys of a manager are its own: reached and not outdated. *)
KeyIn(m, o) == <<m[Global], m[Repository], m[Object(o)], o>>
(* A key has the generations of the map it was built from.                 *)
LEMMA KeysOf ==
  ASSUME NEW m \in [Scopes -> Nat], NEW o \in Objects
  PROVE  KeyIn(m, o) \in CacheKey /\ Reached(KeyIn(m, o), m) /\ ~Outdated(KeyIn(m, o), m)
<1>1. m[Global] \in Nat /\ m[Repository] \in Nat /\ m[Object(o)] \in Nat
  BY ScopeTypes
<1>2. /\ KeyIn(m, o)[1] = m[Global] /\ KeyIn(m, o)[2] = m[Repository]
      /\ KeyIn(m, o)[3] = m[Object(o)] /\ KeyIn(m, o)[4] = o
  BY DEF KeyIn
<1>. QED
  BY <1>1, <1>2 DEF KeyIn, CacheKey, Reached, Outdated

(* What memory may become and still have all keys behind it. *)
LEMMA MemoryRaised ==
  ASSUME NEW n \in Nodes, NodeInv(n), NEW m \in [Scopes -> Nat], manager[n] \in [Scopes -> Nat],
         \A s \in Scopes : manager[n][s] <= m[s],
         used[n] \subseteq CacheKey, promised[n] \subseteq CacheKey,
         work[n].keys \subseteq CacheKey
  PROVE  /\ \A k \in used[n] \cup {KeyIn(m, o) : o \in Objects} : k \in CacheKey /\ Reached(k, m)
         /\ \A k \in promised[n] : Outdated(k, m)
         /\ \A k \in work[n].keys : Reached(k, m)
<1>1. \A k \in used[n] : Reached(k, m)
  BY Raised DEF NodeInv
<1>2. \A k \in promised[n] : Outdated(k, m)
  BY Raised DEF NodeInv
<1>3. \A k \in work[n].keys : Reached(k, m)
  BY Raised DEF NodeInv, Purging
<1>. QED
  BY <1>1, <1>2, <1>3, KeysOf

(* The first state satisfies the invariant. *)
LEMMA CacheStarts ==
  CacheInit => CacheInv
<1> SUFFICES ASSUME CacheInit PROVE CacheInv
  OBVIOUS
<1> USE DEF CacheInit
<1>1. CacheTypeOK
  BY CacheAssumption, ScopeTypes DEF CacheTypeOK, NoWork, NoBroadcast
<1>2. manager \in [Nodes -> [Scopes -> Nat]]
  OBVIOUS
<1>3. used = [n \in Nodes |-> {KeyIn(manager[n], o) : o \in Objects}]
  BY DEF Key, KeyIn
<1>4. ASSUME NEW n \in Nodes
      PROVE  \A k \in used[n] : k \in CacheKey /\ Reached(k, manager[n])
  <2>1. manager[n] \in [Scopes -> Nat]
    OBVIOUS
  <2> HIDE DEF CacheInit
  <2>. QED
    BY <1>3, <2>1, KeysOf
<1>5. used \in [Nodes -> SUBSET CacheKey] /\ promised \in [Nodes -> SUBSET CacheKey]
  BY <1>3, <1>4
<1>6. ASSUME NEW n \in Nodes PROVE NodeInv(n)
  BY <1>4 DEF NodeInv, Purging, NoWork
<1>. QED
  BY <1>1, <1>5, <1>6 DEF CacheInv

WorkType == [pc: {"idle", "commit", "publish", "broadcast", "ack"}, scope: Scopes,
             keys: SUBSET CacheKey]

(* Every step keeps the invariant: one node moves, the others are quiet. *)
LEMMA CacheKeeps == CacheInv /\ [CacheNext]_cacheVars => CacheInv'
<1> SUFFICES ASSUME CacheInv, [CacheNext]_cacheVars PROVE CacheInv'
  OBVIOUS
<1>0. /\ generation \in [Nodes -> [Scopes -> Nat \ {0}]]
      /\ manager \in [Nodes -> [Scopes -> Nat \ {0}]]
      /\ work \in [Nodes -> WorkType] /\ Coordinator \in Nodes /\ Edges \subseteq Nodes
      /\ used \in [Nodes -> SUBSET CacheKey] /\ promised \in [Nodes -> SUBSET CacheKey]
      /\ NoWork \in WorkType
      /\ \A n \in Nodes : NodeInv(n)
  BY ScopeTypes DEF CacheInv, CacheTypeOK, Nodes, WorkType, CacheKey, NoWork
<1>a. /\ loaded \in [Nodes -> BOOLEAN] /\ requests \in 0..MaxPurges
      /\ accepted \subseteq Edges /\ broadcast \in [Edges -> {"todo", "sent", "done"}]
  BY DEF CacheInv, CacheTypeOK
<1>b. ASSUME generation' \in [Nodes -> [Scopes -> Nat \ {0}]],
             manager' \in [Nodes -> [Scopes -> Nat \ {0}]],
             work' \in [Nodes -> WorkType],
             used' \in [Nodes -> SUBSET CacheKey], promised' \in [Nodes -> SUBSET CacheKey],
             loaded' \in [Nodes -> BOOLEAN], requests' \in 0..MaxPurges,
             accepted' \subseteq Edges, broadcast' \in [Edges -> {"todo", "sent", "done"}],
             \A n \in Nodes : NodeInv(n)'
      PROVE  CacheInv'
  BY <1>b DEF CacheInv, CacheTypeOK, WorkType, CacheKey
<1>1. CASE PurgeRequest
  <2>1. PICK s \in Scopes :
          work' = [work EXCEPT ![Coordinator] =
                    [pc |-> "commit", scope |-> s, keys |-> used[Coordinator]]]
    BY <1>1 DEF PurgeRequest
  <2>2. work' \in [Nodes -> WorkType]
    BY <1>0, <2>1 DEF WorkType
  <2>3. \A n \in Nodes : Quiet(n)
    BY <1>1 DEF PurgeRequest, Quiet
  <2>4. NodeInv(Coordinator)'
    BY <1>0, <2>1, <2>3 DEF NodeInv, Purging, Quiet
  <2>5. ASSUME NEW n \in Nodes, n # Coordinator PROVE NodeInv(n)'
    BY <1>0, <2>1, <2>3, <2>5, QuietKeeps
  <2>. QED
    BY <1>0, <1>1, <1>a, <1>b, <2>2, <2>4, <2>5, CacheAssumption DEF PurgeRequest
<1>2. CASE Respond
  <2>1. /\ promised' = [promised EXCEPT ![Coordinator] =
                          @ \cup CoveredKeys(Coordinator, work[Coordinator].scope)]
        /\ work' = [work EXCEPT ![Coordinator] = NoWork]
        /\ work[Coordinator].pc = "broadcast"
        /\ UNCHANGED <<generation, manager, used>>
    BY <1>2 DEF Respond, Promise
  <2>2. \A k \in CoveredKeys(Coordinator, work[Coordinator].scope) :
          k \in CacheKey /\ Outdated(k, manager[Coordinator])
    BY <1>0, <2>1, PassedOutdates DEF CoveredKeys, NodeInv, Purging, WorkType
  <2>3. NodeInv(Coordinator)'
    BY <1>0, <2>1, <2>2 DEF NodeInv, Purging, NoWork
  <2>4. ASSUME NEW n \in Nodes, n # Coordinator PROVE NodeInv(n)'
    BY <1>0, <2>1, <2>4, QuietKeeps DEF Quiet
  <2>5. promised' \in [Nodes -> SUBSET CacheKey] /\ work' \in [Nodes -> WorkType]
    BY <1>0, <2>1, <2>2
  <2>. QED
    BY <1>0, <1>2, <1>a, <1>b, <2>3, <2>4, <2>5 DEF Respond
<1>3. ASSUME NEW n \in Nodes, Committed(n) PROVE CacheInv'
  <2>1. CASE work' = [work EXCEPT ![n] = NoWork] /\ UNCHANGED generation
    <3>1. \A m \in Nodes : Quiet(m) /\ (work'[m] = work[m] \/ work'[m] = NoWork)
      BY <1>0, <1>3, <2>1 DEF Committed, Quiet
    <3>2. work' \in [Nodes -> WorkType]
      BY <1>0, <2>1
    <3>3. \A m \in Nodes : NodeInv(m)'
      BY <1>0, <3>1, QuietKeeps
    <3>. QED
      BY <1>0, <1>3, <1>a, <1>b, <2>1, <3>2, <3>3 DEF Committed
  <2>2. CASE PurgeCache(n, work[n].scope) /\ work' = [work EXCEPT ![n].pc = "publish"]
    <3> DEFINE s == work[n].scope
    <3>1. s \in Scopes /\ work[n] \in WorkType /\ work[n].keys \subseteq CacheKey
      BY <1>0 DEF WorkType
    <3>2. /\ generation' = [generation EXCEPT ![n] = [generation[n] EXCEPT ![s] = @ + 1]]
          /\ UNCHANGED <<manager, used, promised>>
      BY <1>0, <1>3, <2>2, <3>1 DEF PurgeCache, Committed
    <3>3. /\ work'[n].pc = "publish" /\ work'[n].keys = work[n].keys /\ work'[n].scope = s
          /\ work' \in [Nodes -> WorkType]
      BY <1>0, <2>2, <3>1 DEF WorkType
    <3>4. generation' \in [Nodes -> [Scopes -> Nat \ {0}]]
      BY <1>0, <3>1, <3>2
    <3>5. \A t \in Scopes : generation[n][t] <= generation'[n][t]
      BY <1>0, <3>1, <3>2
    <3>6. \A t \in Scopes : manager'[n][t] <= generation'[n][t]
      BY <1>0, <3>2, <3>4, <3>5 DEF NodeInv
    <3>7. \A k \in work[n].keys : Passed(k, s, generation'[n])
      <4>1. \A k \in work[n].keys : Passed(k, s, [generation[n] EXCEPT ![s] = @ + 1])
        <5>1. /\ \A k \in work[n].keys : k \in CacheKey /\ Reached(k, manager[n])
              /\ \A t \in Scopes : manager[n][t] <= generation[n][t]
              /\ manager[n] \in [Scopes -> Nat] /\ generation[n] \in [Scopes -> Nat]
          BY <1>0, <3>1 DEF NodeInv, Purging
        <5> HIDE DEF s
        <5>. QED
          BY <3>1, <5>1, RaisePasses
      <4>. QED
        BY <1>0, <3>2, <4>1
    <3>8. NodeInv(n)'
      <4> HIDE DEF s
      <4>. QED
        BY <1>0, <3>2, <3>3, <3>6, <3>7 DEF NodeInv, Purging
    <3>9. ASSUME NEW m \in Nodes, m # n PROVE NodeInv(m)'
      BY <1>0, <2>2, <3>2, <3>9, QuietKeeps DEF Quiet
    <3>. QED
      BY <1>0, <1>3, <1>a, <1>b, <3>2, <3>3, <3>4, <3>8, <3>9 DEF Committed
  <2>. QED
    BY <1>3, <2>1, <2>2 DEF Committed
<1>4. ASSUME NEW n \in Nodes, ReadBackFails(n) PROVE CacheInv'
  <2>1. \A m \in Nodes : Quiet(m) /\ (work'[m] = work[m] \/ work'[m] = NoWork)
    BY <1>0, <1>4 DEF ReadBackFails, Quiet
  <2>2. \A m \in Nodes : NodeInv(m)'
    BY <1>0, <2>1, QuietKeeps
  <2>3. work' \in [Nodes -> WorkType]
    BY <1>0, <1>4 DEF ReadBackFails
  <2>. QED
    BY <1>0, <1>4, <1>a, <1>b, <2>2, <2>3 DEF ReadBackFails
<1>5. ASSUME NEW n \in Nodes, Publish(n) PROVE CacheInv'
  <2> DEFINE s == work[n].scope
             m == [manager[n] EXCEPT ![s] = generation[n][s]]
  <2>1. /\ s \in Scopes /\ work[n] \in WorkType /\ work[n].keys \subseteq CacheKey
        /\ work[n].pc = "publish"
    BY <1>0, <1>5 DEF WorkType, Publish
  <2>2. /\ m \in [Scopes -> Nat \ {0}]
        /\ \A t \in Scopes : manager[n][t] <= m[t] /\ m[t] <= generation[n][t]
        /\ m[s] = generation[n][s]
    BY <1>0, <2>1 DEF NodeInv
  <2>3. manager' = [manager EXCEPT ![n] = m] /\ UNCHANGED <<generation, promised>>
    BY <1>0, <1>5, <2>1 DEF Publish
  <2>4. used' = [used EXCEPT ![n] = @ \cup {KeyIn(m, o) : o \in Objects}]
    BY <1>0, <1>5, <2>3 DEF Publish, UseKeys, Key, KeyIn
  <2>5. /\ work' \in [Nodes -> WorkType] /\ work'[n].keys = work[n].keys
        /\ work'[n].scope = s /\ work'[n].pc \in {"broadcast", "ack"}
        /\ \A o \in Nodes : o # n => work'[o] = work[o]
    <3>1. PICK step \in {"broadcast", "ack"} : work' = [work EXCEPT ![n].pc = step]
      BY <1>5 DEF Publish
    <3>. QED
      BY <1>0, <2>1, <3>1 DEF WorkType
  <2>6. broadcast' \in [Edges -> {"todo", "sent", "done"}]
    BY <1>5, <1>a DEF Publish
  <2> HIDE DEF m, s
  <2>7. /\ \A k \in used'[n] : k \in CacheKey /\ Reached(k, m)
        /\ \A k \in promised[n] : Outdated(k, m)
        /\ \A k \in work[n].keys : Reached(k, m)
    <3>1. manager[n] \in [Scopes -> Nat] /\ m \in [Scopes -> Nat] /\ used[n] \subseteq CacheKey
          /\ promised[n] \subseteq CacheKey /\ NodeInv(n)
      BY <1>0, <2>2
    <3>2. used'[n] = used[n] \cup {KeyIn(m, o) : o \in Objects}
      BY <1>0, <2>4
    <3>. QED
      BY <2>1, <2>2, <3>1, <3>2, MemoryRaised
  <2>8. \A k \in work[n].keys : Passed(k, s, m)
    <3>1. ASSUME NEW k \in work[n].keys PROVE Passed(k, s, m)
      <4>1. Passed(k, s, generation[n])
        BY <1>0, <2>1 DEF NodeInv, Purging, s
      <4>. QED
        BY <2>2, <4>1 DEF Passed
    <3>. QED
      BY <3>1
  <2>9. NodeInv(n)'
    <3>1. manager'[n] = m
      BY <1>0, <2>3
    <3>. QED
      BY <1>0, <2>2, <2>3, <2>5, <2>7, <2>8, <3>1 DEF NodeInv, Purging
  <2>10. ASSUME NEW o \in Nodes, o # n PROVE NodeInv(o)'
    BY <1>0, <2>3, <2>4, <2>5, <2>10, QuietKeeps DEF Quiet
  <2>11. used' \in [Nodes -> SUBSET CacheKey] /\ manager' \in [Nodes -> [Scopes -> Nat \ {0}]]
    BY <1>0, <2>2, <2>3, <2>4, <2>7
  <2>. QED
    BY <1>0, <1>5, <1>a, <1>b, <2>3, <2>5, <2>6, <2>9, <2>10, <2>11 DEF Publish
<1>6. ASSUME NEW n \in Nodes, Crash(n) PROVE CacheInv'
  <2>1. \A m \in Nodes : Quiet(m) /\ (work'[m] = work[m] \/ work'[m] = NoWork)
    BY <1>0, <1>6 DEF Crash, Quiet
  <2>2. \A m \in Nodes : NodeInv(m)'
    BY <1>0, <2>1, QuietKeeps
  <2>3. work' \in [Nodes -> WorkType] /\ loaded' \in [Nodes -> BOOLEAN]
    BY <1>0, <1>6, <1>a DEF Crash
  <2>4. broadcast' \in [Edges -> {"todo", "sent", "done"}]
    BY <1>6, <1>a DEF Crash, NoBroadcast
  <2>. QED
    BY <1>0, <1>6, <1>a, <1>b, <2>2, <2>3, <2>4 DEF Crash
<1>7. ASSUME NEW n \in Nodes, Load(n) PROVE CacheInv'
  <2> DEFINE m == generation[n]
  <2>1. /\ m \in [Scopes -> Nat \ {0}] /\ work[n].keys \subseteq CacheKey
        /\ \A t \in Scopes : manager[n][t] <= m[t]
    BY <1>0 DEF NodeInv, WorkType
  <2>2. /\ manager' = [manager EXCEPT ![n] = m] /\ UNCHANGED <<generation, promised, work>>
        /\ loaded' \in [Nodes -> BOOLEAN]
    BY <1>7, <1>a DEF Load
  <2>3. used' = [used EXCEPT ![n] = @ \cup {KeyIn(m, o) : o \in Objects}]
    BY <1>0, <1>7, <2>2 DEF Load, UseKeys, Key, KeyIn
  <2>4. /\ \A k \in used'[n] : k \in CacheKey /\ Reached(k, m)
        /\ \A k \in promised[n] : Outdated(k, m)
        /\ \A k \in work[n].keys : Reached(k, m)
    <3>1. manager[n] \in [Scopes -> Nat] /\ m \in [Scopes -> Nat] /\ used[n] \subseteq CacheKey
          /\ promised[n] \subseteq CacheKey /\ NodeInv(n)
      BY <1>0, <2>1
    <3>2. used'[n] = used[n] \cup {KeyIn(m, o) : o \in Objects}
      BY <1>0, <2>3
    <3>. QED
      BY <2>1, <3>1, <3>2, MemoryRaised
  <2>5. work[n].pc \in {"broadcast", "ack"} =>
          \A k \in work[n].keys : Passed(k, work[n].scope, m)
    <3>1. work[n].scope \in Scopes /\ manager[n] \in [Scopes -> Nat] /\ m \in [Scopes -> Nat]
      BY <1>0 DEF WorkType
    <3>. QED
      BY <1>0, <2>1, <3>1, Raised DEF NodeInv, Purging
  <2>6. NodeInv(n)'
    <3>1. manager'[n] = m /\ generation'[n] = m
      BY <1>0, <2>2
    <3>2. \A t \in Scopes : m[t] <= m[t]
      BY <2>1
    <3> HIDE DEF m
    <3>. QED
      BY <1>0, <2>2, <2>4, <2>5, <3>1, <3>2 DEF NodeInv, Purging
  <2>7. ASSUME NEW o \in Nodes, o # n PROVE NodeInv(o)'
    BY <1>0, <2>2, <2>3, <2>7, QuietKeeps DEF Quiet
  <2>8. used' \in [Nodes -> SUBSET CacheKey] /\ manager' \in [Nodes -> [Scopes -> Nat \ {0}]]
    BY <1>0, <2>1, <2>2, <2>3, <2>4
  <2>. QED
    BY <1>0, <1>7, <1>a, <1>b, <2>2, <2>6, <2>7, <2>8 DEF Load
<1>8. ASSUME NEW e \in Edges, Receive(e) PROVE CacheInv'
  <2>1. /\ work' = [work EXCEPT ![e] = [pc |-> "commit", scope |-> work[Coordinator].scope,
                                       keys |-> used[e]]]
        /\ e \in Nodes /\ \A n \in Nodes : Quiet(n)
    BY <1>0, <1>8 DEF Receive, Quiet
  <2>2. work' \in [Nodes -> WorkType]
    BY <1>0, <2>1 DEF WorkType
  <2>3. NodeInv(e)'
    BY <1>0, <2>1 DEF NodeInv, Purging, Quiet
  <2>4. ASSUME NEW n \in Nodes, n # e PROVE NodeInv(n)'
    BY <1>0, <2>1, <2>4, QuietKeeps
  <2>. QED
    BY <1>0, <1>8, <1>a, <1>b, <2>2, <2>3, <2>4 DEF Receive
<1>9. ASSUME NEW e \in Edges, Acknowledge(e) PROVE CacheInv'
  <2>1. /\ promised' = [promised EXCEPT ![e] = @ \cup CoveredKeys(e, work[e].scope)]
        /\ work' = [work EXCEPT ![e] = NoWork] /\ work[e].pc = "ack" /\ e \in Nodes
        /\ UNCHANGED <<generation, manager, used>>
    BY <1>0, <1>9 DEF Acknowledge, Promise
  <2>2. \A k \in CoveredKeys(e, work[e].scope) : k \in CacheKey /\ Outdated(k, manager[e])
    BY <1>0, <2>1, PassedOutdates DEF CoveredKeys, NodeInv, Purging, WorkType
  <2>3. NodeInv(e)'
    BY <1>0, <2>1, <2>2 DEF NodeInv, Purging, NoWork
  <2>4. ASSUME NEW n \in Nodes, n # e PROVE NodeInv(n)'
    BY <1>0, <2>1, <2>4, QuietKeeps DEF Quiet
  <2>5. promised' \in [Nodes -> SUBSET CacheKey] /\ work' \in [Nodes -> WorkType]
    BY <1>0, <2>1, <2>2
  <2>. QED
    BY <1>0, <1>9, <1>a, <1>b, <2>3, <2>4, <2>5 DEF Acknowledge
<1>10. ASSUME NEW e \in Edges, Lose(e) \/ Unheard(e) \/ SyncStateChanges(e) PROVE CacheInv'
  <2>1. \A m \in Nodes : Quiet(m) /\ (work'[m] = work[m] \/ work'[m] = NoWork)
    BY <1>0, <1>10 DEF Lose, Unheard, SyncStateChanges, Quiet
  <2>2. \A m \in Nodes : NodeInv(m)'
    BY <1>0, <2>1, QuietKeeps
  <2>3. work' \in [Nodes -> WorkType]
    BY <1>0, <1>10 DEF Lose, Unheard, SyncStateChanges
  <2>. QED
    BY <1>0, <1>10, <1>a, <1>b, <2>2, <2>3 DEF Lose, Unheard, SyncStateChanges
<1>11. CASE UNCHANGED cacheVars
  BY <1>11 DEF cacheVars, CacheInv, CacheTypeOK, NodeInv, Purging
<1>. QED
  BY <1>1, <1>2, <1>3, <1>4, <1>5, <1>6, <1>7, <1>8, <1>9, <1>10, <1>11 DEF CacheNext

(* For any number of Edges, upstreams, paths and purges a key a caller was *)
(* told is invalid is never computed again on the node that purged it.     *)
THEOREM PurgedStaysPurgedHolds == CacheSpec => []PurgedStaysPurged
<1>1. CacheInv => PurgedStaysPurged
  <2> SUFFICES ASSUME CacheInv, NEW n \in Nodes, NEW o \in Objects,
                      Key(n, o) \in promised[n]
               PROVE  FALSE
    BY DEF PurgedStaysPurged
  <2>1. manager[n] \in [Scopes -> Nat] /\ Outdated(Key(n, o), manager[n])
    BY DEF CacheInv, CacheTypeOK, NodeInv
  <2>. QED
    BY <2>1, KeysOf DEF Key, KeyIn
<1>. QED
  BY <1>1, CacheStarts, CacheKeeps, PTL DEF CacheSpec

-----------------------------------------------------------------------------
(* Settings.                                                               *)

(* The fields a start takes from the stored document. *)
SameDocument(c, d) == c.role = d.role /\ c.token = d.token /\ c.seeds = d.seeds

(* A document that was saved: complete, valid, with the environment's      *)
(* token, and without a token only if the file has none either.            *)
SavedOk(d) ==
  /\ d \in Configs /\ Validate(d)
  /\ EnvToken # "" => d.token = EnvToken
  /\ d.token = "" => FileConfig.token = ""

(* The stored document is the last answer; without one the file is.        *)
DocumentInv ==
  \/ settingsRow = {} /\ SameDocument(answered, FileConfig)
  \/ \E d \in Configs : /\ settingsRow = {d} /\ SavedOk(d)
                        /\ d.ui = FileConfig.ui /\ SameDocument(answered, d)

(* The appearance that is recorded is live, or about to be.                *)
Recorded == IF appearanceRow = {} THEN FileConfig.ui ELSE The(appearanceRow)
AppearanceInv ==
  /\ appearanceRow = {} \/ \E u \in Appearances : appearanceRow = {u}
  /\ publishing = {} \/ publishing = {Recorded}
  /\ appearance \in Appearances
  /\ process = "up" /\ publishing = {} => appearance = Recorded

(* Every credential of a list of seeds was entered for its URL.            *)
Vouched(seeds, known) ==
  \A p \in Positions : seeds[p] = NoSeed \/ seeds[p][2] \in Blank \/ seeds[p] \in known
Version == [version: Nat, settings: {c \in Configs : CredentialsOf(c) \subseteq Blank}]
CredentialInv ==
  /\ Vouched(FileConfig.seeds, entered)
  /\ \A d \in settingsRow : Vouched(d.seeds, entered)
  /\ clusterNodes \in [URLs -> SUBSET (Tokens \cup Blank)]
  /\ \A url \in URLs : \A t \in clusterNodes[url] : t \in Blank \/ <<url, t>> \in entered
  /\ history \in Seq(Version) /\ Len(history) <= HistoryLimit

AnsweredInv == answered \in Configs /\ changes \in Nat
SettingsInv == DocumentInv /\ AppearanceInv /\ CredentialInv /\ AnsweredInv

-----------------------------------------------------------------------------
(* A set of numbers that is not empty has a least one. *)
LEMMA LeastNumber ==
  ASSUME NEW T, T \subseteq Nat, T # {} PROVE \E n \in T : \A m \in T : n <= m
<1>1. PICK x \in T : \A y \in T : ~ (<<y, x>> \in OpToRel(<, Nat))
  BY NatLessThanWellFounded, WFMin
<1>2. \A y \in T : ~ (y < x)
  BY <1>1 DEF OpToRel
<1>. QED
  BY <1>2

(* Positions of a list have a first and a last one. *)
LEMMA Ends ==
  ASSUME NEW S, S \subseteq Positions, S # {} PROVE Min(S) \in S /\ Max(S) \in S
<1> DEFINE n == Cardinality(Positions)
           T == {n - p : p \in S}
<1>1. n \in Nat /\ \A p \in S : p \in 1..n BY SettingsAssumption
<1> HIDE DEF n
<1>2. S \subseteq Nat /\ T \subseteq Nat /\ T # {} BY <1>1
<1>3. \E x \in S : \A y \in S : x <= y BY <1>2, LeastNumber
<1>4. \E x \in S : \A y \in S : x >= y
  <2> HIDE DEF T
  <2>1. PICK t \in T : \A m \in T : t <= m BY <1>2, LeastNumber
  <2> USE DEF T
  <2>2. PICK x \in S : t = n - x OBVIOUS
  <2>3. \A y \in S : n - x <= n - y BY <2>1, <2>2
  <2>4. \A y \in S : x >= y BY <1>1, <1>2, <2>3
  <2> QED BY <2>4
<1> QED BY <1>3, <1>4 DEF Min, Max

(* A seed and its parts. *)
LEMMA SeedParts ==
  ASSUME NEW s \in Seeds, s # NoSeed
  PROVE  s[1] \in URLs /\ s[2] \in Tokens \cup Blank /\ s = <<s[1], s[2]>>
BY DEF Seeds

(* mergeNodeSeeds keeps every seed with its URL, and takes a credential    *)
(* only from a seed of the same URL.                                       *)
LEMMA MergeSound ==
  ASSUME NEW existing \in [Positions -> Seeds], NEW input \in [Positions -> Seeds],
         NEW blank
  PROVE  LET merged == MergeNodeSeeds(existing, input, blank)
         IN  /\ merged \in [Positions -> Seeds]
             /\ \A p \in Positions :
                  /\ merged[p] = NoSeed <=> input[p] = NoSeed
                  /\ input[p] # NoSeed => merged[p][1] = input[p][1]
                  /\ input[p] # NoSeed /\ input[p][2] \notin blank => merged[p] = input[p]
                  /\ merged[p] = input[p] \/ \E q \in Positions : merged[p] = existing[q]
<1> DEFINE merged == MergeNodeSeeds(existing, input, blank)
<1>1. ASSUME NEW p \in Positions
      PROVE  /\ merged[p] \in Seeds
             /\ merged[p] = NoSeed <=> input[p] = NoSeed
             /\ input[p] # NoSeed => merged[p][1] = input[p][1]
             /\ input[p] # NoSeed /\ input[p][2] \notin blank => merged[p] = input[p]
             /\ merged[p] = input[p] \/ \E q \in Positions : merged[p] = existing[q]
  <2>1. CASE input[p] # NoSeed /\ input[p][2] \in blank /\ At(existing, input[p][1]) # {}
    <3> DEFINE S == At(existing, input[p][1])
               m == Min(S)
    <3>1. S \subseteq Positions BY DEF At, SeedsIn
    <3>2. m \in S
      <4> HIDE DEF S
      <4> QED BY <2>1, <3>1, Ends DEF S
    <3>3. m \in Positions /\ existing[m] # NoSeed /\ existing[m][1] = input[p][1]
      <4> HIDE DEF m
      <4> QED BY <3>2 DEF At, SeedsIn
    <3>4. merged[p] = <<input[p][1], existing[m][2]>> BY <2>1 DEF MergeNodeSeeds
    <3> HIDE DEF m, merged
    <3>5. existing[m] = <<existing[m][1], existing[m][2]>> BY <3>3, SeedParts
    <3>6. merged[p] = existing[m] BY <3>3, <3>4, <3>5
    <3> QED BY <2>1, <3>3, <3>6
  <2>2. CASE ~(input[p] # NoSeed /\ input[p][2] \in blank /\ At(existing, input[p][1]) # {})
    <3>1. merged[p] = input[p] BY <2>2 DEF MergeNodeSeeds
    <3> HIDE DEF merged
    <3> QED BY <3>1
  <2> QED BY <2>1, <2>2
<1>2. merged = [p \in Positions |-> merged[p]] BY DEF MergeNodeSeeds
<1> HIDE DEF merged
<1>3. merged \in [Positions -> Seeds] BY <1>1, <1>2
<1> QED BY <1>1, <1>3 DEF merged

(* So credentials stay vouched for. *)
LEMMA MergeVouched ==
  ASSUME NEW existing \in [Positions -> Seeds], NEW input \in [Positions -> Seeds],
         NEW blank, NEW known, Vouched(existing, known), Vouched(input, known)
  PROVE  Vouched(MergeNodeSeeds(existing, input, blank), known)
<1> DEFINE merged == MergeNodeSeeds(existing, input, blank)
<1>1. \A p \in Positions : merged[p] = input[p] \/ \E q \in Positions : merged[p] = existing[q]
  BY MergeSound
<1> HIDE DEF merged
<1>2. Vouched(merged, known) BY <1>1 DEF Vouched
<1> QED BY <1>2 DEF merged

(* A document with all its credentials is what it is over any base. *)
LEMMA MergeComplete ==
  ASSUME NEW existing \in [Positions -> Seeds], NEW input \in [Positions -> Seeds],
         NEW blank, \A p \in SeedsIn(input) : input[p][2] \notin blank
  PROVE  MergeNodeSeeds(existing, input, blank) = input
<1> DEFINE merged == MergeNodeSeeds(existing, input, blank)
<1>1. merged \in [Positions -> Seeds]
      /\ \A p \in Positions : /\ merged[p] = NoSeed <=> input[p] = NoSeed
                              /\ input[p] # NoSeed /\ input[p][2] \notin blank => merged[p] = input[p]
  BY MergeSound
<1> HIDE DEF merged
<1>2. \A p \in Positions : merged[p] = input[p] BY <1>1 DEF SeedsIn
<1>3. merged = input BY <1>1, <1>2
<1> QED BY <1>3 DEF merged

(* What the three ways of combining documents return. *)
LEMMA ApplyFields ==
  ASSUME NEW w \in Configs, NEW base \in Configs
  PROVE  /\ Apply(w, base) \in Configs
         /\ Apply(w, base).role = (IF w.role = "" THEN base.role ELSE w.role)
         /\ Apply(w, base).ui = w.ui
         /\ Apply(w, base).token = IF w.token \in Blank THEN base.token ELSE w.token
         /\ Apply(w, base).seeds = MergeNodeSeeds(base.seeds, w.seeds, Blank)
<1> DEFINE merged == MergeNodeSeeds(base.seeds, w.seeds, Blank)
<1>1. w.seeds \in [Positions -> Seeds] /\ base.seeds \in [Positions -> Seeds] BY DEF Configs
<1>2. merged \in [Positions -> Seeds] BY <1>1, MergeSound
<1>3. Apply(w, base) = [role |-> IF w.role = "" THEN base.role ELSE w.role,
                        token |-> IF w.token \in Blank THEN base.token ELSE w.token,
                        seeds |-> merged, ui |-> w.ui]
  BY DEF Apply
<1> HIDE DEF merged
<1> DEFINE chosen == IF w.role = "" THEN base.role ELSE w.role
           secret == IF w.token \in Blank THEN base.token ELSE w.token
<1>4. /\ chosen \in {"", "standalone", "coordinator"} /\ secret \in Tokens \cup Blank
      /\ w.ui \in Appearances
  BY DEF Configs
<1>5. Apply(w, base) = [role |-> chosen, token |-> secret, seeds |-> merged, ui |-> w.ui]
  BY <1>3
<1> HIDE DEF chosen, secret
<1>6. Apply(w, base) \in Configs
  <2>1. [role |-> chosen, token |-> secret, seeds |-> merged, ui |-> w.ui] \in Configs
    BY ONLY <1>2, <1>4 DEF Configs
  <2> QED BY <1>5, <2>1
<1>7. /\ Apply(w, base).role = chosen /\ Apply(w, base).ui = w.ui
      /\ Apply(w, base).token = secret /\ Apply(w, base).seeds = merged
  BY <1>5
<1> QED BY <1>6, <1>7 DEF merged, chosen, secret

(* The environment replaces the token only. *)
LEMMA EnvironmentFields ==
  ASSUME NEW c \in Configs
  PROVE  /\ ApplyEnvironment(c) \in Configs
         /\ ApplyEnvironment(c).role = c.role /\ ApplyEnvironment(c).ui = c.ui
         /\ ApplyEnvironment(c).seeds = c.seeds
         /\ ApplyEnvironment(c).token = IF EnvToken = "" THEN c.token ELSE EnvToken
BY SettingsAssumption DEF ApplyEnvironment, Configs

(* The configuration of the stored document. *)
LEMMA StoredFields ==
  ASSUME DocumentInv, CredentialInv
  PROVE  /\ StoredConfig \in Configs /\ StoredConfig.ui = FileConfig.ui
         /\ Vouched(StoredConfig.seeds, entered)
         /\ StoredConfig.token = "" => FileConfig.token = ""
         /\ StoredConfig.role = (IF answered.role = "" THEN FileConfig.role ELSE answered.role)
         /\ answered.token # Redacted => StoredConfig.token = answered.token
         /\ \A p \in Positions : StoredConfig.seeds[p] # NoSeed =>
              answered.seeds[p] # NoSeed /\ answered.seeds[p][1] = StoredConfig.seeds[p][1]
<1>0. FileConfig \in Configs BY SettingsAssumption
<1>1. CASE settingsRow = {} /\ SameDocument(answered, FileConfig)
  BY <1>0, <1>1 DEF StoredConfig, SameDocument, CredentialInv
<1>2. ASSUME NEW d \in Configs, settingsRow = {d}, SavedOk(d), d.ui = FileConfig.ui,
             SameDocument(answered, d)
      PROVE  /\ StoredConfig \in Configs /\ StoredConfig.ui = FileConfig.ui
             /\ Vouched(StoredConfig.seeds, entered)
             /\ StoredConfig.token = "" => FileConfig.token = ""
             /\ StoredConfig.role = (IF answered.role = "" THEN FileConfig.role ELSE answered.role)
             /\ answered.token # Redacted => StoredConfig.token = answered.token
             /\ \A p \in Positions : StoredConfig.seeds[p] # NoSeed =>
                  answered.seeds[p] # NoSeed /\ answered.seeds[p][1] = StoredConfig.seeds[p][1]
  <2> DEFINE a == Apply(d, FileConfig)
             m == MergeNodeSeeds(FileConfig.seeds, d.seeds, Blank)
  <2>1. StoredConfig = ApplyEnvironment(a)
    BY <1>2 DEF StoredConfig, ApplyWebSettings, The
  <2>2. /\ a \in Configs /\ a.ui = d.ui
        /\ a.role = (IF d.role = "" THEN FileConfig.role ELSE d.role)
        /\ a.token = IF d.token \in Blank THEN FileConfig.token ELSE d.token
        /\ a.seeds = m
    BY <1>0, ApplyFields
  <2>3. d.seeds \in [Positions -> Seeds] /\ FileConfig.seeds \in [Positions -> Seeds]
    BY <1>0 DEF Configs
  <2>4. \A p \in Positions : /\ m[p] = NoSeed <=> d.seeds[p] = NoSeed
                             /\ d.seeds[p] # NoSeed => m[p][1] = d.seeds[p][1]
    BY <2>3, MergeSound
  <2>5. Vouched(m, entered) BY <1>2, <2>3, MergeVouched DEF CredentialInv
  <2> HIDE DEF a, m
  <2>6. /\ StoredConfig \in Configs
        /\ StoredConfig.role = a.role /\ StoredConfig.ui = a.ui
        /\ StoredConfig.seeds = a.seeds
        /\ StoredConfig.token = IF EnvToken = "" THEN a.token ELSE EnvToken
    BY <2>1, <2>2, EnvironmentFields
  <2>7. StoredConfig.token = "" => FileConfig.token = ""
    BY <1>2, <2>2, <2>6 DEF SavedOk, Blank
  <2>8. answered.token # Redacted => StoredConfig.token = answered.token
    BY <1>2, <2>2, <2>6 DEF SavedOk, SameDocument, Blank
  <2>9. \A p \in Positions : StoredConfig.seeds[p] # NoSeed =>
          answered.seeds[p] # NoSeed /\ answered.seeds[p][1] = StoredConfig.seeds[p][1]
    BY <1>2, <2>2, <2>4, <2>6 DEF SameDocument
  <2> QED BY <1>2, <2>2, <2>5, <2>6, <2>7, <2>8, <2>9 DEF SameDocument
<1> QED BY <1>1, <1>2 DEF DocumentInv

(* The history keeps its type and its length: what is added is redacted,   *)
(* what is kept was there.                                                 *)
LEMMA HistoryKept ==
  ASSUME history \in Seq(Version), Len(history) <= HistoryLimit, NEW c \in Configs,
         AddSettingVersion(RedactedWebSettings(c))
  PROVE  history' \in Seq(Version) /\ Len(history') <= HistoryLimit
<1> DEFINE red == RedactedWebSettings(c)
<1>1. red \in Configs /\ CredentialsOf(red) \subseteq Blank
  <2>0. c.seeds \in [Positions -> Seeds] /\ c.token \in Tokens \cup Blank BY DEF Configs
  <2> DEFINE s == [p \in Positions |->
                     IF c.seeds[p] = NoSeed \/ c.seeds[p][2] = "" THEN c.seeds[p]
                     ELSE <<c.seeds[p][1], Redacted>>]
             t == IF c.token = "" THEN "" ELSE Redacted
  <2>1. red = [c EXCEPT !.token = t, !.seeds = s] BY DEF RedactedWebSettings
  <2>2. \A p \in Positions : s[p] \in Seeds /\ (s[p] # NoSeed => s[p][2] \in Blank)
    <3> SUFFICES ASSUME NEW p \in Positions
                 PROVE  s[p] \in Seeds /\ (s[p] # NoSeed => s[p][2] \in Blank)
      OBVIOUS
    <3>1. c.seeds[p] \in Seeds BY <2>0
    <3>2. CASE c.seeds[p] = NoSeed \/ c.seeds[p][2] = "" BY <3>1, <3>2 DEF Blank
    <3>3. CASE ~(c.seeds[p] = NoSeed \/ c.seeds[p][2] = "")
      <4>1. c.seeds[p][1] \in URLs BY <3>1, <3>3, SeedParts
      <4>2. s[p] = <<c.seeds[p][1], Redacted>> BY <3>3
      <4>3. <<c.seeds[p][1], Redacted>> \in Seeds /\ <<c.seeds[p][1], Redacted>>[2] = Redacted
        BY <4>1 DEF Seeds, Blank
      <4> HIDE DEF s
      <4> QED BY <4>2, <4>3 DEF Blank
    <3> QED BY <3>2, <3>3
  <2>3. s \in [Positions -> Seeds]
    <3>1. s = [p \in Positions |-> s[p]] OBVIOUS
    <3> HIDE DEF s
    <3> QED BY <2>2, <3>1
  <2>4. t \in Blank BY DEF Blank
  <2> HIDE DEF s, t, red
  <2>5. red \in Configs /\ red.token = t /\ red.seeds = s BY <2>1, <2>3, <2>4 DEF Configs
  <2> QED BY <2>2, <2>4, <2>5 DEF CredentialsOf, SeedsIn
<1> DEFINE v == IF history = <<>> THEN 1 ELSE history[Len(history)].version + 1
           new == [version |-> v, settings |-> red]
           all == Append(history, new)
           from == IF Len(all) > HistoryLimit THEN Len(all) - HistoryLimit + 1 ELSE 1
<1>2. v \in Nat
  <2>1. CASE history = <<>> BY <2>1
  <2>2. CASE history # <<>>
    <3>1. history[Len(history)] \in Version BY <2>2
    <3> QED BY <2>2, <3>1 DEF Version
  <2> QED BY <2>1, <2>2
<1>3. history' = SubSeq(all, from, Len(all)) BY DEF AddSettingVersion
<1> HIDE DEF red, v
<1>4. new \in Version BY <1>1, <1>2 DEF Version
<1> HIDE DEF new
<1>5. all \in Seq(Version) /\ Len(all) = Len(history) + 1 BY <1>4
<1> HIDE DEF all
<1>6. from \in Nat /\ from >= 1 /\ Len(all) - from + 1 <= HistoryLimit /\ from <= Len(all) + 1
  BY <1>5, SettingsAssumption
<1> HIDE DEF from
<1>7. SubSeq(all, from, Len(all)) \in Seq(Version)
      /\ Len(SubSeq(all, from, Len(all))) <= HistoryLimit
  BY <1>5, <1>6, SettingsAssumption
<1> QED BY <1>3, <1>7

(* A change that saves a sound document keeps the invariant. *)
LEMMA PutKeeps ==
  ASSUME SettingsInv, NEW c, SavedOk(c), PutWebSettings(c), Idle,
         entered \subseteq entered', Vouched(c.seeds, entered')
  PROVE  SettingsInv'
<1> DEFINE d == OperationalWebSettings(c)
<1>0. c \in Configs /\ FileConfig \in Configs BY SettingsAssumption DEF SavedOk
<1>1. d \in Configs /\ SameDocument(c, d) /\ d.ui = FileConfig.ui
  BY <1>0 DEF OperationalWebSettings, Configs, SameDocument
<1>2. settingsRow' = {d} /\ answered' = c BY DEF PutWebSettings
<1> HIDE DEF d
<1>3. SavedOk(d)
  <2>1. Validate(d) <=> Validate(c) BY <1>1 DEF Validate, SameDocument
  <2> QED BY <1>1, <2>1 DEF SavedOk, SameDocument
<1>4. DocumentInv' BY <1>1, <1>2, <1>3 DEF DocumentInv
<1>5. AppearanceInv'
  <2>1. appearanceRow' = {c.ui} /\ publishing' = {c.ui} /\ appearance' = appearance /\ c.ui \in Appearances
    BY <1>0 DEF PutWebSettings, Configs
  <2> QED BY <2>1 DEF AppearanceInv, Recorded, The, SettingsInv
<1>6. CredentialInv'
  <2>1. history' \in Seq(Version) /\ Len(history') <= HistoryLimit
    BY <1>0, HistoryKept DEF SettingsInv, CredentialInv, PutWebSettings
  <2>2. Vouched(FileConfig.seeds, entered') /\ Vouched(d.seeds, entered')
    BY <1>1 DEF SettingsInv, CredentialInv, Vouched, SameDocument
  <2>3. clusterNodes' = clusterNodes BY DEF PutWebSettings
  <2> QED BY <1>2, <2>1, <2>2, <2>3 DEF SettingsInv, CredentialInv
<1>7. AnsweredInv' BY <1>0, <1>2 DEF AnsweredInv, SettingsInv, Idle
<1> QED BY <1>4, <1>5, <1>6, <1>7 DEF SettingsInv

(* What a change over a stored configuration saves. *)
LEMMA ChangeSound ==
  ASSUME SettingsInv, NEW w \in Configs, NEW known, entered \subseteq known,
         Vouched(w.seeds, known), Applicable(w, BaseConfig)
  PROVE  SavedOk(ApplyWebSettings(w, BaseConfig))
         /\ Vouched(ApplyWebSettings(w, BaseConfig).seeds, known)
<1> DEFINE base == BaseConfig
           a == Apply(w, base)
           c == ApplyWebSettings(w, base)
           m == MergeNodeSeeds(base.seeds, w.seeds, Blank)
<1>1. /\ StoredConfig \in Configs /\ Vouched(StoredConfig.seeds, entered)
      /\ StoredConfig.token = "" => FileConfig.token = ""
  BY StoredFields DEF SettingsInv
<1>2. /\ base \in Configs /\ base.seeds = StoredConfig.seeds
      /\ base.token = StoredConfig.token
  BY <1>1 DEF BaseConfig, SettingsInv, AppearanceInv, Configs
<1> HIDE DEF base
<1>3. a \in Configs /\ a.token = (IF w.token \in Blank THEN base.token ELSE w.token) /\ a.seeds = m
  BY <1>2, ApplyFields
<1>4. base.seeds \in [Positions -> Seeds] /\ w.seeds \in [Positions -> Seeds]
  BY <1>2 DEF Configs
<1>5. Vouched(base.seeds, known) BY <1>1, <1>2 DEF Vouched
<1>6. Vouched(m, known) BY <1>4, <1>5, MergeVouched
<1>7. c = ApplyEnvironment(a) BY DEF ApplyWebSettings
<1>8. Validate(c) BY DEF Applicable, base
<1> HIDE DEF a, c, m
<1>9. c \in Configs /\ c.seeds = a.seeds /\ c.token = IF EnvToken = "" THEN a.token ELSE EnvToken
  BY <1>3, <1>7, EnvironmentFields
<1>10. c.token = "" => FileConfig.token = "" BY <1>1, <1>2, <1>3, <1>9 DEF Blank
<1> QED BY <1>3, <1>6, <1>8, <1>9, <1>10 DEF SavedOk, c, base

(* What an import saves. *)
LEMMA ImportSound ==
  ASSUME SettingsInv, NEW y \in Configs, NEW known, entered \subseteq known,
         Vouched(y.seeds, known), Validate(ParseCandidate(y))
  PROVE  SavedOk(ParseCandidate(y)) /\ Vouched(ParseCandidate(y).seeds, known)
<1> DEFINE m == MergeNodeSeeds(StoredConfig.seeds, y.seeds, {""})
           t == IF y.token = "" THEN StoredConfig.token ELSE y.token
           a == [y EXCEPT !.token = t, !.seeds = m]
           c == ParseCandidate(y)
<1>1. /\ StoredConfig \in Configs /\ Vouched(StoredConfig.seeds, entered)
      /\ StoredConfig.token = "" => FileConfig.token = ""
  BY StoredFields DEF SettingsInv
<1>2. /\ StoredConfig.seeds \in [Positions -> Seeds] /\ y.seeds \in [Positions -> Seeds]
      /\ t \in Tokens \cup Blank
  BY <1>1 DEF Configs
<1>3. m \in [Positions -> Seeds] BY <1>2, MergeSound
<1>4. Vouched(StoredConfig.seeds, known) BY <1>1 DEF Vouched
<1>5. Vouched(m, known) BY <1>2, <1>4, MergeVouched
<1>6. c = ApplyEnvironment(a) BY DEF ParseCandidate
<1>7. (t = "" => FileConfig.token = "") BY <1>1
<1> HIDE DEF t, m, c
<1>8. a \in Configs /\ a.token = t /\ a.seeds = m BY <1>2, <1>3 DEF Configs
<1> HIDE DEF a
<1>9. c \in Configs /\ c.seeds = a.seeds /\ c.token = IF EnvToken = "" THEN a.token ELSE EnvToken
  BY <1>6, <1>8, EnvironmentFields
<1>10. SavedOk(c) BY <1>7, <1>8, <1>9 DEF SavedOk, c
<1> QED BY <1>5, <1>8, <1>9, <1>10 DEF c

(* What a document holds is vouched for once it was entered. *)
LEMMA EnteredVouched ==
  ASSUME NEW seeds, Enter(seeds)
  PROVE  entered \subseteq entered' /\ Vouched(seeds, entered')
BY DEF Enter, Vouched, SeedsIn

(* A change of the appearance leaves the document. *)
LEMMA AppearanceKeeps ==
  ASSUME SettingsInv, NEW u \in Appearances, Idle, answered' = [answered EXCEPT !.ui = u],
         publishing' = {u},
         appearanceRow' = {u} \/ (appearanceRow' = {} /\ u = FileConfig.ui),
         UNCHANGED <<settingsRow, appearance, history, clusterNodes, entered>>
  PROVE  SettingsInv'
<1>1. answered' \in Configs /\ SameDocument(answered', answered)
  BY DEF SettingsInv, AnsweredInv, Configs, SameDocument
<1>2. DocumentInv' BY <1>1 DEF SettingsInv, DocumentInv, SameDocument
<1>3. AppearanceInv' BY DEF SettingsInv, AppearanceInv, Recorded, The
<1>4. CredentialInv' BY DEF SettingsInv, CredentialInv
<1>5. AnsweredInv' BY <1>1 DEF SettingsInv, AnsweredInv, Idle
<1> QED BY <1>2, <1>3, <1>4, <1>5 DEF SettingsInv

(* The seeding of the node table, of all seeds or of the first ones, uses  *)
(* credentials for their URLs only.                                        *)
LEMMA SeedingSound ==
  ASSUME CredentialInv, NEW seeds \in [Positions -> Seeds], Vouched(seeds, entered), NEW n,
         SeedClusterNodes(seeds, n)
  PROVE  /\ clusterNodes' \in [URLs -> SUBSET (Tokens \cup Blank)]
         /\ \A url \in URLs : \A t \in clusterNodes'[url] : t \in Blank \/ <<url, t>> \in entered
<1>6. \A url \in URLs :
        /\ clusterNodes'[url] \subseteq Tokens \cup Blank
        /\ \A t \in clusterNodes'[url] : t \in Blank \/ <<url, t>> \in entered
  <2> SUFFICES ASSUME NEW url \in URLs
               PROVE  /\ clusterNodes'[url] \subseteq Tokens \cup Blank
                      /\ \A t \in clusterNodes'[url] : t \in Blank \/ <<url, t>> \in entered
    OBVIOUS
  <2> DEFINE given == {p \in At(seeds, url) \cap 1..n : seeds[p][2] # ""}
  <2>1. \/ given # {} /\ clusterNodes'[url] = {seeds[Max(given)][2]}
        \/ clusterNodes'[url] = {""} \/ clusterNodes'[url] = clusterNodes[url]
    BY DEF SeedClusterNodes
  <2>2. CASE given # {} /\ clusterNodes'[url] = {seeds[Max(given)][2]}
    <3> DEFINE m == Max(given)
    <3>1. given \subseteq Positions BY DEF At, SeedsIn
    <3>2. m \in given
      <4> HIDE DEF given
      <4> QED BY <2>2, <3>1, Ends
    <3>3. m \in Positions /\ seeds[m] # NoSeed /\ seeds[m][1] = url
      <4> HIDE DEF m
      <4> QED BY <3>2 DEF At, SeedsIn
    <3>4. clusterNodes'[url] = {seeds[m][2]} BY <2>2
    <3> HIDE DEF m, given
    <3>5. seeds[m][2] \in Tokens \cup Blank /\ seeds[m] = <<url, seeds[m][2]>>
      BY <3>3, SeedParts
    <3>6. seeds[m][2] \in Blank \/ seeds[m] \in entered BY <3>3 DEF Vouched
    <3> QED BY <3>4, <3>5, <3>6
  <2>3. CASE clusterNodes'[url] = {""} BY <2>3 DEF Blank
  <2>4. CASE clusterNodes'[url] = clusterNodes[url]
    BY <2>4 DEF CredentialInv
  <2> QED BY <2>1, <2>2, <2>3, <2>4
<1>7. clusterNodes' \in [URLs -> SUBSET (Tokens \cup Blank)]
  <2>1. clusterNodes' = [url \in URLs |-> clusterNodes'[url]] BY DEF SeedClusterNodes
  <2> QED BY <1>6, <2>1
<1> QED BY <1>6, <1>7

(* The invariant holds at the start, ... *)
LEMMA SettingsStart == SettingsInit => SettingsInv
<1> SUFFICES ASSUME SettingsInit PROVE SettingsInv OBVIOUS
<1>1. FileConfig \in Configs /\ FileConfig.ui \in Appearances BY SettingsAssumption DEF Configs
<1>2. DocumentInv BY DEF SettingsInit, DocumentInv, SameDocument
<1>3. AppearanceInv BY <1>1 DEF SettingsInit, AppearanceInv, Recorded
<1>4. Vouched(FileConfig.seeds, entered) BY DEF SettingsInit, Vouched, SeedsIn
<1>5. CredentialInv BY <1>4, SettingsAssumption DEF SettingsInit, CredentialInv
<1> QED BY <1>1, <1>2, <1>3, <1>5 DEF SettingsInv, AnsweredInv, SettingsInit

(* ... and every step keeps it. *)
LEMMA SettingsStep == SettingsInv /\ [SettingsNext]_settingsVars => SettingsInv'
<1> SUFFICES ASSUME SettingsInv, [SettingsNext]_settingsVars PROVE SettingsInv' OBVIOUS
<1>0. FileConfig \in Configs /\ FileConfig.ui \in Appearances BY SettingsAssumption DEF Configs
<1>1. ASSUME NEW w \in Inputs, UpdateWebSettings(w) PROVE SettingsInv'
  <2>1. w \in Configs BY SettingsAssumption
  <2>2. entered \subseteq entered' /\ Vouched(w.seeds, entered')
    BY <1>1, EnteredVouched DEF UpdateWebSettings
  <2> DEFINE c == ApplyWebSettings(w, BaseConfig)
  <2>3. SavedOk(c) /\ Vouched(c.seeds, entered')
    BY <1>1, <2>1, <2>2, ChangeSound DEF UpdateWebSettings
  <2>4. PutWebSettings(c) /\ Idle BY <1>1 DEF UpdateWebSettings
  <2> HIDE DEF c
  <2> QED BY <2>2, <2>3, <2>4, PutKeeps
<1>2. ASSUME NEW y \in Imports, ApplyImportSettings(y) PROVE SettingsInv'
  <2>1. y \in Configs BY SettingsAssumption
  <2>2. entered \subseteq entered' /\ Vouched(y.seeds, entered')
    BY <1>2, EnteredVouched DEF ApplyImportSettings
  <2> DEFINE c == ParseCandidate(y)
  <2>3. SavedOk(c) /\ Vouched(c.seeds, entered')
    BY <1>2, <2>1, <2>2, ImportSound DEF ApplyImportSettings
  <2>4. PutWebSettings(c) /\ Idle BY <1>2 DEF ApplyImportSettings
  <2> HIDE DEF c
  <2> QED BY <2>2, <2>3, <2>4, PutKeeps
<1>3. ASSUME NEW i \in 1..Len(history), RollbackSettingsHistory(i) PROVE SettingsInv'
  <2> DEFINE w == history[i].settings
             c == ApplyWebSettings(w, BaseConfig)
  <2>1. w \in Configs /\ CredentialsOf(w) \subseteq Blank
    <3>1. history[i] \in Version BY <1>3 DEF SettingsInv, CredentialInv
    <3> QED BY <3>1 DEF Version
  <2>2. entered' = entered /\ Vouched(w.seeds, entered')
    <3>1. \A p \in Positions : w.seeds[p] # NoSeed => w.seeds[p][2] \in Blank
      BY <2>1 DEF CredentialsOf, SeedsIn
    <3> QED BY <1>3, <3>1 DEF RollbackSettingsHistory, Vouched
  <2>3. Applicable(w, BaseConfig) /\ PutWebSettings(c) /\ Idle
    BY <1>3 DEF RollbackSettingsHistory
  <2> HIDE DEF w
  <2>4. SavedOk(c) /\ Vouched(c.seeds, entered')
    BY <2>1, <2>2, <2>3, ChangeSound
  <2> HIDE DEF c
  <2> QED BY <2>2, <2>3, <2>4, PutKeeps
<1>4. CASE ResetWebSettings
  <2> DEFINE c == [FileConfig EXCEPT !.ui = appearance]
  <2>1. c \in Configs /\ SameDocument(c, FileConfig)
    BY <1>0 DEF Configs, SettingsInv, AppearanceInv, SameDocument
  <2>2. AddSettingVersion(RedactedWebSettings(c)) /\ answered' = c /\ settingsRow' = {}
    BY <1>4 DEF ResetWebSettings
  <2> HIDE DEF c
  <2>3. history' \in Seq(Version) /\ Len(history') <= HistoryLimit
    BY <2>1, <2>2, HistoryKept DEF SettingsInv, CredentialInv
  <2>4. DocumentInv' BY <2>1, <2>2 DEF DocumentInv
  <2>5. AppearanceInv' BY <1>4 DEF ResetWebSettings, Idle, SettingsInv, AppearanceInv, Recorded
  <2>6. CredentialInv' BY <1>4, <2>2, <2>3 DEF ResetWebSettings, SettingsInv, CredentialInv
  <2>7. AnsweredInv' BY <1>4, <2>1, <2>2 DEF ResetWebSettings, Idle, SettingsInv, AnsweredInv
  <2> QED BY <2>4, <2>5, <2>6, <2>7 DEF SettingsInv
<1>6. ASSUME NEW u \in Appearances, UpdateAppearance(u) PROVE SettingsInv'
  <2>1. /\ Idle /\ answered' = [answered EXCEPT !.ui = u] /\ publishing' = {u}
        /\ appearanceRow' = {u}
        /\ UNCHANGED <<settingsRow, appearance, history, clusterNodes, entered>>
    BY <1>6 DEF UpdateAppearance
  <2> QED BY <2>1, AppearanceKeeps
<1>7. CASE ResetAppearance
  BY <1>0, <1>7, AppearanceKeeps DEF ResetAppearance
<1>8. CASE PublishAppearance
  <2>1. appearance' = Recorded /\ Recorded \in Appearances
    BY <1>0, <1>8 DEF PublishAppearance, SettingsInv, AppearanceInv, The, Recorded
  <2>2. AppearanceInv' BY <1>8, <2>1 DEF PublishAppearance, SettingsInv, AppearanceInv, Recorded
  <2> QED BY <1>8, <2>2 DEF PublishAppearance, SettingsInv, DocumentInv, CredentialInv, AnsweredInv
<1>9. CASE Restart
  <2> DEFINE seeds == Loaded.seeds
  <2>1. /\ StoredConfig \in Configs /\ StoredConfig.ui = FileConfig.ui
        /\ Vouched(StoredConfig.seeds, entered)
    BY StoredFields DEF SettingsInv
  <2>2. Loaded.ui = Recorded /\ seeds = StoredConfig.seeds
    BY <2>1 DEF Loaded, Recorded, Configs
  <2>3. appearance' = Recorded /\ Recorded \in Appearances
    BY <1>0, <1>9, <2>2 DEF Restart, SettingsInv, AppearanceInv, The, Recorded
  <2>4. AppearanceInv' BY <1>9, <2>3 DEF Restart, StartUnchanged, SettingsInv, AppearanceInv, Recorded
  <2>5. seeds \in [Positions -> Seeds] /\ Vouched(seeds, entered)
        /\ SeedClusterNodes(seeds, Cardinality(Positions))
    BY <1>9, <2>1, <2>2 DEF Restart, Configs
  <2> HIDE DEF seeds
  <2>6. CredentialInv' BY <1>9, <2>5, SeedingSound DEF Restart, StartUnchanged, SettingsInv, CredentialInv
  <2> QED BY <1>9, <2>4, <2>6 DEF Restart, StartUnchanged, SettingsInv, DocumentInv, AnsweredInv
<1>10. ASSUME NEW n, RestartFails(n) PROVE SettingsInv'
  <2> DEFINE seeds == Loaded.seeds
  <2>1. StoredConfig \in Configs /\ Vouched(StoredConfig.seeds, entered)
    BY StoredFields DEF SettingsInv
  <2>2. seeds = StoredConfig.seeds BY <2>1 DEF Loaded, Configs
  <2>3. seeds \in [Positions -> Seeds] /\ Vouched(seeds, entered)
        /\ (SeedClusterNodes(seeds, n) \/ UNCHANGED clusterNodes)
    BY <1>10, <2>1, <2>2 DEF RestartFails, Configs
  <2> HIDE DEF seeds
  <2>4. CredentialInv'
    BY <1>10, <2>3, SeedingSound DEF RestartFails, StartUnchanged, SettingsInv, CredentialInv
  <2>5. AppearanceInv'
    BY <1>10 DEF RestartFails, StartUnchanged, SettingsInv, AppearanceInv, Recorded
  <2> QED BY <1>10, <2>4, <2>5 DEF RestartFails, StartUnchanged, SettingsInv, DocumentInv, AnsweredInv
<1>11. CASE UNCHANGED settingsVars
  BY <1>11 DEF settingsVars, SettingsInv, DocumentInv, AppearanceInv, Recorded, CredentialInv, AnsweredInv
<1> QED BY <1>1, <1>2, <1>3, <1>4, <1>6, <1>7, <1>8, <1>9, <1>10, <1>11 DEF SettingsNext

(* So it always holds. *)
LEMMA SettingsCorrect == SettingsSpec => []SettingsInv
BY SettingsStart, SettingsStep, PTL DEF SettingsSpec

(* A document that was saved with its role, and holds no redaction mark,   *)
(* is valid over the file too: a Coordinator's document has all its        *)
(* credentials.                                                            *)
LEMMA SavedApplicable ==
  ASSUME NEW d, SavedOk(d), Redacted \notin CredentialsOf(d), d.role # ""
  PROVE  Applicable(d, FileConfig)
<1> DEFINE a == Apply(d, FileConfig)
           c == ApplyEnvironment(a)
<1>0. FileConfig \in Configs /\ d \in Configs BY SettingsAssumption DEF SavedOk
<1>1. /\ a \in Configs /\ a.role = (IF d.role = "" THEN FileConfig.role ELSE d.role)
      /\ a.token = IF d.token \in Blank THEN FileConfig.token ELSE d.token
      /\ a.seeds = MergeNodeSeeds(FileConfig.seeds, d.seeds, Blank)
  BY <1>0, ApplyFields
<1>2. c = ApplyWebSettings(d, FileConfig) BY DEF ApplyWebSettings
<1> HIDE DEF a
<1>3. c.role = a.role /\ c.seeds = a.seeds /\ c.token = IF EnvToken = "" THEN a.token ELSE EnvToken
  BY <1>1, EnvironmentFields
<1>4. CASE d.role # "coordinator"
  BY <1>1, <1>2, <1>3, <1>4 DEF Applicable, Validate, a
<1>5. CASE d.role = "coordinator"
  <2>1. /\ d.token # "" /\ d.token # Redacted
        /\ \A p \in SeedsIn(d.seeds) : d.seeds[p][2] # "" /\ d.seeds[p][2] # Redacted
    BY <1>5 DEF SavedOk, Validate, CredentialsOf
  <2>2. FileConfig.seeds \in [Positions -> Seeds] /\ d.seeds \in [Positions -> Seeds]
    BY <1>0 DEF Configs
  <2>3. a.seeds = d.seeds /\ a.token = d.token
    BY <1>1, <2>1, <2>2, MergeComplete DEF Blank
  <2>4. c.seeds = d.seeds /\ c.token = d.token BY <1>3, <2>3 DEF SavedOk
  <2>5. Validate(a) /\ Validate(c) BY <1>1, <1>3, <2>3, <2>4 DEF SavedOk, Validate
  <2> QED BY <1>2, <2>5 DEF Applicable, a
<1> QED BY <1>4, <1>5

(* For any list of seeds, documents, history and interleaving with         *)
(* restarts, failed starts and crashes: saved settings are accepted by the *)
(* start, a restart runs what the last change answered with, and serves    *)
(* the appearance that was live; a stored blank role takes the file's.     *)
THEOREM SettingsSurviveRestartHolds == SettingsSpec => []SettingsSurviveRestart
<1>1. SettingsInv => SettingsSurviveRestart
  <2> SUFFICES ASSUME SettingsInv PROVE SettingsSurviveRestart OBVIOUS
  <2>1. /\ StoredConfig \in Configs /\ StoredConfig.ui = FileConfig.ui
        /\ StoredConfig.role = (IF answered.role = "" THEN FileConfig.role ELSE answered.role)
        /\ answered.token # Redacted => StoredConfig.token = answered.token
        /\ \A p \in Positions : StoredConfig.seeds[p] # NoSeed =>
             answered.seeds[p] # NoSeed /\ answered.seeds[p][1] = StoredConfig.seeds[p][1]
    BY StoredFields DEF SettingsInv
  <2>2. /\ Loaded.role = StoredConfig.role /\ Loaded.token = StoredConfig.token
        /\ Loaded.seeds = StoredConfig.seeds /\ Loaded.ui = Recorded
    BY <2>1 DEF Loaded, Recorded, Configs
  <2>3. RestartRunsAnswer BY <2>1, <2>2 DEF RestartRunsAnswer
  <2>4. AppearanceSurvivesRestart
    BY <2>2 DEF AppearanceSurvivesRestart, SettingsInv, AppearanceInv
  <2>5. SavedSettingsStart
    <3> SUFFICES ASSUME \A c \in settingsRow : Redacted \notin CredentialsOf(c) /\ c.role # "",
                        settingsRow # {}
                 PROVE  Applicable(The(settingsRow), FileConfig)
      BY DEF SavedSettingsStart, StoredApplicable
    <3>1. PICK d \in Configs : settingsRow = {d} /\ SavedOk(d)
      BY DEF SettingsInv, DocumentInv
    <3>2. The(settingsRow) = d BY <3>1 DEF The
    <3> QED BY <3>1, <3>2, SavedApplicable
  <2> QED BY <2>3, <2>4, <2>5 DEF SettingsSurviveRestart
<1> QED BY <1>1, SettingsCorrect, PTL

(* A credential is used for the URL it was entered for, whatever renames,  *)
(* rollbacks, imports, resets and restarts follow, and none reaches the    *)
(* history.                                                                *)
THEOREM CredentialsContainedHolds == SettingsSpec => []CredentialsContained
<1>1. SettingsInv => CredentialsContained
  <2> SUFFICES ASSUME SettingsInv PROVE CredentialsContained OBVIOUS
  <2>1. StoredConfig \in Configs /\ Vouched(StoredConfig.seeds, entered)
    BY StoredFields DEF SettingsInv
  <2>2. Loaded.seeds = StoredConfig.seeds BY <2>1 DEF Loaded, Configs
  <2>3. CredentialStaysWithURL
    BY <2>1, <2>2 DEF CredentialStaysWithURL, Vouched, SeedsIn, SettingsInv, CredentialInv
  <2>4. HistoryHoldsNoCredential
    <3> SUFFICES ASSUME NEW i \in 1..Len(history)
                 PROVE  CredentialsOf(history[i].settings) \subseteq Blank
      BY DEF HistoryHoldsNoCredential
    <3>1. history[i] \in Version BY DEF SettingsInv, CredentialInv
    <3> QED BY <3>1 DEF Version
  <2> QED BY <2>3, <2>4 DEF CredentialsContained
<1> QED BY <1>1, SettingsCorrect, PTL
=============================================================================
