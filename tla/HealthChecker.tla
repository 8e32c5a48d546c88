---------------------------- MODULE HealthChecker ----------------------------
(***************************************************************************)
(* The upstream health checker with the table of upstreams, the locations  *)
(* of the running Nginx and the active routing snapshot of the registry.   *)
(* The scheduler queues due repositories, workers probe the upstreams of   *)
(* the copy they were given, each through the location that Nginx has for  *)
(* its id, and write the result to the table and then to the snapshot.     *)
(* Meanwhile an operator replaces upstreams and enables or disables        *)
(* repositories, and an activation reloads Nginx and publishes what it     *)
(* read of the table some time before.                                     *)
(***************************************************************************)
EXTENDS Naturals, Sequences, FiniteSets, FiniteSetsExt

CONSTANTS
  Repos,          \* repositories, all with health checks
  Expects404,     \* those whose health_expected is 404
  FirstUpstreams, \* upstreams at the start: a function from ids to rows
  Priorities,
  Workers,        \* goroutines that check: those of Start, and requests
  QueueCapacity,  \* capacity of Checker.tasks (64)
  MaxServers      \* bound: upstreams ever configured

(* The table at the start: ids without a gap, nothing probed yet. *)
ASSUME HealthAssumption ==
  /\ Priorities \subseteq Nat /\ QueueCapacity \in Nat /\ MaxServers \in Nat
  /\ IsFiniteSet(DOMAIN FirstUpstreams)
  /\ DOMAIN FirstUpstreams = 1..Cardinality(DOMAIN FirstUpstreams)
  /\ FirstUpstreams \in [DOMAIN FirstUpstreams ->
                         [repo: Repos, url: Nat, priority: Nat, enabled: BOOLEAN,
                          status: {"unknown"}, from: {0}, by: Repos]]

VARIABLES
  upstreams,  \* the table: id -> row
  disabled,   \* repositories that the table has disabled
  servers,    \* number of servers ever configured: the url of a row
  snapshot,   \* Registry.value: id -> row
  paused,     \* repositories that the snapshot has disabled
  live,       \* locations /_health/ of the running Nginx: id -> server
  loading,    \* what an activation has read, and whether Nginx has it
  inFlight, tasks,
  worker      \* what every worker does

tableVars == <<upstreams, disabled, servers>>
activeVars == <<snapshot, paused, live, loading>>
healthVars == <<tableVars, activeVars, inFlight, tasks, worker>>

NoRows == <<>>
FreeWorker == [pc |-> "free"]
NoServer == 0
NoReading == [pc |-> "none"]
(* A row of the table; auxiliary: the server that answered the probe which *)
(* gave the status (from) and the repository it was made for (by).         *)
Row(repo, url, priority, enabled) ==
  [repo |-> repo, url |-> url, priority |-> priority, enabled |-> enabled,
   status |-> "unknown", from |-> NoServer, by |-> repo]
RowsOf(rows, repo) == {i \in DOMAIN rows : rows[i].repo = repo}
Usable(rows, repo) == {i \in RowsOf(rows, repo) : rows[i].enabled}
(* Of the copy of a repository a check uses its enabled upstreams. *)
Copy(rows, repo) == {<<i, rows[i].url>> : i \in Usable(rows, repo)}
(* What a configuration of these rows has a health location for: the       *)
(* enabled upstreams of the enabled repositories.                          *)
Locations(rows, off) ==
  [i \in {i \in DOMAIN rows : rows[i].enabled /\ rows[i].repo \notin off} |-> rows[i].url]

-----------------------------------------------------------------------------

(* The order of the table, by priority and id. *)
ByPriority(rows, i, j) ==
  rows[i].priority < rows[j].priority \/ (rows[i].priority = rows[j].priority /\ i < j)

(* orderedRepositoryUpstreams: enabled ones by status, then priority, then *)
(* the order of the table; here the one that comes first.                  *)
Rank(status) == CASE status = "healthy" -> 0 [] status = "unknown" -> 1 [] OTHER -> 2
Precedes(rows, i, j) ==
  \/ Rank(rows[i].status) < Rank(rows[j].status)
  \/ Rank(rows[i].status) = Rank(rows[j].status) /\ ByPriority(rows, i, j)
TriedFirst(rows, repo) ==
  CHOOSE i \in Usable(rows, repo) : \A j \in Usable(rows, repo) \ {i} : Precedes(rows, i, j)

(* activeRepositoryUpstream: the first of the enabled ones by priority     *)
(* that is healthy, else unknown, else unhealthy.                          *)
ActiveUpstream(rows, repo) ==
  LET With(status) == {i \in Usable(rows, repo) : rows[i].status = status}
      found == IF With("healthy") # {} THEN With("healthy")
               ELSE IF With("unknown") # {} THEN With("unknown") ELSE With("unhealthy")
  IN CHOOSE i \in found : \A j \in found \ {i} : ByPriority(rows, i, j)

-----------------------------------------------------------------------------

(* runDue for one enabled repository whose interval has passed.  When it   *)
(* is still in flight or the queue is full, it waits for the next one.     *)
RunDue(repo) ==
  /\ repo \notin paused
  /\ IF repo \in inFlight \/ Len(tasks) = QueueCapacity
     THEN UNCHANGED <<inFlight, tasks>>
     ELSE /\ inFlight' = inFlight \cup {repo}
          /\ tasks' = Append(tasks, [repo |-> repo, list |-> Copy(snapshot, repo)])
  /\ UNCHANGED <<tableVars, activeVars, worker>>

Checking(repo, list, queued) ==
  [pc |-> "check", queued |-> queued, repo |-> repo, todo |-> list, found |-> <<0, 0>>, status |-> "unknown"]

TakeTask(w) ==
  /\ worker[w].pc = "free" /\ tasks # <<>>
  /\ worker' = [worker EXCEPT ![w] = Checking(Head(tasks).repo, Head(tasks).list, TRUE)]
  /\ tasks' = Tail(tasks)
  /\ UNCHANGED <<tableVars, activeVars, inFlight>>

(* POST .../check: CheckMirror with the row of the table, also of a        *)
(* disabled repository, and without regard to inFlight.                    *)
CheckNow(w) ==
  /\ worker[w].pc = "free"
  /\ \E repo \in Repos : worker' = [worker EXCEPT ![w] = Checking(repo, Copy(upstreams, repo), FALSE)]
  /\ UNCHANGED <<tableVars, activeVars, inFlight, tasks>>

(* check asks Nginx for /_health/<repository>/<id>/: the server of that    *)
(* location answers, or nobody does.  Without the location Nginx itself    *)
(* answers 404.                                                            *)
Answer(repo, i) ==
  {<<"unhealthy", NoServer>>}
    \cup (IF i \in DOMAIN live THEN {<<"healthy", live[i]>>, <<"unhealthy", live[i]>>} ELSE {})
    \cup (IF i \notin DOMAIN live /\ repo \in Expects404 THEN {<<"healthy", NoServer>>} ELSE {})

(* The next upstream of the copy is probed. *)
Probe(w) ==
  /\ worker[w].pc = "check"
  /\ \E u \in worker[w].todo : \E a \in Answer(worker[w].repo, u[1]) :
       /\ \A v \in worker[w].todo : u[1] <= v[1]
       /\ worker' = [worker EXCEPT ![w].pc = "store", ![w].found = <<u[1], a[2]>>, ![w].status = a[1],
                                   ![w].todo = @ \ {u}]
  /\ UNCHANGED <<tableVars, activeVars, inFlight, tasks>>

(* A result is written to the row with the id of the upstream. *)
SetStatus(rows, w) ==
  IF worker[w].found[1] \in DOMAIN rows
  THEN [rows EXCEPT ![worker[w].found[1]].status = worker[w].status,
                    ![worker[w].found[1]].from = worker[w].found[2],
                    ![worker[w].found[1]].by = worker[w].repo]
  ELSE rows
Written(w) == worker' = [worker EXCEPT ![w].pc = "check", ![w].found = <<0, 0>>, ![w].status = "unknown"]

(* Store.UpdateUpstreamHealth; when it fails the snapshot is left alone. *)
StoreHealth(w) ==
  /\ worker[w].pc = "store"
  /\ \/ /\ upstreams' = SetStatus(upstreams, w)
        /\ worker' = [worker EXCEPT ![w].pc = "publish"]
     \/ Written(w) /\ UNCHANGED upstreams
  /\ UNCHANGED <<disabled, servers, activeVars, inFlight, tasks>>

(* Registry.UpdateUpstreamHealth, by the id of the upstream. *)
PublishHealth(w) ==
  /\ worker[w].pc = "publish"
  /\ snapshot' = SetStatus(snapshot, w)
  /\ Written(w)
  /\ UNCHANGED <<tableVars, paused, live, loading, inFlight, tasks>>

EndCheck(w) ==
  /\ worker[w].pc = "check" /\ worker[w].todo = {}
  /\ worker' = [worker EXCEPT ![w] = FreeWorker]
  /\ inFlight' = IF worker[w].queued THEN inFlight \ {worker[w].repo} ELSE inFlight
  /\ UNCHANGED <<tableVars, activeVars, tasks>>

-----------------------------------------------------------------------------
(* Mutant: the id of a deleted row is given again. *)
NewId_Reused(repo) == Min(RowsOf(upstreams, repo) \cup {servers + 1})

(* The id column is AUTOINCREMENT. *)
NewId(repo) == servers + 1

(* replaceUpstreams: the rows of the repository go, new ones come. *)
ReplaceUpstreams(repo) ==
  /\ servers < MaxServers /\ servers' = servers + 1
  /\ \E priority \in Priorities :
       upstreams' = [i \in (DOMAIN upstreams \ RowsOf(upstreams, repo)) \cup {NewId(repo)} |->
                       IF i = NewId(repo) THEN Row(repo, servers + 1, priority, TRUE) ELSE upstreams[i]]
  /\ UNCHANGED <<disabled, activeVars, inFlight, tasks, worker>>

(* SetMirrorEnabled. *)
SetMirrorEnabled(repo) ==
  /\ disabled' = IF repo \in disabled THEN disabled \ {repo} ELSE disabled \cup {repo}
  /\ UNCHANGED <<upstreams, servers, activeVars, inFlight, tasks, worker>>

(* An activation reads the repositories and then, one by one, their        *)
(* upstreams (ListMirrors), reloads Nginx with them and publishes them; or *)
(* it fails, and Nginx has the last configuration again.  The handler      *)
(* publishes the activated snapshot once more.                             *)
ReadMirrors ==
  /\ loading = NoReading
  /\ loading' = [pc |-> "read", off |-> disabled, rows |-> NoRows, left |-> Repos]
  /\ UNCHANGED <<tableVars, snapshot, paused, live, inFlight, tasks, worker>>

ReadUpstreams(repo) ==
  /\ loading.pc = "read" /\ repo \in loading.left
  /\ LET found == RowsOf(upstreams, repo)
         rows == [i \in DOMAIN loading.rows \cup found |->
                    IF i \in found THEN upstreams[i] ELSE loading.rows[i]]
     IN loading' = [pc |-> "read", off |-> loading.off, rows |-> rows, left |-> loading.left \ {repo}]
  /\ UNCHANGED <<tableVars, snapshot, paused, live, inFlight, tasks, worker>>

ReloadNginx ==
  /\ loading.pc = "read" /\ loading.left = {}
  /\ live' = Locations(loading.rows, loading.off)
  /\ loading' = [pc |-> "live", off |-> loading.off, rows |-> loading.rows, left |-> {}]
  /\ UNCHANGED <<tableVars, snapshot, paused, inFlight, tasks, worker>>

ReplaceSnapshot ==
  /\ loading.pc = "live" /\ snapshot' = loading.rows /\ paused' = loading.off
  /\ loading' \in {loading, NoReading}
  /\ UNCHANGED <<tableVars, live, inFlight, tasks, worker>>

ActivationFails ==
  /\ loading # NoReading /\ loading' = NoReading
  /\ live' = Locations(snapshot, paused)
  /\ UNCHANGED <<tableVars, snapshot, paused, inFlight, tasks, worker>>

HealthInit ==
  /\ upstreams = FirstUpstreams /\ snapshot = FirstUpstreams
  /\ disabled = {} /\ paused = {} /\ live = Locations(FirstUpstreams, {})
  /\ servers = Cardinality(DOMAIN FirstUpstreams)
  /\ loading = NoReading /\ inFlight = {} /\ tasks = <<>>
  /\ worker = [w \in Workers |-> FreeWorker]

HealthNext ==
  \/ \E repo \in Repos : RunDue(repo) \/ ReplaceUpstreams(repo) \/ SetMirrorEnabled(repo) \/ ReadUpstreams(repo)
  \/ \E w \in Workers : TakeTask(w) \/ CheckNow(w) \/ Probe(w) \/ StoreHealth(w) \/ PublishHealth(w) \/ EndCheck(w)
  \/ ReadMirrors \/ ReloadNginx \/ ReplaceSnapshot \/ ActivationFails

HealthSpec == HealthInit /\ [][HealthNext]_healthVars

-----------------------------------------------------------------------------
(* A repository is marked in flight exactly while it is queued or a worker *)
(* of the queue checks it, and then once: two scheduled checks never       *)
(* overlap, and none is lost for good (runDue, Start).  A check that an    *)
(* operator asks for is not marked and may overlap them (CheckMirror).     *)
InFlightExact ==
  LET Queued(repo) == {i \in DOMAIN tasks : tasks[i].repo = repo}
      Checked(repo) == {w \in Workers : /\ worker[w].pc # "free"
                                        /\ worker[w].queued /\ worker[w].repo = repo}
  IN \A repo \in Repos :
       Cardinality(Queued(repo)) + Cardinality(Checked(repo)) = IF repo \in inFlight THEN 1 ELSE 0

(* No status, in the table and in the snapshot, comes from another server  *)
(* than the one it stands by, although a check may end after its upstreams *)
(* were replaced (ids are never given twice); and an upstream is healthy   *)
(* only because its server answered, or, where 404 is what is expected,    *)
(* Nginx did.  An unhealthy one may not have been reached: Nginx has no    *)
(* location for a disabled or not yet activated repository.                *)
StatusWasProbed ==
  \A rows \in {upstreams, snapshot} : \A i \in DOMAIN rows :
    /\ rows[i].from \in {rows[i].url, NoServer}
    /\ rows[i].status = "healthy" =>
         rows[i].from = rows[i].url \/ rows[i].by \in Expects404

(* The upstream the keys are made for is the one that is tried first       *)
(* (activeRepositoryUpstream and orderedRepositoryUpstreams).              *)
ActiveIsFirst ==
  \A repo \in Repos :
    Usable(snapshot, repo) # {} => ActiveUpstream(snapshot, repo) = TriedFirst(snapshot, repo)

(* Concurrent checks, edits and activations leave statuses that are no     *)
(* other server's, one scheduled check of a repository at a time, and one  *)
(* idea of which upstream comes first.                                     *)
HealthSound == InFlightExact /\ StatusWasProbed /\ ActiveIsFirst

(* An upstream is marked unhealthy only when its server was asked.         *)
UnhealthyWasProbed ==
  \A rows \in {upstreams, snapshot} : \A i \in DOMAIN rows :
    rows[i].status = "unhealthy" => rows[i].from = rows[i].url
==============================================================================
