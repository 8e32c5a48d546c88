# MirrorRelay in TLA+

MirrorRelay is a reverse proxy for package repositories. One Go process keeps
repositories and settings in SQLite, generates the configuration of an Nginx
it manages, routes requests through it, and can act as the Coordinator of a
set of Edge nodes. This directory holds TLA+ models of the parts of that
program whose correctness depends on the order in which things happen, the
TLC runs that check them and TLAPS proofs of their main invariants.

Paths below are relative to `src/`.

## 1. Inventory

| Component | State | Operations | Interacts with | What is hard | What makes it correct |
|---|---|---|---|---|---|
| Managed Nginx controller (`internal/upstreamnginx/controller.go`) | `active`, status, `applyMu`, `mu`; `config_versions` rows; `versions/<hash>` directories and the `current` symlink | Reconcile, ApplyConfiguration, Rollback, Start, recoverLastActive, refresh | handlers call it, it calls the publisher callback back, signals Nginx | four places hold "the" configuration and every step between them can fail, crash or be cancelled | what is published was tested; after every failure Nginx, symlink, table, status and routing agree; the active version can be recovered; the desired configuration is eventually served |
| Nginx process (`internal/upstreamnginx/process.go`) | masters, PID file, `childPID`, restart times | activate, waitForManagedProcess, supervise, Stop | controller, `runProduct` | a slow master, a stale PID file, a shutdown in the middle of a restart | every exit is noticed; restarts are bounded and resume; Stop leaves no master |
| Administration handlers (`internal/api/admin_*.go`) | `mutationMu`, the SQLite tables | CRUD on repositories, fragments, nodes, settings; reload; rollback | write tables, call the controller, publish routing afterwards | the second publication runs outside `applyMu`, concurrent with refreshes | routing never falls behind the active configuration |
| Cluster synchronization (`internal/cluster/sync.go`, `state.go`, `api/cluster_sync_receiver.go`) | Coordinator epoch; Edge `edge_sync_state_v2`; node rows | SyncNode, BroadcastSync, applyClusterSync | HTTP between nodes; controller on both | late, lost and repeated requests, crashes between pending and applied, rebuilt Coordinators | no replay takes an Edge back; applied means active; acknowledged means applied; retries succeed |
| Cluster checker and router (`internal/cluster/checker.go`, `router.go`) | counters, node rows, routing snapshot | CheckNode, CheckAll, SetNodes, SelectNode, node CRUD | probes Edges; shares node rows with handlers and SyncNode | a probe started before an edit is written after it; a create or update request carries status fields of its own; two writers of the routing snapshot | a routable node has grounds for its status; the snapshot follows the table |
| Cache generations (`internal/cachectl`), purge broadcast | generation table and its copy in memory | purge global/repository/object, load, broadcast | handlers, proxy keys, Edges | a purge that fails half way, crashes between table and memory, lost answers of Edges | a key reported as purged is never used again |
| Warm-up engine (`internal/warmup`) | jobs, runs, schedules, worker pool | Start, Run, Cancel, Stop | proxy, database | cancel racing completion, restart with a run in progress | each run ends once; limits hold |
| Accounts and sessions (`internal/auth/session.go`, `api/admin_api.go`) | `users`, `sessions` | enrol, login, Get with renewal, logout, password, create, delete, recovery command | every handler | the session is read before `mutationMu` is taken; renewal racing revocation | a revoked session stays revoked; enrolment never reopens |
| Passkeys and recovery codes (`internal/auth/webauthn.go`, `api/admin_passkey.go`) | challenges in memory, `passkey_credentials`, `admin_recovery_codes` | options, verify, register, delete, codes, disable password login, reset | accounts | two sign-ins with one credential; checks and writes in separate statements | challenge, counter and code are accepted once; no account loses its last way in |
| Login limiter (`internal/auth/session.go`) | window per key | Acquire, release | login handlers | a release that meets a newer entry; the table at its limit | admissions of a window are bounded; an open window is never evicted |
| Settings (`internal/config/web_settings.go`, `api/admin_settings.go`) | stored document, history, appearance record and live value | update, import, rollback, reset, start | process restart, node seeds | a change validated over one base and loaded over another; redacted credentials | saved settings start; a restart runs what was answered; credentials stay with their URL |
| Webhook dispatcher (`internal/webhook`) | bounded queue, worker | Dispatch, Stop | handlers, HTTP | queue full, stop racing dispatch | in order, at most once, nothing after Stop |
| Statistics (`internal/stats`) | counters by hour, `stats_hourly` | Record, Flush, Load | requests, shutdown | flush racing counting, two flushes at shutdown, crash | nothing counted twice; what was saved is kept |
| Log rotation (`internal/upstreamnginx/log_rotation.go`) | log files, `pendingReopen` | rename, clean, reopen | Nginx | rotation without reopen | a noted reopen is retried |
| Proxy engine (`internal/proxy`) | limiter, validators, requests | ServeHTTP, failover, redirects, rewriting, token requests | registry, Nginx, upstreams | a purge between the key and the answer; redirects across origins; every exit must release its slots | a purge is honoured; credentials and blocked packages stay where they belong; limits hold |
| Upstream health (`internal/health`) | queue, in-flight set, table and snapshot | runDue, CheckMirror | registry, proxy order | a probe goes through the running Nginx, whose locations change under it; a result after a configuration change; queue at its limit | a status comes from no other server, and "healthy" only from an answer |
| Registry (`internal/mirror`) and dispatch (`api/server.go`, `api/public_handlers.go`) | routing snapshot | Handler, publicHandler, Replace, Route, conflict rules | everything | what the process answers itself before the registry is asked; host, path and base-path lookups; settings that change at a restart | a route is unique; reserved paths are not routed; public addresses work |
| Text generation, browser pages, help, web UI, certificates | none of interest | pure functions | | | not modelled |

Hazards found on the way are in `PROJECT.json` ("hazards"), each at its line.

## 2. Plan

1. `NginxController`: the configuration lifecycle with its callers, and `ActiveConfiguration`, what it promises. **Done**, with proofs.
2. `ClusterSync`: Coordinator, network and Edge receiver. **Done**, with proofs.
3. `ClusterRouting`: node rows, checker, routing snapshot, node administration. **Done**, with proofs; the choice `SelectNode` makes among several candidates is left.
4. `Warmup`: jobs, runs, cron loop, shutdown. **Done**, with proofs.
5. `NginxProcess`: masters, PID file, supervisor, restart window, Stop. **Done**, with proofs.
6. `Accounts`, `Passkeys`, `LoginLimiter`, composed in `MCAccounts`. **Done**, with proofs.
7. `Settings`, `CacheGenerations`, `AlertFeed` and `Webhook`, `Statistics`, `LogRotation`, composed in `MCServices`. **Done**, with proofs.
8. `RequestLimiter`, `MetadataValidators`, `ProxyEngine`, `RedirectChain`, `HealthChecker`, `RepositoryRoutes`, composed in `MCProxy`. **Done**, with proofs.
9. Theorems for every safety property of the runs. **Done**: what remains model-checked only is liveness.
10. Left: the weighted choice of `SelectNode`.

## 3. Modules

### ActiveConfiguration and NginxController

A configuration is a pair (repository table, fragment table); its hash is the
configuration itself. State mirrors the code: SQLite (`desired`, `rows`,
`dbActive`, `expected`), the prefix directory (`dirs`, `current`), the Nginx
master (`master`, `loaded`, `signal`), memory (`phase`, `active`,
`curVersion`, `registry`), the holder of `applyMu` (`owner`, `op`, `pc`, and
its locals) and one administration request (`mutationMu` admits one). Every
store call, file operation and command of `reconcileLocked`,
`ApplyConfiguration`, `Rollback`, `Start` and `recoverLastActive` is a step
of its own, so other goroutines run and the process may crash between any
two. Validation in a handler followed by its table write is one step: nothing
else writes that table while `mutationMu` is held, and a failed validation
changes nothing. `Store.ListMirrors` is several queries without a transaction,
so the repository table has two halves, the rows of `mirrors` and their
upstreams, which `ListMirrors` and `ListUpstreams` read in separate steps; a
request may write both between them, and the next request waits for `applyMu`.

Assumed: a launched Nginx is live within the five seconds `activate` waits or
has exited (`NginxProcess` drops this); a reload signal makes the master load
what `current` names when it handles the signal; Nginx survives a crash of
MirrorRelay.

`ActiveConfiguration` is what all this amounts to for the rest of the program:
configurations are proposed, one is committed at a time under a higher version
(a proposed one, or what a reader sees that reads around one proposal),
memory shows the committed one or nothing, requests are routed by what is shown,
and a crash forgets memory only. `ImplementsActiveConfiguration` maps the row
marked active to the commit, `active` to what is shown and `registry` to what
is routed by. The version in the status is not part of it, because it is set
in a critical section of its own (`sync_torn`), nor is what Nginx runs, because
a candidate is tried in Nginx before it is committed (`ServesActive`).

### NginxProcess

The process side of "managed" mode. A master is booting, up, quitting or
gone; it writes its PID file when it comes up and may die at any moment,
leaving the file. `activate` runs under `applyMu` on behalf of an apply or of
the supervisor and is split where it releases `mu`, starts the process,
records `childPID`, spawns the waiter and polls. The supervisor's tick, its
count of recent failures, its backoff and its lock are separate steps, and
`Stop`, which takes no lock, runs against all of them. Restart times are kept
as ages, so the clock needs no bound.

### ClusterSync

One Coordinator, one Edge (Edges share nothing), and slots for requests. The
client may give up on a request that the Edge still executes, so a request
may run late, after newer ones or under a Coordinator rebuilt with a new
random epoch. The controllers of both nodes are reduced to desired, active and
last recorded configuration; that reduction is what `NginxController` proves
(`ServesActive`, `StatusNamesActive`, `ActiveRecoverable`). The fingerprint
of a configuration is the configuration. `EdgeLocalEdit` and `EdgeRefresh`
stand for everything else that changes the Edge.

### ClusterRouting

The Coordinator's `cluster_nodes` table, the checker's counters and the
router's snapshot, with two processes that run the same code: the scan of
the timer and the one handler `mutationMu` admits. A process holds the copy of
a row it read (`node`), fetches the manifest, then the health, writes the
status back by id, and ends by listing the table and replacing the snapshot;
each of these is a step. `SyncNode` is reduced to its outcome, which
`ClusterSync` justifies. The Edge is a URL with a manifest, a reachability and
one repository. `createClusterNode` and `clusterNodeAction` decode the whole
`model.ClusterNode`, so a request brings status, fingerprint and repository
health of its own (`Bodies`): the insert stores them, and an update hands them
to the probe that follows. `grounds` collects what probes found and what
requests claimed. Ids are never reused (`AUTOINCREMENT`). The workers of one
scan treat different rows, so their order does not matter and they run one
after the other.

### Warmup

The `warmup_jobs` table, the engine (`activeJobs`, `downloadSlots`, whether
`runCtx` is cancelled), the cron loop, the one handler `mutationMu` admits and
the executions of `executeJob`. A run is a record with its step, its context
and its counters; each store call, slot and download is a step, so cancels,
the deadline, ticks, edits, deletes, shutdown and crashes fall between any
two. A create request brings a status and counters of its own, which the insert
stores (`Bodies`); `by` tells them from what a run wrote.
Times are reduced to whether `next_run_at` is unset, later than now or
due (`TimePasses`). A download is the whole of `fetchAndWarm` with its
retries: it ends once, in success or failure, and only a dead context forces
it to end. Every job has a repository of its own, whose deletion deletes the
job's row by the foreign key. The branch of `executeJob` for an empty target
list is left out because the expansion never returns one without an error;
an engine that is disabled in the settings does a subset of these steps.

### Accounts, Passkeys, LoginLimiter

`Accounts` has the `users` and `sessions` tables and two requests. A request
looks its session up, possibly renews it, waits for `mutationMu` and runs its
operation; a login takes no lock. One SQL statement or transaction is one
step, so deletions, password changes and the local recovery command fall
between a handler's check and its write. Time left in a session is long,
short (it will be renewed) or none.

`Passkeys` has the challenges in memory, the credential and recovery-code
tables and two sign-ins against one signed-in handler. What WebAuthn verifies
is a record of facts (which challenge, which credential, which counter, well
formed, signed); the authenticator may present any counter.

`LoginLimiter` translates `Acquire` and the release function it returns, which
reports to whatever entry the key has by then.

### Settings

Handlers run one at a time under `mutationMu`, so each is one step, except
that the appearance is published after the commit. A configuration keeps one
field of every kind the code treats differently: an operational value, a
credential, the seed list with a credential each, and the appearance.
`Restart` loads the stored document over the file and the environment, and
writes the node seeds to `cluster_nodes`; `RestartFails` is the start that
refuses the document, or that the table stops after some of the seeds, and
leaves no process (`process`). A document with a blank role, which an import
may store, keeps the role of the file.

### CacheGenerations

Table and memory of the Coordinator and of one Edge. A purge commits, reads
back and publishes in separate steps, then is broadcast; requests to an Edge
may be lost before or after the Edge executed them, and either node may crash
anywhere. `promised` collects the keys whose purge a caller was told of.

### AlertFeed and Webhook

`AlertFeed` is what the dispatcher promises: alerts arrive in the order of
their acceptance, at most once, none after the feed is closed, and may be
lost. `Webhook` is the code: `Dispatch` reads `stopped` under the lock and
sends after giving it back; the worker may choose the queue although the stop
channel is closed; a POST may arrive and still end in an error, after which
the alert is dropped. `ImplementsAlertFeed` maps the alert in the worker's
hands followed by the queue to `pending`, and the return of `Stop` to
`closed`.

### Statistics, LogRotation

`Statistics` counts by hour and repository in memory; the ticker and the
shutdown flush the same counters, each reading under the lock and saving
outside it. `LogRotation` renames the two logs in order, cleans up and tells
Nginx to reopen, with a failure possible at each.

### RequestLimiter, MetadataValidators, ProxyEngine

`ProxyEngine` follows `ServeHTTP` from the limiter to `finishRequest`: local
304 from a validator, hand-over to Nginx, failover over the candidates,
redirects, processing and copying of the response, and every error exit. Three
requests run concurrently with purges. What a body holds is abstracted to the
generation at which it was read from the origin; a cache key is repository,
source and generation. A purge of a repository or of everything
(`PurgeContent`) raises the generations of all its keys, one of an object
(`PurgeObject`) those of the active upstream only: keys of a failover, of an
adapter target or of an auxiliary resource stay. The limiter and the validator
store are modules of their own that it extends.

### RedirectChain

One request and what `followRedirects` does with whatever the origins answer.
URLs are an origin and a sequence of segments, so that nested base URLs and
package rules are compared as the code compares them. `bases` are the upstreams
the route leaves in the repository: all of them, or the one an auxiliary URL
was signed for.

### HealthChecker

The scheduler, the bounded queue, the workers and request-driven checks.
A worker probes the copy it was given, writes the table and then the
snapshot, while an operator replaces upstreams, disables and enables
repositories, and an activation reads the table in several steps, reloads Nginx
and publishes what it read. A probe asks the running Nginx for the location of
its upstream: what answers is the server of that location, or Nginx itself
with 404 when the repository is disabled or not activated yet.

### RepositoryRoutes

The conflict rules, the routing snapshot, the learned token endpoint of a
registry, and `Dispatch`: `Handler` and `publicHandler` with the paths the
process answers itself on every host, then `Route`, whose result is a
repository and the rest of the path. A restart may find other settings
(`Layouts`) and recovers the last active repositories. A path is a sequence of
segments, so an address with and without its last slash is one, and the
redirects between the two are left out; so is the redirect of a Coordinator to
an Edge, which comes after the pages and before the registry and keeps the
path.

### Composition for TLC

`MCAccounts`, `MCServices` and `MCProxy` each check several modules in one
run. Their modules share no variables; where one uses what another produces
(the order of upstreams, a redirect, a generation), it takes an arbitrary
value. A variable `focus` chooses the module whose actions a behaviour takes,
which makes the state space the sum of theirs and not the product, and
excludes nothing a property of one of them could see.
`ProxyEngine` with its limiter and validators, and `CacheGenerations` with both
nodes, are true compositions.

## 4. Runs

| Run | Expect | Shows |
|---|---|---|
| `controller` | pass | managed Nginx, one failure anywhere, two operator requests, a refresh, pruning: published configurations were tested (`PublishedTested`); Nginx, symlink and table agree (`ServesActive`), so do status and routing (`MemoryFollowsActive`); the active version can be recovered and a recorded snapshot mixes at most the rows and the upstreams of one repository edit (`VersionTableSound`); what is committed was proposed up to that, and memory and routing follow it (`ImplementsActiveConfiguration`); the desired configuration is eventually served (`Converges`) |
| `controller_external` | pass | `ServesActive` when MirrorRelay cannot start Nginx, with two failures |
| `sync_safety` | pass | replay defence, idempotence, acknowledgements, applied means active |
| `sync_live` | pass | retried synchronization succeeds |
| `sync_torn` | violation | a payload pairs an old configuration with the new generation |
| `routing` | pass | a routable node was confirmed by a probe, or a request claimed its status (`RoutableHasGrounds`); dead Edges lose their traffic; the snapshot settles on the table |
| `warmup` | pass | one run per job; Stop leaves none; the statuses and counters runs leave and the slots are truthful (`RunsAccounted`); runs end, scheduled jobs keep running, disabled and deleted ones stop (`RunsStop`) |
| `process` | pass | restarts are bounded in every window and resume after it; Stop leaves no master unless one was being started |
| `accounts` | pass | revoked sessions stay revoked; enrolment never reopens and sessions match users (`AccountsSound`); a challenge, a counter and a recovery code are accepted once (`OneTimeCredentials`); no account loses its last way in (`NoLockout`); failures admitted per window are bounded (`AdmissionsBounded`) |
| `services` | pass | saved settings start and a restart runs what was answered (`SettingsSurviveRestart`); credentials stay with their URL and out of the history (`CredentialsContained`); purged keys stay purged on both nodes; the dispatcher implements `AlertFeed`; nothing is counted twice; a noted reopen is retried |
| `settings_redacted` | violation | the redaction mark is stored as a credential |
| `proxy` | pass | a purge is honoured, for the keys it covers, by requests that began after it; an error means that every candidate failed; slots and validators are bounded and released (`ResourcesBounded`); redirects keep credentials at home, blocked packages unfetched and end (`RedirectsKeepPolicy`); no health status comes from another server and one scheduled check of a repository runs at a time (`HealthSound`); over the whole dispatch routes are unique, reserved paths go to no repository, public addresses work unless hidden in one of the listed ways, tokens go to the configured registry (`RoutesSound`) |

Where a property is a conjunction, its parts are defined and commented one by
one above it in the same module; to see which part fails, name the parts in
the cfg. The type invariants are not repeated in the cfgs: those of
`NginxController`, `ClusterSync`, `ClusterRouting`, `Warmup`, `NginxProcess`,
`Webhook` and `ProxyEngine` are proved, the others can be added by name.
`VersionsOnlyGrow`,
`ActiveVersionMonotonic` and `GenerationMonotonic` are proved and have no run.

The violations are described under "findings" in `PROJECT.json`, with the
sentence of the repository each contradicts.

### Bounds

`MaxVersion` bounds version numbers and is chosen above what the requests,
refreshes and restarts of a run can produce, except in `controller_external`,
where it stops behaviours that would go on for ever (hence `CHECK_DEADLOCK
FALSE` there). `HistoryLimit` is 1 or 2, so that pruning happens. `MaxFaults`,
`MaxEvents`, `MaxChanges` and `MaxWork` are budgets: a failure or a request may
come at any step, but only so often; `controller_external` allows two failures,
which a crash followed by a failing start, and so `recoverLastActive`, takes.
Disabled mode has no run; the theorems about the controller hold for every
`Mode`, except the refinement, whose premise excludes it.

`ClusterRouting` needs thresholds of two (one makes streaks trivial) and two
URLs (an edit changes the URL); its run has one id, since rows do not influence
each other, and the theorems cover any number. Two epochs are not enough for
`sync_safety`: a retired list that keeps only the last epoch is told apart by
three. `sync_live` has no configuration changes: with them a torn payload, the
violation of `sync_torn`, can occupy the generation that every retry sends.
`warmup` has one job, two slots for runs (the second would be the duplicate),
one download slot that extraction and downloads compete for, two targets, one
operator request and one crash, shutdown or store error.

`process` has two pids (an old master and a new one) and a restart limit of
one in a window of two ticks, so that the limit is reached, the window
passes and restarts resume. `accounts` has two users, two tokens and two
concurrent requests; two challenges with room for one, so the eviction of
expired ones happens; three keys in a limiter with room for two, where
capacity eviction meets open windows. `services` has two URLs and two list
positions (a credential may follow either), four changes with a history of
two (enough to roll back to a pruned neighbour), two upstreams and three
purges, four alerts with a queue of two (full while the worker holds one),
three hours with a retention of one. `proxy` has three requests with two slots
overall and one per address (each limit refuses a request of its own), one
validator entry (so it is evicted), two generations (one purge), one order of two
upstreams, two hops, a health queue of one, two workers and at most three
operations of the health part (`MaxOperations`: checks asked for or queued,
activations, edits, disablings), and six repository rows under two layouts of
hosts and base paths, among them one at `/help` and one below `/metrics`.
Token requests, more purges and other orders are left to the theorems.
The bodies of `routing` and `warmup` are a blank one and one that claims a
status; `controller` reads two rows of mirrors and two of upstreams.

`CHECK_DEADLOCK FALSE` stands where requests, purges or alerts are simply used
up and the process then has nothing to do.

### Fairness

The holder of `applyMu` continues; the refresh timer, the supervisor and the
service manager of an external Nginx fire; Nginx handles signals; a process
that exits is started again. In `ClusterSync` clients time out, the receiver
continues and a dead Edge is restarted. In `ClusterRouting` the timer fires and
each process finishes what it began. In `Warmup` a run proceeds, its deadline
comes (`context.WithTimeout`), requests with a dead context return, the ticker
fires and time passes, and a shutdown goes on to its end; a hanging upstream
owes nothing. In `NginxProcess` an activation, the waiter of a process, a
failed apply and the supervisor proceed and the clock runs; the supervisor's
`applyMu.Lock` is strongly fair, because a `sync.Mutex` hands over to a waiter
that was passed over, while neither Nginx nor the operator owes anything.
Operators are never assumed to act: `RetriesSucceed` has their repeated
request as its premise.

## 5. Proofs

Eight modules prove every safety property that a passing run checks, for every
set of configurations, epochs, calls, nodes, jobs, runs, accounts, alerts,
requests, upstreams and so on, and for every limit and bound. Few of these
properties are inductive; what each needed besides itself is the argument why
the code is right, and is summarised here.

### NginxControllerProofs, ClusterSyncProofs, ClusterRoutingProofs

The inductive invariant of the controller is a stack: types with
`LockDiscipline` (who may be at which step), `TestedInv`, `RecordInv` (the
row being activated exists and is the highest), `ServeInv` (while the symlink
is ahead of the active configuration, `prev` is the way back), `StatusInv`,
`DesiredInv` (what was read of the tables is still there, is the state
before one pending request's write, or is the mirrors before and the upstreams
after it) and `RoutingInv`. Each layer is proved
inductive with the layers below as hypotheses. From them
`ImplementsActiveConfigurationHolds` follows step by step: version numbers are
unique, so the mapped commit is one row that pruning keeps (`RecordInv`), what
is committed was desired or was read around one proposal (`DesiredInv`), what is shown is the row of
the commit, and what a handler read of the active configuration before it
replaced the routing table is still active then (`RoutingInv`). Its premise is a
mode other than "disabled": there, a start shows the tables without committing
them.

The invariant of `ClusterSync` is such a stack too, with `SlotInv`,
`ReceiverInv`, `ReplayInv`, `AckInv` and, for a Coordinator whose starts record
a version, `GenerationInv`.

`ClusterRoutingProofs` needs `WorkInv` (which steps hold a node and a manifest)
for the types and `CopiesSound` for `RoutableHasGrounds`: the property is about
the router only, but the router is replaced by lists, lists by rows and rows
by copies in flight, so all of these carry it.

### WarmupProofs

The types, `ProcInv` (the cron loop and a handler that are about to register
hold a job), `RunInv` (a run in progress has a job, a free slot is blank) and
`MapInv` form one invariant, `Base`. `OneRunPerJob` alone is not inductive:
that no second run begins follows from `activeJobs` being empty for the job, so
`MapInv` adds the converse, that `activeJobs` names only runs in progress.
`StopWaits` is inductive on top of `Base`.

`RunsAccounted` needs three more layers. `CountInv`: every target of a run is
waiting, in flight or settled as a success or a failure. `SlotInv`: the slots
taken are as many as the pairs of a run and one of its requests in flight; the
finiteness of that set is part of the invariant, and every step of a run is
first shown to add one pair, remove one or leave them as they are.
`RunningInv`: a row in which a run wrote "running" is that of a job whose run is
between its first and its last write, or whose last write was lost.

### NginxProcessProofs

`StopLeavesNoMaster` rests on the holder of `applyMu` (`ProcessTypeOK` and
`HeldOK`), on `SocketsNamed` (a master that is up or quitting is the one the
PID file names) and on `NothingStarts` (if nothing was being started when the
context was cancelled, nothing is booting and nothing waits to start one).
`RestartsBounded` compares the restarts made with the failures the supervisor remembers: `FailuresFollow` says that every
restart but the last was followed by a failure no older than it, `OldestFirst`
that failures are remembered in order, so that dropping the old ones drops
a prefix, and `InWindow` that the restarts counted lie in the window.

### AccountsProofs

`AccountsSound` needs `TablesInv` (ids and tokens are fresh), `LockInv` (the
holder of `mutationMu` is one), `OthersRemain` (a deletion under it leaves
somebody) and `DeadStaysDead` (a token that was dead when a request came is
never a session again), which is also why `RevokedStaysRevoked` holds.
`OneTimeCredentials` needs `SpentOnce` and `GrantedOnce` for challenges,
`CountersInv` (the row of a registration is never behind a counter that was
accepted for it) and `CodesInv`. `AdmissionsBounded` bounds what an entry of
the login limiter admits in its window, while the code bounds failures and
attempts in flight one by one; `AdmittedAccounted` relates the two: what an
entry admitted is in flight or was recorded as a failure.

### ServicesProofs

`ImplementsAlertFeedHolds` maps every step of the dispatcher to a step of the
feed or to a stutter. It needs `WorkerInv`: outside a POST the worker holds no
alert, and once `Stop` has returned the worker has left, so no alert arrives
at a closed feed. `ReopenPending` needs `RotationInv`, which says
where between a rename and the end of the task the reopen may still be noted
only in a local variable; `CountedOnce` needs `CountsInv`, which bounds what a
flush holds between its read and its save as well.
`PurgedStaysPurged` needs `CacheInv`: for every node, memory is never ahead of
the table, a purge that is about to publish has passed its keys in the table, one
that is being broadcast has passed them in memory, and so has every key a
caller was told of.

For the settings, `DocumentInv` says that the stored document is the last
answer, complete and valid, with the environment's token where there is one;
`AppearanceInv` relates the record, the value served and the publication still
due; `CredentialInv` says that every credential of the document and of the
node rows was entered for the URL it stands beside, and that the history has
none.

### ProxyProofs

`ProxyInv` relates generations: a cached body or a validator is at least as new
as the generation of its key, and the key of a request lies between the
generation at its beginning and the present one. Every step of a request is
then shown to have one of four effects (it enters, continues, settles or
leaves), and the invariants of the limiter, the validators and the records
follow from the effects alone. `RedirectsKeepPolicy` needs `ChainInv` (the
credentials travel only while every hop so far stayed at home, and what is to
be fetched was compared with the rules), `RoutesSound` needs `RoutesInv` (the
published table passed the conflict rules under the settings it was generated
with; the rest is about sequences: two paths above one path overlap, and what
lies below a base path), `HealthSound` needs `HealthTables` (wherever an id
appears, in the table, the snapshot, a list being activated, the live locations
or a copy being probed, it stands for one server, and a status that was written
has its grounds) and `FlightInv` (a repository is in flight exactly when one queued task
or one worker has it).

### Assumptions

They are named where the constants are declared, and the modules of the runs
extend those modules, so TLC evaluates them. Most say that a bound is a
number or that a sentinel is not a value. The others are facts of the code:

- `BoundsAssumption`, `ProcessAssumption`: limits whose zero the validation of
  the configuration refuses (`internal/config/validate.go:188`).
- `ThresholdAssumption`: the checker replaces a threshold that is not positive
  (`internal/cluster/checker.go:276`).
- `ProxyAssumption`: a request that is accepted has a candidate; without an
  enabled upstream `ServeHTTP` refuses it and releases its slots
  (`internal/proxy/engine.go:169`).
- `RedirectAssumption`: no package rule is empty, since `compilePackagePatterns`
  refuses them (`internal/mirror/registry.go:572`).
- `RoutesAssumption`: row ids begin at 1, a repository is in path or in host
  mode, "elsewhere" stands for hosts that neither a repository nor the
  administration has, the administration host is not the shared one, and the
  base path does not begin with a path of the process
  (`internal/config/validate.go:95`, `internal/config/config.go:193`).
- `HealthAssumption`, `PasskeysAssumption`: the rows a run begins with have
  consecutive ids, and the upstreams no health yet, as after a first start.
- `SettingsAssumption`: the positions of a list are 1 to n, and the documents
  that come with the file, an import or a request are well formed.

Definitions that compute over a sequence are written without recursion, by what
picks the result out (`LastOut` and `Within` for the restart window, `Compact`
and `NewSlot` for the order of validators, `TriedFirst` for the candidates), so
that the properties of the result can be proved. Where an argument is
an induction over positions, the least-number principle (the well-founded order
of the naturals, applied to a set) takes its place.

### Model-checked only

Liveness (`Converges`, `RetriesSucceed`, `DeadEdgeUnrouted`,
`RouterFollowsTable`, `RunsStop`, `ScheduledJobsRun`, `RestartsResume`), because
TLAPS does not reason about fairness; and the two violations, which are
behaviours TLC finds.

## 6. Not modelled

- Text and formats: the generator of the Nginx configuration, the rewriting
  of HTML and metadata, cron expressions, the rendering of help pages, the
  directory browser and the web user interface. They are functions of
  their input without state; what matters to others of their result (a
  configuration is valid or not, a body was rewritten or failed) is a choice.
- Cryptography: password hashes, WebAuthn signatures, certificates, credential
  encryption. A verification is a fact that holds or not.
- The `config_state` column, the audit log and the messages of handlers; the
  cache reclaimer, which deletes files that no key names any more.
- The weighted choice of `SelectNode` among several candidates, which keeps no
  state that a property here depends on.
- The components marked `not_modelled` in `PROJECT.json`, with the reason.

### Disagreements without a run of their own

Each was seen while translating. Where a property is named, it is defined in
the module, does not hold, and TLC produces the behaviour when the name is put
under `INVARIANTS` or `PROPERTIES` of the run's cfg.

Controller and process:

- The undo of `ApplyConfiguration` uses the request's context
  (`internal/upstreamnginx/controller.go:271`), cancelled when the client left,
  although the comment at `:247` says the desired configuration is restored:
  `ApplyFailureRestoresDesired`.
- An older manifest overwrites the expected one
  (`internal/api/server.go:264`); compare `docs/distributed.md:72`:
  `ExpectedIsActive`.
- A refresh that reads the upstreams after an edit whose mirror row it read
  before records and publishes a configuration nobody asked for
  (`internal/database/mirrors.go:22`, `:39`) until the edit's own reconcile
  follows; compare `docs/configuration.md:100`: `SnapshotWasDesired`.
- A start under way when the shutdown cancels it outlives `Stop`
  (`internal/upstreamnginx/process.go:109`), and a master that comes up after
  the five seconds leaves the status "failed" (`:106`). The window allows one
  restart more than the configured maximum; `RestartsBounded` states the
  bound the code keeps.
- A rename that succeeded before a later step failed is forgotten, so Nginx
  writes on into the rotated file (`internal/upstreamnginx/log_rotation.go:20`);
  compare `docs/configuration.md:201`: `RotationFollowedByReopen`.
- A start with changed settings recovers a snapshot that was rendered under the
  old administration path (`internal/upstreamnginx/controller.go:336`).
- `SetMirrorEnabled` leaves `config_state` unchanged.

Cluster:

- A delayed request of an epoch the Edge has not seen retires the current epoch
  (`internal/api/cluster_sync_receiver.go:127`); compare
  `docs/distributed.md:167`: `CurrentEpochNotRetired`.
- A node that a create request describes as healthy and matching is routable
  before any probe or synchronization (`internal/api/admin_cluster.go:171`,
  `internal/database/cluster.go:106`); compare `docs/distributed.md:171`:
  `ConfirmedByProbe`.
- A new URL is routable on probes of the old one
  (`internal/database/cluster.go:155`); compare `docs/distributed.md:171`:
  `ConfirmedAtUrl`.
- In disabled mode a restart forgets the generation, and
  `clusterSyncPayload` sends generation 1 again (`internal/api/admin_cluster.go:457`),
  while `docs/distributed.md:182` calls the generation monotonic. The theorem
  `GenerationMonotonicHolds` therefore has a Coordinator in another mode as
  its premise.
- A list that a scan read before a node was deleted may be published after
  the delete's refresh (`internal/cluster/checker.go:373`) and keeps the node
  routable until the next scan; `RouterFollowsTable` says it goes then.
- `recordSuccess` compares the status in a copy of the row read before the
  probe (`internal/cluster/checker.go:286`), so a node another process marked
  unhealthy meanwhile recovers without the streak of
  `docs/configuration.md:271`.
- Nothing calls `BroadcastSync` on a timer (`internal/cluster/sync.go:172`),
  while scheduled refreshes raise the generation; compare
  `docs/distributed.md:177`. `SelectNode` does not read the routing mode that
  the documentation calls strict.

Warm-up and statistics:

- The write at the end of a run, and a tick's, store a `next_run_at` computed
  from the expression read before an edit (`internal/warmup/engine.go:415`,
  `:301`).
- A job that is created with the status "running" says so until its first run,
  and no run is there (`internal/database/warmup.go:119`); compare
  `docs/configuration.md:151`: `StatusWasRun`.
- A cancel that lands before the "running" write leaves `next_run_at` due, so
  the next tick starts the job again (`internal/warmup/engine.go:326`).
- At shutdown the loop of `StartPersistence` and `runProduct` both flush
  (`internal/stats/stats.go:161`) in no order, so older counts may be saved
  last; `CountedOnce` says that nothing is counted twice, not that the last
  requests are kept.

Settings:

- An import with a blank role is validated without one
  (`internal/config/validate.go:233`), and the start, which keeps the role of
  the file (`internal/config/web_settings.go:622`), may refuse what was saved;
  compare `docs/configuration.md:38`: `BlankRoleStarts`.

Accounts:

- The session is read before `mutationMu` is taken, so a request of an account
  deleted meanwhile still runs (`internal/api/admin_api.go:105`).
- A login that verified the old password creates its session after the
  password change deleted the others (`internal/api/admin_api.go:676`).
- A transient error of `GetSession` deletes the session
  (`internal/auth/session.go:104`).

Requests:

- An object purge covers one upstream's key (`internal/api/admin_mirrors.go:403`);
  compare `docs/web-ui.md:119`: `PathPurged`.
- The order list of the validators keeps a duplicate for every entry that
  expired and came back, which its compaction does not remove, so it outgrows
  the bounded map (`internal/proxy/metadata.go:58`); compare `docs/configuration.md:132`:
  `OrderBounded`.
- The body of the last candidate is closed before it is copied when it is a
  gateway error, and `finishRequest` is skipped
  (`internal/proxy/transport.go:67`); compare `docs/web-ui.md:70`:
  `FailureRecorded`.
- An older observation of a validator may overwrite a newer one.
- A health queue that stays full starves the mirrors at its end
  (`internal/health/checker.go:131`), and `Replace` publishes a health status
  read before a newer probe (`internal/mirror/registry.go:71`).
- Two base-path rules may match one request, and the first of the map decides.
- The hops of a redirect reuse the cache key of the first request.
- A request for an auxiliary resource may take the zero-copy hand-over, which
  names the location of the repository (`internal/proxy/engine.go:264`).
- With the bases narrowed to one, a redirect of an auxiliary request reaches
  what a rule names under another, overlapping base
  (`internal/proxy/route.go:125`); compare the comment at `:73`:
  `BlockedUnderEveryBase`.
- A check of a disabled or not yet activated repository stores "unhealthy" (or
  "healthy", where 404 is expected) for a server that was not asked
  (`internal/health/checker.go:174`); compare `docs/web-ui.md:163`:
  `UnhealthyWasProbed`. A requested check may also overlap a scheduled one
  (`internal/api/admin_mirrors.go:242`).
- A repository at `/help/`, `/ui/icons/` or below a cluster path is accepted
  and never reached (`internal/api/public_handlers.go:69`), nor is one whose
  path continues the base path where the process answers; a base path of
  `/metrics` is accepted: `AcceptedIsReached`.
