--------------------------- MODULE NginxController ---------------------------
(***************************************************************************)
(* The configuration lifecycle of the Managed Upstream Nginx controller    *)
(* (internal/upstreamnginx/controller.go and the activation half of        *)
(* process.go) together with the callers that drive it: the                *)
(* administration handlers, the scheduled DNS refresh, the supervisor,     *)
(* start-up with its recovery path, and process crashes.                   *)
(*                                                                         *)
(* A configuration is the repositories (m) and the custom fragments (c);   *)
(* the repositories are two tables, mirrors and upstreams, which one       *)
(* transaction writes and two queries read.  The hash that names a         *)
(* versions/ directory is the configuration itself.  The holder of applyMu *)
(* runs one step at a time; everything it leaves in SQLite, under the      *)
(* Nginx prefix, in the Nginx process or in shared memory is visible       *)
(* between two of its steps.                                               *)
(***************************************************************************)
EXTENDS Integers, FiniteSets

CONSTANTS
    MirrorRows,     \* contents the mirrors table can have
    UpstreamRows,   \* contents the upstreams table can have
    Customs,        \* contents the custom fragment table can have
    InitConfig,     \* the desired configuration of the first start
    None,           \* "no configuration": no symlink, nothing loaded, unset
    Mode,           \* upstream_nginx.mode: managed, external or disabled
    HistoryLimit,   \* upstream_nginx.history_limit
    MaxVersion,     \* bound on configuration version numbers
    MaxFaults,      \* bound on injected failures, exits, crashes and cancels
    MaxWork         \* bound on operator requests and needless DNS refreshes

Repos  == MirrorRows \X UpstreamRows
Config == [m : Repos, c : Customs]

ASSUME ConfigAssumption == InitConfig \in Config /\ None \notin Config
ASSUME ModeAssumption == Mode \in {"managed", "external", "disabled"}
ASSUME BoundsAssumption ==
    /\ HistoryLimit \in Nat \ {0}      \* config/validate.go refuses 0
    /\ MaxVersion \in Nat /\ MaxFaults \in Nat /\ MaxWork \in Nat

VARIABLES
    \* SQLite
    desired,     \* the mirrors, upstreams and custom_configs tables
    rows,        \* config_versions: version number and snapshot
    dbActive,    \* the version whose row has active=1, or 0
    expected,    \* Coordinator expected manifest: configuration, generation
    \* the Nginx prefix directory
    dirs,        \* configurations with a versions/<hash> directory
    current,     \* target of the "current" symlink
    \* the Nginx master process (external)
    master,      \* up when currentPID() finds it, else down
    loaded,      \* configuration its workers run
    signal,      \* hup: a reload signal it has not handled yet, else none
    \* MirrorRelay memory
    phase,       \* down, starting or serving
    active,      \* Controller.active / activeCustom
    curVersion,  \* Controller.status.CurrentConfigVersion
    registry,    \* the repository table the router serves
    \* the holder of applyMu
    owner,       \* none, start, refresh or admin
    op,          \* reconcile, apply or rollback
    pc,          \* next step of the holder
    cand,        \* configuration being reconciled
    prev,        \* previousTarget
    ver,         \* version number given to cand
    saved,       \* previous desired configuration kept by ApplyConfiguration
    \* the administration request (one at a time: mutationMu)
    reqPc, reqOp,
    ctx,         \* its request context: live or done
    reqCfg,      \* active configuration it has read
    reqGen,      \* status version it has read
    payload,     \* last cluster sync payload: configuration, generation
    \* auxiliary
    faults, work,
    restored,    \* ok, or failed: restorePublishedConfiguration returned an
                 \* error and no configuration was activated since
    tested,      \* configurations that passed nginx -t
    wasDesired,  \* every configuration the tables have held
    torn         \* the old mirrors with the new upstreams of each repository
                 \* request: what ListMirrors reads when it meets the request

db    == <<desired, rows, dbActive, expected>>
disk  == <<dirs, current>>
nginx == <<master, loaded, signal>>
mem   == <<phase, active, curVersion, registry>>
job   == <<owner, op, pc, cand, prev, ver, saved>>
req   == <<reqPc, reqOp, ctx, reqCfg, reqGen, payload>>
aux   == <<faults, work, restored, tested, wasDesired, torn>>
vars  == <<db, disk, nginx, mem, job, req, aux>>

Owners   == {"none", "start", "refresh", "admin"}
Ops      == {"reconcile", "apply", "rollback"}
Steps    == {"idle", "precheck", "load", "test", "replace", "list",
             "upstreams", "custom", "validate", "record", "publish",
             "activate", "commit", "status", "memory", "callback", "restore",
             "reload", "failed", "abort", "undo", "recover", "reactivate"}
ReqSteps == {"idle", "wait", "hold", "routing", "routes", "expect", "sync"}
ReqOps   == {"none", "mirror", "custom", "reload", "apply", "rollback"}

Manifest == [cfg : Config \cup {None}, gen : Nat]
Row      == [version : Nat \ {0}, cfg : Config]

TypeOK ==
    /\ desired \in Config /\ rows \subseteq Row /\ dbActive \in Nat
    /\ expected \in Manifest
    /\ dirs \subseteq Config /\ current \in Config \cup {None}
    /\ master \in {"up", "down"} /\ loaded \in Config \cup {None}
    /\ signal \in {"none", "hup"}
    /\ phase \in {"down", "starting", "serving"}
    /\ active \in Config \cup {None} /\ curVersion \in Nat
    /\ registry \in Repos \cup {None}
    /\ owner \in Owners /\ op \in Ops /\ pc \in Steps
    /\ cand \in Config /\ prev \in Config \cup {None}
    /\ ver \in Nat /\ saved \in Config
    /\ reqPc \in ReqSteps /\ reqOp \in ReqOps /\ ctx \in {"live", "done"}
    /\ reqCfg \in Config \cup {None} /\ reqGen \in Nat /\ payload \in Manifest
    /\ faults \in Nat /\ work \in Nat /\ restored \in {"ok", "failed"}
    /\ tested \subseteq Config /\ wasDesired \subseteq Config
    /\ torn \subseteq Config

NoManifest == [cfg |-> None, gen |-> 0]
Enabled == Mode # "disabled"
alive == master = "up"
hup == signal = "hup"
cancelled == ctx = "done"
degraded == restored = "failed"

-----------------------------------------------------------------------------
(* Failures.  A step that uses the request context fails for sure once     *)
(* that context is done; any fallible step may fail at the price of one    *)
(* unit of the fault budget.                                               *)

CtxDone == owner = "admin" /\ cancelled
Fault == faults > 0 /\ faults' = faults - 1
CtxError == \/ CtxDone /\ UNCHANGED faults
            \/ ~CtxDone /\ Fault

\* SELECT COALESCE(MAX(version),0)+1
IsNextVersion(v) ==
    \/ rows = {} /\ v = 1
    \/ /\ \E r \in rows : v = r.version + 1
       /\ \A r \in rows : r.version < v

CanRecord == \E v \in 1..MaxVersion : IsNextVersion(v)

-----------------------------------------------------------------------------
(* Taking and leaving applyMu.                                             *)

Acquire(who, what, first) ==
    /\ owner = "none"
    /\ CanRecord
    /\ owner' = who /\ op' = what /\ pc' = first

\* Reconcile, ApplyConfiguration or Rollback returned an error.
ReturnError ==
    /\ owner' = "none" /\ pc' = "idle"
    /\ reqPc' = IF owner = "admin" THEN "idle" ELSE reqPc
    /\ ctx' = IF owner = "admin" THEN "live" ELSE ctx

\* reconcileLocked, restoring nothing more, hands its error to its caller.
ToFailed == pc' = "failed"

-----------------------------------------------------------------------------
(* reconcileLocked                                                         *)

\* ListMirrors: the rows of the mirrors table in one query ...
ListMirrors ==
    /\ pc = "list"
    /\ \/ /\ ~CtxDone
          /\ cand' = [cand EXCEPT !.m = <<desired.m[1], @[2]>>]
          /\ pc' = "upstreams" /\ UNCHANGED faults
       \/ CtxError /\ ToFailed /\ UNCHANGED cand
    /\ UNCHANGED <<db, disk, nginx, mem, req, owner, op, prev, ver, saved,
                   work, restored, tested, wasDesired, torn>>

\* ... and their upstreams in later ones, outside any transaction.  A request
\* that writes changes one repository, and the next one waits for applyMu, so
\* the queries see the upstreams of that repository before or after it.
ListUpstreams ==
    /\ pc = "upstreams"
    /\ \/ /\ ~CtxDone
          /\ cand' = [cand EXCEPT !.m = <<@[1], desired.m[2]>>]
          /\ pc' = "custom" /\ UNCHANGED faults
       \/ CtxError /\ ToFailed /\ UNCHANGED cand
    /\ UNCHANGED <<db, disk, nginx, mem, req, owner, op, prev, ver, saved,
                   work, restored, tested, wasDesired, torn>>

\* Mutant of ListCustomConfigs: the fragments in memory are used.
ListCustomConfigs_Active ==
    /\ pc = "custom"
    /\ \/ /\ ~CtxDone
          /\ cand' = [cand EXCEPT !.c = IF active = None THEN desired.c ELSE active.c]
          /\ pc' = "validate" /\ UNCHANGED faults
       \/ CtxError /\ ToFailed /\ UNCHANGED cand
    /\ UNCHANGED <<db, disk, nginx, mem, req, owner, op, prev, ver, saved,
                   work, restored, tested, wasDesired, torn>>

ListCustomConfigs ==
    /\ pc = "custom"
    /\ \/ /\ ~CtxDone
          /\ cand' = [cand EXCEPT !.c = desired.c]
          /\ pc' = "validate" /\ UNCHANGED faults
       \/ CtxError /\ ToFailed /\ UNCHANGED cand
    /\ UNCHANGED <<db, disk, nginx, mem, req, owner, op, prev, ver, saved,
                   work, restored, tested, wasDesired, torn>>

\* Mutant of ValidateOK: the files are written without nginx -t.
ValidateOK_NoTest(cfg) == dirs' = dirs \cup {cfg} /\ UNCHANGED tested

\* ValidateWithCustom: generate, nginx -t in a private directory, then
\* writeVersion.  In disabled mode generation alone decides.
ValidateOK(cfg) ==
    IF Enabled THEN /\ tested' = tested \cup {cfg}
                    /\ dirs' = dirs \cup {cfg}
               ELSE UNCHANGED <<tested, dirs>>

Validate ==
    /\ pc = "validate"
    /\ \/ /\ ~CtxDone /\ ValidateOK(cand)
          /\ pc' = "record" /\ UNCHANGED faults
       \/ CtxError /\ ToFailed /\ UNCHANGED <<tested, dirs>>
    /\ UNCHANGED <<db, current, nginx, mem, req, owner, op, cand, prev, ver,
                   saved, work, restored, wasDesired, torn>>

\* Mutant of Pruned: WHERE active=0 is missing.
Pruned_NewestOnly(table) ==
    {r \in table : Cardinality({s \in table : s.version > r.version})
                     < HistoryLimit}

\* DELETE ... WHERE active=0 AND id NOT IN (the newest HistoryLimit rows)
Pruned(table) ==
    {r \in table : \/ r.version = dbActive
                   \/ Cardinality({s \in table : s.version > r.version})
                        < HistoryLimit}

AddConfigVersion ==
    /\ pc = "record"
    /\ \/ /\ ~CtxDone
          /\ \E v \in 1..MaxVersion :
                /\ IsNextVersion(v)
                /\ rows' = Pruned(rows \cup {[version |-> v, cfg |-> cand]})
                /\ ver' = v
          /\ pc' = IF Enabled THEN "publish" ELSE "commit"
          /\ UNCHANGED faults
       \/ CtxError /\ ToFailed /\ UNCHANGED <<rows, ver>>
    /\ UNCHANGED <<desired, dbActive, expected, disk, nginx, mem, req, owner,
                   op, cand, prev, saved, work, restored, tested,
                   wasDesired, torn>>

\* Readlink, stat versions/<hash>, then rename the new symlink over current.
Publish ==
    /\ pc = "publish"
    /\ prev' = current
    /\ \/ /\ cand \in dirs /\ current' = cand
          /\ pc' = "activate" /\ UNCHANGED faults
       \/ Fault /\ pc' = "restore" /\ UNCHANGED current
    /\ UNCHANGED <<db, dirs, nginx, mem, req, owner, op, cand, ver, saved,
                   work, restored, tested, wasDesired, torn>>

-----------------------------------------------------------------------------
(* activate (process.go).  A live master is sent a reload signal, which it *)
(* handles later by reading current/nginx.conf; otherwise a new master is  *)
(* started from current, unless Nginx is managed externally.               *)

CanStart == ~alive /\ Mode = "managed" /\ current # None

StartMaster == master' = "up" /\ loaded' = current /\ signal' = "none"
SignalReload == signal' = "hup" /\ UNCHANGED <<master, loaded>>

ActivateOK ==
    \/ alive /\ ~CtxDone /\ SignalReload
    \/ CanStart /\ StartMaster

\* The command failed, or it worked and the endpoint never became reachable.
ActivateError ==
    /\ \/ UNCHANGED nginx
       \/ alive /\ SignalReload
       \/ CanStart /\ StartMaster
    /\ \/ Fault
       \/ ((CtxDone /\ alive) \/ (~alive /\ ~CanStart)) /\ UNCHANGED faults

\* Mutant of Activate: a failed activation does not restore the symlink.
Activate_NoRestore ==
    /\ pc = "activate"
    /\ \/ ActivateOK /\ pc' = "commit" /\ UNCHANGED faults
       \/ ActivateError /\ ToFailed
    /\ UNCHANGED <<db, disk, mem, req, owner, op, cand, prev, ver, saved,
                   work, restored, tested, wasDesired, torn>>

Activate ==
    /\ pc = "activate"
    /\ \/ ActivateOK /\ pc' = "commit" /\ UNCHANGED faults
       \/ ActivateError /\ pc' = "restore"
    /\ UNCHANGED <<db, disk, mem, req, owner, op, cand, prev, ver, saved,
                   work, restored, tested, wasDesired, torn>>

\* restorePublishedConfiguration, first half: the old symlink back, or stop
\* the master and remove the symlink when there was none.  It runs on a
\* background context.
RestorePublished ==
    /\ pc = "restore"
    /\ \/ /\ prev # None
          /\ \/ /\ current' = prev /\ pc' = "reload"
                /\ UNCHANGED <<faults, restored>>
             \/ Fault /\ ToFailed /\ restored' = "failed" /\ UNCHANGED current
          /\ UNCHANGED nginx
       \/ /\ prev = None /\ Mode = "managed"
          /\ ToFailed
          /\ \/ /\ master' = "down" /\ loaded' = None /\ signal' = "none"
                /\ current' = None /\ UNCHANGED <<faults, restored>>
             \/ Fault /\ restored' = "failed" /\ UNCHANGED <<nginx, current>>
       \/ /\ prev = None /\ Mode # "managed"
          /\ ToFailed /\ restored' = "failed"
          /\ UNCHANGED <<nginx, current, faults>>
    /\ UNCHANGED <<db, dirs, mem, req, owner, op, cand, prev, ver, saved,
                   work, tested, wasDesired, torn>>

\* Second half: activate the restored configuration.
ReloadRestored ==
    /\ pc = "reload"
    /\ ToFailed
    /\ \/ /\ (alive /\ SignalReload) \/ (CanStart /\ StartMaster)
          /\ UNCHANGED <<faults, restored>>
       \/ ActivateError /\ restored' = "failed"
    /\ UNCHANGED <<db, disk, mem, req, owner, op, cand, prev, ver, saved,
                   work, tested, wasDesired, torn>>

\* Mutant of SetActiveConfigVersion: its failure does not restore the symlink.
SetActiveConfigVersion_NoRestore ==
    /\ pc = "commit"
    /\ \/ ~CtxDone /\ dbActive' = ver /\ pc' = "status" /\ UNCHANGED faults
       \/ CtxError /\ ToFailed /\ UNCHANGED dbActive
    /\ UNCHANGED <<desired, rows, expected, disk, nginx, mem, req, owner, op,
                   cand, prev, ver, saved, work, restored, tested,
                   wasDesired, torn>>

SetActiveConfigVersion ==
    /\ pc = "commit"
    /\ \/ ~CtxDone /\ dbActive' = ver /\ pc' = "status" /\ UNCHANGED faults
       \/ /\ CtxError /\ UNCHANGED dbActive
          /\ pc' = IF Enabled THEN "restore" ELSE "failed"
    /\ UNCHANGED <<desired, rows, expected, disk, nginx, mem, req, owner, op,
                   cand, prev, ver, saved, work, restored, tested,
                   wasDesired, torn>>

\* status.CurrentConfigVersion under mu ...
SetStatus ==
    /\ pc = "status"
    /\ curVersion' = ver /\ restored' = "ok" /\ pc' = "memory"
    /\ UNCHANGED <<db, disk, nginx, phase, active, registry, req, owner, op,
                   cand, prev, ver, saved, faults, work, tested,
                   wasDesired, torn>>

\* ... then setActiveConfiguration in a second critical section of mu ...
SetActiveConfiguration ==
    /\ pc = "memory"
    /\ active' = cand /\ pc' = "callback"
    /\ UNCHANGED <<db, disk, nginx, phase, curVersion, registry, req, owner,
                   op, cand, prev, ver, saved, aux>>

\* SetExpectedConfiguration; the caller only logs its error.
StoreExpected(manifest) ==
    \/ expected' = manifest /\ UNCHANGED faults
    \/ Fault /\ UNCHANGED expected

\* Mutant of PublisherCallback: the registry is only replaced at start-up.
PublisherCallback_StartOnly ==
    /\ pc = "callback"
    /\ registry' = IF owner = "start" THEN cand.m ELSE registry
    /\ StoreExpected([cfg |-> cand, gen |-> curVersion])
    /\ owner' = "none" /\ pc' = "idle"
    /\ phase' = IF owner = "start" THEN "serving" ELSE phase
    /\ reqPc' = IF owner # "admin" THEN reqPc
                ELSE IF reqOp = "custom" THEN "idle" ELSE "routing"
    /\ ctx' = IF owner = "admin" THEN "live" ELSE ctx
    /\ UNCHANGED <<desired, rows, dbActive, disk, nginx, active, curVersion,
                   op, cand, prev, ver, saved, reqOp, reqCfg, reqGen, payload,
                   work, restored, tested, wasDesired, torn>>

\* ... and the publisher callback (PublishActiveRepositories) outside mu,
\* after which applyMu is released.
PublisherCallback ==
    /\ pc = "callback"
    /\ registry' = cand.m
    /\ StoreExpected([cfg |-> cand, gen |-> curVersion])
    /\ owner' = "none" /\ pc' = "idle"
    /\ phase' = IF owner = "start" THEN "serving" ELSE phase
    /\ reqPc' = IF owner # "admin" THEN reqPc
                ELSE IF reqOp = "custom" THEN "idle" ELSE "routing"
    /\ ctx' = IF owner = "admin" THEN "live" ELSE ctx
    /\ UNCHANGED <<desired, rows, dbActive, disk, nginx, active, curVersion,
                   op, cand, prev, ver, saved, reqOp, reqCfg, reqGen, payload,
                   work, restored, tested, wasDesired, torn>>

-----------------------------------------------------------------------------
(* What each caller of reconcileLocked does with an error.                 *)

ReconcileFailed ==
    /\ pc = "failed"
    /\ \/ /\ owner = "start" /\ pc' = "recover"
          /\ UNCHANGED <<owner, reqPc, ctx>>
       \/ /\ op = "apply" /\ pc' = "undo"
          /\ UNCHANGED <<owner, reqPc, ctx>>
       \/ owner # "start" /\ op # "apply" /\ ReturnError
    /\ UNCHANGED <<db, disk, nginx, mem, op, cand, prev, ver, saved, reqOp,
                   reqCfg, reqGen, payload, aux>>

\* ApplyConfiguration: restore the previous desired configuration, with the
\* context of the request.
UndoReplace ==
    /\ pc = "undo"
    /\ pc' = "abort"
    /\ \/ ~CtxDone /\ desired' = saved /\ UNCHANGED faults
       \/ CtxError /\ UNCHANGED desired
    /\ UNCHANGED <<rows, dbActive, expected, disk, nginx, mem, req, owner, op,
                   cand, prev, ver, saved, work, restored, tested,
                   wasDesired, torn>>

Abort ==
    /\ pc = "abort"
    /\ ReturnError
    /\ UNCHANGED <<db, disk, nginx, mem, op, cand, prev, ver, saved, reqOp,
                   reqCfg, reqGen, payload, aux>>

-----------------------------------------------------------------------------
(* ApplyConfiguration and Rollback, before reconcileLocked.                *)

ApplyValidate ==
    /\ pc = "precheck"
    /\ saved' = desired
    /\ \/ ~CtxDone /\ ValidateOK(cand) /\ pc' = "replace" /\ UNCHANGED faults
       \/ CtxError /\ pc' = "abort" /\ UNCHANGED <<tested, dirs>>
    /\ UNCHANGED <<db, current, nginx, mem, req, owner, op, cand, prev, ver,
                   work, restored, wasDesired, torn>>

\* ConfigVersion, decode the snapshot, generate and writeVersion; the version
\* asked for may have been pruned.
RollbackLoad ==
    /\ pc = "load"
    /\ \/ /\ ~CtxDone
          /\ \E r \in rows : cand' = r.cfg /\ dirs' = dirs \cup {r.cfg}
          /\ pc' = "test"
       \/ pc' = "abort" /\ UNCHANGED <<cand, dirs>>
    /\ UNCHANGED <<db, current, nginx, mem, req, owner, op, prev, ver, saved,
                   faults, work, restored, tested, wasDesired, torn>>

RollbackTest ==
    /\ pc = "test"
    /\ \/ /\ ~CtxDone /\ pc' = "replace" /\ UNCHANGED faults
          /\ tested' = IF Enabled THEN tested \cup {cand} ELSE tested
       \/ CtxError /\ pc' = "abort" /\ UNCHANGED tested
    /\ UNCHANGED <<db, disk, nginx, mem, req, owner, op, cand, prev, ver,
                   saved, work, restored, wasDesired, torn>>

ReplaceConfiguration ==
    /\ pc = "replace"
    /\ \/ /\ ~CtxDone /\ desired' = cand
          /\ wasDesired' = wasDesired \cup {cand}
          /\ pc' = "list" /\ UNCHANGED faults
       \/ CtxError /\ pc' = "abort" /\ UNCHANGED <<desired, wasDesired>>
    /\ UNCHANGED <<rows, dbActive, expected, disk, nginx, mem, req, owner, op,
                   cand, prev, ver, saved, work, restored, tested, torn>>

-----------------------------------------------------------------------------
(* Administration requests; mutationMu admits one at a time.               *)

Spend == work > 0 /\ work' = work - 1

\* What ListMirrors returns when m is written between its queries.
ReadAround(m) == [desired EXCEPT !.m = <<desired.m[1], m[2]>>]

\* create / update / delete / enable / disable / profile: validate the
\* candidate table, then write it.
AdminRepository ==
    /\ phase = "serving" /\ reqPc = "idle" /\ Spend
    /\ \E m \in Repos :
          LET candidate == [desired EXCEPT !.m = m] IN
          /\ ValidateOK(candidate)
          /\ desired' = candidate
          /\ wasDesired' = wasDesired \cup {candidate}
          /\ torn' = torn \cup {ReadAround(m)}
    /\ reqPc' = "wait" /\ reqOp' = "mirror"
    /\ UNCHANGED <<rows, dbActive, expected, current, nginx, mem, job,
                   ctx, reqCfg, reqGen, payload, faults, restored>>

AdminCustomConfig ==
    /\ phase = "serving" /\ reqPc = "idle" /\ Spend
    /\ \E c \in Customs :
          LET candidate == [desired EXCEPT !.c = c] IN
          /\ ValidateOK(candidate)
          /\ desired' = candidate
          /\ wasDesired' = wasDesired \cup {candidate}
    /\ reqPc' = "wait" /\ reqOp' = "custom"
    /\ UNCHANGED <<rows, dbActive, expected, current, nginx, mem, job,
                   ctx, reqCfg, reqGen, payload, faults, restored,
                   torn>>

\* manual reconcile, version rollback, or a received cluster snapshot
AdminRequest ==
    /\ phase = "serving" /\ reqPc = "idle" /\ Spend
    /\ reqPc' = "wait" /\ reqOp' \in {"reload", "rollback", "apply"}
    /\ UNCHANGED <<db, disk, nginx, mem, job, ctx, reqCfg, reqGen,
                   payload, faults, restored, tested, wasDesired, torn>>

AdminAcquire ==
    /\ reqPc = "wait" /\ reqPc' = "hold"
    /\ \/ /\ reqOp = "apply" /\ Acquire("admin", "apply", "precheck")
          /\ cand' \in Config
       \/ /\ reqOp = "rollback" /\ Acquire("admin", "rollback", "load")
          /\ UNCHANGED cand
       \/ /\ reqOp \notin {"apply", "rollback"}
          /\ Acquire("admin", "reconcile", "list")
          /\ UNCHANGED cand
    /\ UNCHANGED <<db, disk, nginx, mem, prev, ver, saved, reqOp, ctx,
                   reqCfg, reqGen, payload, aux>>

\* The client of the request goes away: r.Context() is done.
ClientCancel ==
    /\ reqPc \in {"wait", "hold"} /\ ~cancelled /\ Fault
    /\ ctx' = "done"
    /\ UNCHANGED <<db, disk, nginx, mem, job, reqPc, reqOp, reqCfg, reqGen,
                   payload, work, restored, tested, wasDesired, torn>>

\* publishActiveRouting reads the active repositories under mu ...
PublishActiveRouting ==
    /\ reqPc = "routing" /\ reqPc' = "routes" /\ reqCfg' = active
    /\ UNCHANGED <<db, disk, nginx, mem, job, reqOp, ctx, reqGen,
                   payload, aux>>

\* ... replaces the routing snapshot, reads the fragments and the version ...
PublishActiveRepositories ==
    /\ reqPc = "routes" /\ reqPc' = "expect"
    /\ registry' = reqCfg.m
    /\ reqCfg' = [reqCfg EXCEPT !.c = active.c]
    /\ reqGen' = curVersion
    /\ UNCHANGED <<db, disk, nginx, phase, active, curVersion, job, reqOp,
                   ctx, payload, aux>>

\* ... and stores the manifest the checker compares Edges with.
SetExpectedConfiguration ==
    /\ reqPc = "expect" /\ reqPc' = "idle"
    /\ StoreExpected([cfg |-> reqCfg, gen |-> reqGen])
    /\ UNCHANGED <<desired, rows, dbActive, disk, nginx, mem, job, reqOp,
                   ctx, reqCfg, reqGen, payload, work, restored, tested,
                   wasDesired, torn>>

\* clusterSyncPayload: the active configuration under one read lock ...
SyncReadActive ==
    /\ phase = "serving" /\ reqPc = "idle"
    /\ reqPc' = "sync" /\ reqCfg' = active
    /\ UNCHANGED <<db, disk, nginx, mem, job, reqOp, ctx, reqGen,
                   payload, aux>>

\* ... its version under another.
SyncReadVersion ==
    /\ reqPc = "sync" /\ reqPc' = "idle"
    /\ payload' = [cfg |-> reqCfg,
                   gen |-> IF curVersion = 0 THEN 1 ELSE curVersion]
    /\ UNCHANGED <<db, disk, nginx, mem, job, reqOp, ctx, reqCfg,
                   reqGen, aux>>

-----------------------------------------------------------------------------
(* Background activity                                                     *)

\* Mutant of Refresh: a desired configuration that failed is not retried.
Refresh_NoRetry ==
    /\ phase = "serving" /\ Enabled /\ desired = active
    /\ IF ~degraded THEN Spend ELSE UNCHANGED work
    /\ Acquire("refresh", "reconcile", "list")
    /\ UNCHANGED <<db, disk, nginx, mem, cand, prev, ver, saved, req, faults,
                   restored, tested, wasDesired, torn>>

\* refreshResolvedUpstreams: Reconcile on a timer.  A refresh that has
\* nothing to repair spends work, so that the bound leaves every useful one.
Refresh ==
    /\ phase = "serving" /\ Enabled
    /\ IF desired = active /\ ~degraded THEN Spend ELSE UNCHANGED work
    /\ Acquire("refresh", "reconcile", "list")
    /\ UNCHANGED <<db, disk, nginx, mem, cand, prev, ver, saved, req, faults,
                   restored, tested, wasDesired, torn>>

\* supervise: after the back-off, with applyMu held, activate a dead master.
SuperviseRestart ==
    /\ phase = "serving" /\ Enabled /\ owner = "none" /\ ~alive
    /\ \/ CanStart /\ StartMaster /\ UNCHANGED faults
       \/ ActivateError
    /\ UNCHANGED <<db, disk, mem, job, req, work, restored, tested,
                   wasDesired, torn>>

NginxReloads ==
    /\ alive /\ hup /\ current # None
    /\ loaded' = current /\ signal' = "none"
    /\ UNCHANGED <<db, disk, master, mem, job, req, aux>>

NginxExits ==
    /\ alive /\ Fault
    /\ master' = "down" /\ loaded' = None /\ signal' = "none"
    /\ UNCHANGED <<db, disk, mem, job, req, work, restored, tested,
                   wasDesired, torn>>

\* In external mode the operator's service manager starts Nginx.
ExternalStart ==
    /\ Mode = "external" /\ ~alive /\ current # None
    /\ StartMaster
    /\ UNCHANGED <<db, disk, mem, job, req, aux>>

-----------------------------------------------------------------------------
(* Start-up, recovery, crash                                               *)

Boot ==
    /\ phase = "down"
    /\ IF Enabled
         THEN /\ Acquire("start", "reconcile", "list")
              /\ phase' = "starting"
              /\ UNCHANGED <<active, registry, expected>>
         ELSE /\ phase' = "serving" /\ active' = desired
              /\ registry' = desired.m
              /\ expected' = [cfg |-> desired, gen |-> curVersion]
              /\ UNCHANGED <<owner, op, pc>>
    /\ UNCHANGED <<desired, rows, dbActive, disk, nginx, curVersion, cand,
                   prev, ver, saved, req, aux>>

\* Everything in memory is gone; Nginx, SQLite and the prefix stay.
LoseMemory ==
    /\ phase' = "down" /\ active' = None /\ curVersion' = 0
    /\ registry' = None
    /\ owner' = "none" /\ pc' = "idle"
    /\ reqPc' = "idle" /\ ctx' = "live"

\* recoverLastActive: the active row, its files, nginx -t, publishTarget.
RecoverPublish ==
    /\ pc = "recover"
    /\ \/ /\ \E r \in rows :
                /\ r.version = dbActive /\ r.cfg \in dirs
                /\ cand' = r.cfg /\ ver' = r.version
                /\ current' = r.cfg /\ tested' = tested \cup {r.cfg}
          /\ pc' = "reactivate"
          /\ UNCHANGED <<faults, phase, active, curVersion, registry, owner,
                         reqPc, ctx>>
       \/ /\ \/ Fault
             \/ /\ ~\E r \in rows : r.version = dbActive /\ r.cfg \in dirs
                /\ UNCHANGED faults
          /\ LoseMemory
          /\ UNCHANGED <<cand, ver, current, tested>>
    /\ UNCHANGED <<db, dirs, nginx, op, prev, saved, reqOp, reqCfg, reqGen,
                   payload, work, restored, wasDesired, torn>>

RecoverActivate ==
    /\ pc = "reactivate"
    /\ \/ /\ ActivateOK /\ pc' = "status"
          /\ UNCHANGED <<faults, phase, active, curVersion, registry, owner,
                         reqPc, ctx>>
       \/ ActivateError /\ LoseMemory
    /\ UNCHANGED <<db, disk, op, cand, prev, ver, saved, reqOp, reqCfg,
                   reqGen, payload, work, restored, tested, wasDesired, torn>>

Crash ==
    /\ phase # "down" /\ Fault /\ LoseMemory
    /\ UNCHANGED <<db, disk, nginx, op, cand, prev, ver, saved, reqOp, reqCfg,
                   reqGen, payload, work, restored, tested, wasDesired, torn>>

-----------------------------------------------------------------------------
Init ==
    /\ desired = InitConfig /\ rows = {} /\ dbActive = 0
    /\ expected = NoManifest
    /\ dirs = {} /\ current = None
    /\ master = "down" /\ loaded = None /\ signal = "none"
    /\ phase = "down" /\ active = None /\ curVersion = 0 /\ registry = None
    /\ owner = "none" /\ op = "reconcile" /\ pc = "idle"
    /\ cand = InitConfig /\ prev = None /\ ver = 0 /\ saved = InitConfig
    /\ reqPc = "idle" /\ reqOp = "none" /\ ctx = "live"
    /\ reqCfg = None /\ reqGen = 0 /\ payload = NoManifest
    /\ faults = MaxFaults /\ work = MaxWork
    /\ restored = "ok" /\ tested = {} /\ wasDesired = {InitConfig}
    /\ torn = {}

\* The steps of the goroutine that holds applyMu.
HolderStep ==
    \/ ListMirrors \/ ListUpstreams \/ ListCustomConfigs
    \/ Validate \/ AddConfigVersion
    \/ Publish \/ Activate \/ RestorePublished \/ ReloadRestored
    \/ SetActiveConfigVersion \/ SetStatus \/ SetActiveConfiguration
    \/ PublisherCallback \/ ReconcileFailed \/ UndoReplace \/ Abort
    \/ ApplyValidate \/ RollbackLoad \/ RollbackTest \/ ReplaceConfiguration
    \/ RecoverPublish \/ RecoverActivate

\* The steps an accepted request still has to take outside applyMu.
RequestStep ==
    \/ AdminAcquire \/ PublishActiveRouting \/ PublishActiveRepositories
    \/ SetExpectedConfiguration \/ SyncReadVersion

Next ==
    \/ HolderStep
    \/ RequestStep
    \/ AdminRepository \/ AdminCustomConfig \/ AdminRequest \/ ClientCancel
    \/ SyncReadActive
    \/ Refresh \/ SuperviseRestart
    \/ NginxReloads \/ NginxExits \/ ExternalStart
    \/ Boot \/ Crash

Spec == Init /\ [][Next]_vars

-----------------------------------------------------------------------------
(* Properties                                                              *)

\* publish, publishTarget and recoverLastActive only ever point "current" at
\* a configuration that passed nginx -t, although Rollback writes its
\* versions/ directory before testing it and publish only checks that the
\* directory exists.
PublishedTested == current # None => current \in tested

\* Once applyMu is free, the symlink names the configuration the controller
\* calls active, and a live Nginx runs it or has a reload signal pending:
\* every failure path of reconcileLocked put the previous configuration back,
\* unless the restoration itself reported an error.
ServesActive ==
    (Enabled /\ phase = "serving" /\ owner = "none" /\ ~degraded)
        => /\ current = active
           /\ alive => hup \/ loaded = current

\* The version marked active survives the pruning of AddConfigVersion, and
\* its directory exists, so recoverLastActive finds both after a crash.
ActiveRecoverable ==
    dbActive # 0 => \E r \in rows : /\ r.version = dbActive
                                    /\ Enabled => r.cfg \in dirs

\* reconcileLocked reads three tables in queries outside any transaction,
\* and mutationMu with applyMu lets at most one request write between them.
\* So a recorded snapshot is what the tables held at one moment, or the old
\* mirrors with the new upstreams of one repository request and nothing else
\* mixed in: never the fragments of another moment, never two requests.
SnapshotRead == \A r \in rows : r.cfg \in wasDesired \cup torn

\* Every row of config_versions is a configuration the reads of ListMirrors
\* account for, and the one marked active can be recovered: both at the mercy
\* of what AddConfigVersion writes and prunes.
VersionTableSound == ActiveRecoverable /\ SnapshotRead

\* While applyMu is free the version in the status, the row marked active and
\* the active configuration in memory are the same thing.
StatusNamesActive ==
    (Enabled /\ phase = "serving" /\ owner = "none")
        => /\ curVersion = dbActive
           /\ \E r \in rows : r.version = curVersion /\ r.cfg = active

\* With no request or reconcile in progress, the router serves the active
\* repository table: the publishActiveRouting of a handler never leaves an
\* older table behind a concurrent refresh.
RoutingFollowsActive ==
    (phase = "serving" /\ owner = "none" /\ reqPc = "idle")
        => registry = active.m

\* What memory says about the configuration agrees with the version table:
\* status, row marked active, active configuration and router, after every
\* failure, crash and race of a handler with a refresh.
MemoryFollowsActive == StatusNamesActive /\ RoutingFollowsActive

\* config_versions numbers are never given twice, whatever is pruned: a new
\* row is above every row there was, and the highest row is never deleted.
VersionsOnlyGrow ==
    [][/\ \A r \in rows' \ rows : \A s \in rows : r.version > s.version
       /\ \A r \in rows : \E s \in rows' : s.version >= r.version]_rows

\* The active version never moves back to an older one: generations sent to
\* Edges are monotonic, across crashes and recoveries too.
ActiveVersionMonotonic == [][dbActive' >= dbActive]_dbActive

\* Whatever fails, races or crashes on the way, the controller implements
\* ActiveConfiguration: what SetActiveConfigVersion marks is the commit,
\* setActiveConfiguration shows exactly that, after a restart too, and the
\* publisher callback and publishActiveRouting route by nothing else.
Committed ==
    IF \E r \in rows : r.version = dbActive
      THEN (CHOOSE r \in rows : r.version = dbActive).cfg ELSE None
Abstract == INSTANCE ActiveConfiguration WITH
                Configs <- Config, First <- InitConfig, Nothing <- None,
                proposed <- wasDesired \cup torn, version <- dbActive,
                committed <- Committed, shown <- active, routed <- registry
ImplementsActiveConfiguration == Abstract!ConfigurationSpec

-----------------------------------------------------------------------------
(* The inductive invariant behind the properties, by theme.                *)

\* Who may be where: the lock holder, its step, the request and the phase.
LockDiscipline ==
    /\ owner = "none" <=> pc = "idle"
    /\ owner = "start" <=> phase = "starting"
    /\ owner = "admin" <=> reqPc = "hold"
    /\ phase = "down" => owner = "none"
    /\ reqPc # "idle" => phase = "serving"
    /\ phase = "serving" \/ pc = "callback" => active \in Config
    /\ reqPc \in {"routes", "expect", "sync"} => reqCfg \in Config
    /\ pc \in {"precheck", "load", "test", "replace", "undo", "abort"}
          => owner = "admin"
    /\ pc \in {"recover", "reactivate"} => owner = "start"
    /\ owner \in {"start", "refresh"} => op = "reconcile"
    /\ owner = "start" => Enabled
    /\ pc \in {"publish", "activate", "restore", "reload"} => Enabled

\* The row the holder is about to activate, or has activated.
JobRow == \E r \in rows : r.version = ver /\ r.cfg = cand
RecordInv ==
    /\ \A r, s \in rows : r.version = s.version => r = s
    /\ ActiveRecoverable
    /\ pc \in {"publish", "activate", "commit"}
          => JobRow /\ \A r \in rows : r.version <= ver
    /\ pc \in {"status", "memory", "callback", "reactivate"}
          => JobRow /\ dbActive = ver
    /\ pc \in {"record", "publish", "activate", "commit"} /\ Enabled
          => cand \in dirs

TestedInv ==
    /\ PublishedTested
    /\ prev # None => prev \in tested
    /\ pc \in {"record", "publish"} /\ Enabled => cand \in tested

\* Between publication and the end of a reconcile the symlink is ahead of the
\* active configuration, and prev remembers the way back.
Synced == alive => hup \/ loaded = current
Ahead == {"activate", "commit", "restore", "reload", "status", "memory",
          "callback"}
ServeInv ==
    Enabled =>
    /\ phase = "serving" /\ ~degraded =>
          /\ pc \notin Ahead => current = active /\ Synced
          /\ pc \in {"activate", "commit", "restore"} => prev = active
          /\ pc = "reload" => current = active
    /\ pc \in {"activate", "commit", "status", "memory", "callback",
               "reactivate"} => current = cand
    /\ pc \in {"commit", "status", "memory", "callback"} => Synced
    /\ pc = "callback" => active = cand

StatusInv ==
    /\ Enabled /\ phase = "serving" /\ pc \notin {"status", "memory", "callback"}
          => /\ curVersion = dbActive
             /\ \E r \in rows : r.version = curVersion /\ r.cfg = active
    /\ pc \in {"memory", "callback"} => curVersion = ver
    /\ pc = "callback" => active = cand

\* What the holder has read of the tables is still what they hold, or is the
\* state just before the one write of a request that now waits for applyMu.
DesiredInv ==
    /\ desired \in wasDesired /\ saved \in wasDesired
    /\ SnapshotRead
    /\ pc = "upstreams" =>
          /\ [desired EXCEPT !.m = <<cand.m[1], desired.m[2]>>]
                \in wasDesired \cup torn
          /\ cand.m[1] = desired.m[1] \/ reqPc = "wait"
    /\ pc = "custom" => /\ [m |-> cand.m, c |-> desired.c]
                              \in wasDesired \cup torn
                        /\ cand.m = desired.m \/ reqPc = "wait"
    /\ pc \in {"validate", "record"} => cand \in wasDesired \cup torn

\* While a handler publishes routing, tables, active configuration and every
\* reconcile in progress agree, because the handler still holds mutationMu.
RoutingInv ==
    /\ owner = "admin" \/ reqPc \in {"routing", "routes"} =>
          /\ pc = "upstreams" => cand.m[1] = desired.m[1]
          /\ pc = "custom" => cand.m = desired.m
          /\ pc \in {"validate", "record", "publish", "activate", "commit",
                     "status", "memory", "callback"} => cand = desired
    /\ reqPc \in {"routing", "routes"} => active = desired
    /\ reqPc = "routes" => reqCfg = active
    /\ pc = "callback" => active = cand
    /\ phase = "serving" /\ pc # "callback" => registry = active.m

-----------------------------------------------------------------------------
(* Liveness.  The holder of applyMu, the timers, Nginx and the service     *)
(* manager keep going; operators need not.                                 *)
Fairness ==
    /\ WF_vars(HolderStep) /\ WF_vars(RequestStep)
    /\ WF_vars(Refresh) /\ WF_vars(SuperviseRestart)
    /\ WF_vars(NginxReloads) /\ WF_vars(ExternalStart)
    /\ WF_vars(Boot)

FairSpec == Spec /\ Fairness

\* After the last failure and the last request, the desired configuration is
\* active and Nginx serves it: the scheduled refresh retries activations that
\* failed, and the supervisor restarts a dead master.
Settled ==
    /\ phase = "serving" /\ owner = "none"
    /\ active = desired /\ alive /\ loaded = desired
Converges == <>[]Settled

-----------------------------------------------------------------------------
(* Statements of the repository that the code does not meet.               *)

\* controller.go, ApplyConfiguration: "If publication or reload fails, the
\* previous desired configuration is restored".
ApplyFailureRestoresDesired ==
    (op = "apply" /\ pc = "abort") => desired = saved

\* docs/configuration.md: "Every data-plane update is generated as a
\* candidate, tested with the configured binary, published atomically": what
\* is recorded and published is then a configuration someone asked for.
SnapshotWasDesired == \A r \in rows : r.cfg \in wasDesired

\* docs/distributed.md: Edges are compared with the "Active configuration
\* generation", so at rest the expected generation is the active version.
ExpectedIsActive ==
    (phase = "serving" /\ owner = "none" /\ reqPc = "idle" /\ curVersion # 0)
        => expected.gen = curVersion

=============================================================================
