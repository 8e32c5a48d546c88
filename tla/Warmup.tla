------------------------------- MODULE Warmup -------------------------------
(***************************************************************************)
(* The cache warm-up engine: the warmup_jobs table, Engine with its        *)
(* activeJobs map and download slots, the cron loop, the runs of           *)
(* executeJob, the handlers of admin_warmup.go and the shutdown of main.   *)
(*                                                                         *)
(* Times are reduced to whether next_run_at is unset, later than now or    *)
(* due.  A job owns its repository: deleting the repository deletes the    *)
(* job's row (ON DELETE CASCADE).  A download is the whole of              *)
(* fetchAndWarm, its retries included: it ends once, in success or         *)
(* failure, and only a dead context forces it to end.                      *)
(***************************************************************************)
EXTENDS Integers, FiniteSets

CONSTANTS
    Jobs,            \* job ids; AUTOINCREMENT never gives one twice
    Runs,            \* slots for executions of executeJob
    None,
    Bodies,          \* status and counters a create request can carry
    MaxConcurrency,  \* capacity of downloadSlots
    MetadataDepth,
    MaxTargets,      \* maxExpandedWarmupTargets
    MaxWork,         \* bound on operator requests
    MaxEvents        \* bound on crashes, shutdowns and store errors

ASSUME NoneAssumption == None \notin Jobs /\ None \notin Runs
ASSUME LimitAssumption ==
    MaxConcurrency \in Nat \ {0} /\ MetadataDepth \in Nat
    /\ MaxTargets \in Nat \ {0}
ASSUME BoundAssumption == MaxWork \in Nat /\ MaxEvents \in Nat

VARIABLES
    rows,        \* warmup_jobs
    usedIds,     \* ids the table has given out
    engine,      \* started, canceled (runCtx), stopping, stopped
    activeJobs,  \* job id to the run whose cancel function it holds
    run,         \* one record per execution of executeJob
    slots,       \* entries of the downloadSlots channel
    cron,        \* the cron loop: step, list read, job being started
    admin,       \* the handler mutationMu admits: step and job
    work, events,
    lost         \* jobs whose final write was lost to a crash or an error

vars == <<rows, usedIds, engine, activeJobs, run, slots, cron, admin, work,
          events, lost>>

Final == {"completed", "failed", "cancelled"}
Statuses == Final \cup {"idle", "running"}
Body == [status : Statuses \cup {""}, total : Int, done : Int, failed : Int]
ASSUME BodiesAssumption == Bodies \subseteq Body

\* by is auxiliary: who wrote status and counters, a request or a run.
Row == [sched : {"none", "cron"}, enabled : {"yes", "no"},
        status : Statuses, next : {"unset", "later", "due"},
        total : Int, done : Int, failed : Int, by : {"request", "run"}]
Absent == [sched |-> "absent", enabled |-> "no", status |-> "idle",
           next |-> "unset", total |-> 0, done |-> 0, failed |-> 0,
           by |-> "request"]

Run == [pc : {"none", "load", "mirror", "missing", "begin", "expand",
              "extract", "launch", "wait", "write", "end"},
        job : Jobs \cup {None}, sched : {"none", "cron"},
        ctx : {"live", "canceled", "expired"},
        depth : Nat, total : Nat, left : Nat, inflight : Nat,
        done : Nat, failed : Nat, outcome : Final \cup {"timeout", "none"}]
NoRun == [pc |-> "none", job |-> None, sched |-> "none", ctx |-> "live",
          depth |-> 0, total |-> 0, left |-> 0, inflight |-> 0,
          done |-> 0, failed |-> 0, outcome |-> "none"]

Cron == [pc : {"idle", "loop", "get", "register", "exited"},
         list : [Jobs -> {"skip", "unset", "later", "due"}],
         job : Jobs \cup {None}]
Admin == [pc : {"idle", "register", "delete"}, job : Jobs \cup {None}]

TypeOK ==
    /\ rows \in [Jobs -> Row \cup {Absent}] /\ usedIds \subseteq Jobs
    /\ engine \in {"started", "canceled", "stopping", "stopped"}
    /\ activeJobs \in [Jobs -> Runs \cup {None}]
    /\ run \in [Runs -> Run] /\ slots \in Int
    /\ cron \in Cron /\ admin \in Admin
    /\ work \in Nat /\ events \in Nat /\ lost \subseteq Jobs

Exists(j) == rows[j] # Absent
Live(r) == run[r].ctx = "live"
Active(r) == run[r].pc # "none"
Event == events > 0 /\ events' = events - 1
Spend == work > 0 /\ work' = work - 1
SkipAll == [j \in Jobs |-> "skip"]

\* A new value for the fields of one execution.
Becomes(r, rec) == run' = [run EXCEPT ![r] = rec]

-----------------------------------------------------------------------------
(* The store and small helpers of the engine                               *)

\* nextRunString: an occurrence after now, or nothing without a schedule.
nextRunString(sched) == IF sched = "cron" THEN "later" ELSE "unset"

\* The UPDATE finds no row of a deleted job.
UpdateWarmupJobProgress(j, status, total, done, failed, next) ==
    IF Exists(j)
      THEN [rows EXCEPT ![j] = [@ EXCEPT !.status = status, !.total = total,
                                !.done = done, !.failed = failed,
                                !.next = next, !.by = "run"]]
      ELSE rows

\* acquireDownloadSlot: room in the channel.
SlotFree == slots < MaxConcurrency

-----------------------------------------------------------------------------
(* RunJob and CancelJob                                                    *)

\* Mutant of Accepts: the map is not consulted.
Accepts_NoMap(j) == engine \in {"started", "canceled"}

\* Mutant of Accepts: the engine's state is not consulted.
Accepts_AnyTime(j) == activeJobs[j] = None

\* RunJob under e.mu: started, not stopping, and no entry for the job.
Accepts(j) == engine \in {"started", "canceled"} /\ activeJobs[j] = None

\* A context derived from runCtx is dead from the start when runCtx is.
Register(j, r) ==
    /\ activeJobs' = [activeJobs EXCEPT ![j] = r]
    /\ Becomes(r, [NoRun EXCEPT !.pc = "load", !.job = j,
                   !.ctx = IF engine = "started" THEN "live" ELSE "canceled"])

\* The second half of RunJob, after the job was found.
RunJob(j) ==
    \/ /\ Accepts(j) /\ \E r \in Runs : ~Active(r)
       /\ Register(j, CHOOSE r \in Runs : ~Active(r))
    \/ ~Accepts(j) /\ UNCHANGED <<activeJobs, run>>

\* The context of the job's run is cancelled unless it is dead already.
CancelJob(j) ==
    run' = [r \in Runs |-> IF activeJobs[j] = r /\ Live(r)
                             THEN [run[r] EXCEPT !.ctx = "canceled"]
                             ELSE run[r]]

-----------------------------------------------------------------------------
(* executeJob                                                              *)

\* GetWarmupJob with the job's context; without an answer nothing is written.
Load(r) ==
    /\ run[r].pc = "load"
    /\ \/ /\ Live(r) /\ Exists(run[r].job)
          /\ Becomes(r, [run[r] EXCEPT !.pc = "mirror",
                                       !.sched = rows[run[r].job].sched])
          /\ UNCHANGED events
       \/ /\ ~Live(r) \/ ~Exists(run[r].job)
          /\ Becomes(r, [run[r] EXCEPT !.pc = "end"]) /\ UNCHANGED events
       \/ /\ Event /\ Becomes(r, [run[r] EXCEPT !.pc = "end"])
    /\ UNCHANGED <<rows, usedIds, engine, activeJobs, slots, cron, admin,
                   work, lost>>

\* The repository is gone with the job's row, or the query failed.
LookupMirror(r) ==
    /\ run[r].pc = "mirror"
    /\ \/ /\ Live(r) /\ Exists(run[r].job)
          /\ Becomes(r, [run[r] EXCEPT !.pc = "begin"]) /\ UNCHANGED events
       \/ /\ ~Live(r) \/ ~Exists(run[r].job)
          /\ Becomes(r, [run[r] EXCEPT !.pc = "missing"]) /\ UNCHANGED events
       \/ /\ Event /\ Becomes(r, [run[r] EXCEPT !.pc = "missing"])
    /\ UNCHANGED <<rows, usedIds, engine, activeJobs, slots, cron, admin,
                   work, lost>>

\* "Mirror not found" is written with the job's context.
MirrorMissing(r) ==
    /\ run[r].pc = "missing"
    /\ \/ /\ Live(r)
          /\ rows' = UpdateWarmupJobProgress(run[r].job, "failed", 0, 0, 0,
                                             nextRunString(run[r].sched))
          /\ UNCHANGED events
       \/ ~Live(r) /\ UNCHANGED <<rows, events>>
       \/ Event /\ UNCHANGED rows
    /\ Becomes(r, [run[r] EXCEPT !.pc = "end"])
    /\ UNCHANGED <<usedIds, engine, activeJobs, slots, cron, admin, work,
                   lost>>

\* The status "running" is written with the job's context; a job has one
\* pattern here, and its next run is unset while it runs.
Begin(r) ==
    /\ run[r].pc = "begin"
    /\ \/ /\ Live(r)
          /\ rows' = UpdateWarmupJobProgress(run[r].job, "running", 1, 0, 0,
                                             "unset")
          /\ UNCHANGED events
       \/ ~Live(r) /\ UNCHANGED <<rows, events>>
       \/ Event /\ UNCHANGED rows
    /\ Becomes(r, [run[r] EXCEPT !.pc = "expand", !.total = 1])
    /\ UNCHANGED <<usedIds, engine, activeJobs, slots, cron, admin, work,
                   lost>>

\* expandTargetURLs: one more metadata file is fetched under a slot, ...
Expand(r) ==
    /\ run[r].pc = "expand" /\ Live(r)
    /\ run[r].depth < MetadataDepth /\ SlotFree
    /\ slots' = slots + 1
    /\ Becomes(r, [run[r] EXCEPT !.pc = "extract", !.depth = @ + 1])
    /\ UNCHANGED <<rows, usedIds, engine, activeJobs, cron, admin, work,
                   events, lost>>

\* extractPackagesFromMetadata releases its slot on every return.
AfterExtract(r, found) == slots - 1

\* ... and yields some targets; too many fail the job.  With a dead context
\* it yields none.
Extract(r, found) ==
    /\ run[r].pc = "extract"
    /\ found > 0 => Live(r)
    /\ slots' = AfterExtract(r, found)
    /\ Becomes(r, IF run[r].total + found > MaxTargets
                    THEN [run[r] EXCEPT !.pc = "write", !.total = 0,
                                        !.outcome = "failed"]
                    ELSE [run[r] EXCEPT !.pc = "expand",
                                        !.total = @ + found])
    /\ UNCHANGED <<rows, usedIds, engine, activeJobs, cron, admin, work,
                   events, lost>>

\* finishCancelledJob: the cause decides between cancelled and timed out.
CancelledOutcome(r) == IF run[r].ctx = "expired" THEN "timeout" ELSE "cancelled"

\* The expansion is complete.  (It is never empty: NormalizeURLPatterns
\* refuses an empty list.)
Expanded(r) ==
    /\ run[r].pc = "expand"
    /\ Becomes(r, IF Live(r)
                    THEN [run[r] EXCEPT !.pc = "launch",
                                        !.left = run[r].total]
                    ELSE [run[r] EXCEPT !.pc = "write",
                                        !.outcome = CancelledOutcome(r)])
    /\ UNCHANGED <<rows, usedIds, engine, activeJobs, slots, cron, admin,
                   work, events, lost>>

\* The launch loop: the select takes a free slot or sees the dead context,
\* either when both are ready.
Launch(r) ==
    /\ run[r].pc = "launch"
    /\ \/ /\ run[r].left > 0 /\ SlotFree
          /\ slots' = slots + 1
          /\ Becomes(r, [run[r] EXCEPT !.left = @ - 1, !.inflight = @ + 1])
       \/ /\ run[r].left = 0 \/ ~Live(r)
          /\ Becomes(r, [run[r] EXCEPT !.pc = "wait"])
          /\ UNCHANGED slots
    /\ UNCHANGED <<rows, usedIds, engine, activeJobs, cron, admin, work,
                   events, lost>>

\* fetchAndWarm returns; its slot is released.
DownloadEnds(r) ==
    /\ run[r].inflight > 0
    /\ slots' = slots - 1
    /\ \/ Becomes(r, [run[r] EXCEPT !.inflight = @ - 1, !.done = @ + 1])
       \/ Becomes(r, [run[r] EXCEPT !.inflight = @ - 1, !.failed = @ + 1])
    /\ UNCHANGED <<rows, usedIds, engine, activeJobs, cron, admin, work,
                   events, lost>>

\* Mutant of Settled: the counters are read without waiting.
Settled_NoWait(r) == run[r].pc = "wait"

\* jobWg.Wait: no download is in flight.
Settled(r) == run[r].pc = "wait" /\ run[r].inflight = 0

Outcome(r) ==
    CASE ~Live(r) -> CancelledOutcome(r)
      [] Live(r) /\ run[r].failed > 0 /\ run[r].done = 0 -> "failed"
      [] OTHER -> "completed"

Await(r) ==
    /\ Settled(r)
    /\ Becomes(r, [run[r] EXCEPT !.pc = "write", !.outcome = Outcome(r)])
    /\ UNCHANGED <<rows, usedIds, engine, activeJobs, slots, cron, admin,
                   work, events, lost>>

\* updateProgress writes with a context of its own.
FinalContext(r) == "live"

Write(r) ==
    /\ run[r].pc = "write"
    /\ \/ /\ rows' = IF FinalContext(r) # "live" THEN rows
                    ELSE UpdateWarmupJobProgress(run[r].job,
                           IF run[r].outcome = "timeout" THEN "failed"
                                                         ELSE run[r].outcome,
                           run[r].total, run[r].done, run[r].failed,
                           IF run[r].outcome = "cancelled"
                             THEN "unset" ELSE nextRunString(run[r].sched))
          /\ lost' = lost \ {run[r].job}
          /\ UNCHANGED events
       \/ Event /\ lost' = lost \cup {run[r].job} /\ UNCHANGED rows
    /\ Becomes(r, [run[r] EXCEPT !.pc = "end"])
    /\ UNCHANGED <<usedIds, engine, activeJobs, slots, cron, admin, work>>

\* The deferred function of RunJob's goroutine.
End(r) ==
    /\ run[r].pc = "end"
    /\ activeJobs' = [activeJobs EXCEPT ![run[r].job] = None]
    /\ Becomes(r, NoRun)
    /\ UNCHANGED <<rows, usedIds, engine, slots, cron, admin, work, events,
                   lost>>

\* The deadline of the job's context passes; once the outcome is settled
\* nothing looks at it any more.
Timeout(r) ==
    /\ run[r].pc \notin {"none", "write", "end"} /\ Live(r)
    /\ Becomes(r, [run[r] EXCEPT !.ctx = "expired"])
    /\ UNCHANGED <<rows, usedIds, engine, activeJobs, slots, cron, admin,
                   work, events, lost>>

-----------------------------------------------------------------------------
(* cronLoop                                                                *)

\* Mutant of Listed: a job that claims to run is left alone.
Listed_SkipRunning(j) ==
    IF rows[j].enabled = "yes" /\ rows[j].sched = "cron"
       /\ rows[j].status # "running"
      THEN rows[j].next ELSE "skip"

\* Mutant of Listed: disabled jobs are scheduled too.
Listed_Disabled(j) == IF rows[j].sched = "cron" THEN rows[j].next ELSE "skip"

\* What the loop of checkAndRunScheduledJobs knows of a job.
Listed(j) ==
    IF rows[j].enabled = "yes" /\ rows[j].sched = "cron"
      THEN rows[j].next ELSE "skip"

CronUnchanged == UNCHANGED <<usedIds, engine, slots, admin, work, lost>>

\* The ticker fires and the table is listed (or the query fails).
Tick ==
    /\ cron.pc = "idle" /\ engine = "started"
    /\ cron' = [cron EXCEPT !.pc = "loop", !.list = [j \in Jobs |-> Listed(j)]]
    /\ CronUnchanged /\ UNCHANGED <<rows, activeJobs, run, events>>

\* One listed job: an unset time is computed from the last run, which may
\* lie in the past, and stored; a due job is started.
Schedule(j, at) ==
    /\ cron.pc = "loop" /\ cron.list[j] # "skip"
    /\ cron.list[j] # "unset" => at = cron.list[j]
    /\ \/ /\ cron.list[j] = "unset" /\ engine = "started" /\ Exists(j)
          /\ rows' = [rows EXCEPT ![j].next = at]
          /\ UNCHANGED events
       \/ /\ cron.list[j] # "unset" \/ engine # "started" \/ ~Exists(j)
          /\ UNCHANGED <<rows, events>>
       \/ cron.list[j] = "unset" /\ Event /\ UNCHANGED rows
    /\ cron' = [cron EXCEPT !.list[j] = "skip",
                            !.pc = IF at = "due" THEN "get" ELSE "loop",
                            !.job = IF at = "due" THEN j ELSE None]
    /\ CronUnchanged /\ UNCHANGED <<activeJobs, run>>

\* RunJob looks the job up with the loop's context, ...
CronGet ==
    /\ cron.pc = "get"
    /\ cron' = IF Exists(cron.job) /\ engine = "started"
                 THEN [cron EXCEPT !.pc = "register"]
                 ELSE [cron EXCEPT !.pc = "loop", !.job = None]
    /\ CronUnchanged /\ UNCHANGED <<rows, activeJobs, run, events>>

\* ... and registers the run.
CronRegister ==
    /\ cron.pc = "register"
    /\ RunJob(cron.job)
    /\ cron' = [cron EXCEPT !.pc = "loop", !.job = None]
    /\ CronUnchanged /\ UNCHANGED <<rows, events>>

\* The loop over the list ends.
TickEnds ==
    /\ cron.pc = "loop" /\ cron.list = SkipAll
    /\ cron' = [cron EXCEPT !.pc = "idle"]
    /\ CronUnchanged /\ UNCHANGED <<rows, activeJobs, run, events>>

\* ctx.Done of the loop.
CronExit ==
    /\ cron.pc = "idle" /\ engine # "started"
    /\ cron' = [cron EXCEPT !.pc = "exited"]
    /\ CronUnchanged /\ UNCHANGED <<rows, activeJobs, run, events>>

\* The time in next_run_at is reached.
TimePasses(j) ==
    /\ rows[j].next = "later"
    /\ rows' = [rows EXCEPT ![j].next = "due"]
    /\ CronUnchanged /\ UNCHANGED <<cron, activeJobs, run, events>>

-----------------------------------------------------------------------------
(* The handlers of admin_warmup.go.  They hold mutationMu, so there is one. *)

Request == admin.pc = "idle" /\ engine \in {"started", "canceled"} /\ Spend
AdminUnchanged == UNCHANGED <<engine, slots, cron, lost>>

\* The body is decoded into a whole model.WarmupJob: prepareWarmupJob computes
\* the first occurrence and the insert stores the rest as it came, a blank
\* status as idle.
Created(sched, enabled, b) ==
    [sched |-> sched, enabled |-> enabled,
     status |-> IF b.status = "" THEN "idle" ELSE b.status,
     next |-> nextRunString(sched),
     total |-> b.total, done |-> b.done, failed |-> b.failed,
     by |-> "request"]

\* createWarmupJob
CreateWarmupJob(j, sched, enabled, b) ==
    /\ Request /\ j \notin usedIds
    /\ rows' = [rows EXCEPT ![j] = Created(sched, enabled, b)]
    /\ usedIds' = usedIds \cup {j}
    /\ AdminUnchanged /\ UNCHANGED <<activeJobs, run, admin, events>>

\* The update leaves status and counters alone and sets the next run anew.
UpdateWarmupJob(j, sched, enabled) ==
    /\ Request /\ Exists(j)
    /\ rows' = [rows EXCEPT ![j].sched = sched, ![j].enabled = enabled,
                            ![j].next = nextRunString(sched)]
    /\ AdminUnchanged /\ UNCHANGED <<usedIds, activeJobs, run, admin, events>>

\* The delete handler cancels first ...
DeleteWarmupJob(j) ==
    /\ Request /\ Exists(j)
    /\ CancelJob(j)
    /\ admin' = [pc |-> "delete", job |-> j]
    /\ AdminUnchanged /\ UNCHANGED <<rows, usedIds, activeJobs, events>>

\* ... and deletes the row afterwards, unless the store fails.
Deleted ==
    /\ admin.pc = "delete"
    /\ \/ rows' = [rows EXCEPT ![admin.job] = Absent] /\ UNCHANGED events
       \/ Event /\ UNCHANGED rows
    /\ admin' = [pc |-> "idle", job |-> None]
    /\ AdminUnchanged /\ UNCHANGED <<usedIds, activeJobs, run, work>>

\* DeleteMirror: the rows of its jobs go with it, and no run is told.
DeleteMirror(j) ==
    /\ Request /\ Exists(j)
    /\ rows' = [rows EXCEPT ![j] = Absent]
    /\ AdminUnchanged /\ UNCHANGED <<usedIds, activeJobs, run, admin, events>>

\* The run handler: GetWarmupJob, then the registration.
RunWarmupJob(j) ==
    /\ Request /\ Exists(j)
    /\ admin' = [pc |-> "register", job |-> j]
    /\ AdminUnchanged /\ UNCHANGED <<rows, usedIds, activeJobs, run, events>>

AdminRegister ==
    /\ admin.pc = "register"
    /\ RunJob(admin.job)
    /\ admin' = [pc |-> "idle", job |-> None]
    /\ AdminUnchanged /\ UNCHANGED <<rows, usedIds, work, events>>

CancelWarmupJob(j) ==
    /\ Request /\ activeJobs[j] # None
    /\ CancelJob(j)
    /\ AdminUnchanged /\ UNCHANGED <<rows, usedIds, activeJobs, admin, events>>

-----------------------------------------------------------------------------
(* Start, Stop and crashes                                                 *)

\* main cancels the context everything derives from, then waits for the
\* HTTP server; a handler that outlives the grace period goes on.
Shutdown ==
    /\ engine = "started" /\ Event
    /\ engine' = "canceled"
    /\ run' = [r \in Runs |-> IF Live(r) /\ Active(r)
                                THEN [run[r] EXCEPT !.ctx = "canceled"]
                                ELSE run[r]]
    /\ UNCHANGED <<rows, usedIds, activeJobs, slots, cron, admin, work, lost>>

Stop ==
    /\ engine = "canceled"
    /\ engine' = "stopping"
    /\ UNCHANGED <<rows, usedIds, activeJobs, run, slots, cron, admin, work,
                   events, lost>>

\* e.wg.Wait returned: the cron loop and every run have ended.
Stopped ==
    /\ engine = "stopping" /\ cron.pc = "exited" /\ \A r \in Runs : ~Active(r)
    /\ engine' = "stopped"
    /\ UNCHANGED <<rows, usedIds, activeJobs, run, slots, cron, admin, work,
                   events, lost>>

\* A new process: NewEngine and Start.  Only the table survives.
Start ==
    /\ engine' = "started"
    /\ activeJobs' = [j \in Jobs |-> None]
    /\ run' = [r \in Runs |-> NoRun] /\ slots' = 0
    /\ cron' = [pc |-> "idle", list |-> SkipAll, job |-> None]
    /\ admin' = [pc |-> "idle", job |-> None]
    /\ UNCHANGED <<rows, usedIds, work>>

Restart == engine = "stopped" /\ Start /\ UNCHANGED <<events, lost>>

Crash ==
    /\ Event /\ Start
    /\ lost' = lost \cup {j \in Jobs : activeJobs[j] # None}

-----------------------------------------------------------------------------
\* A table of jobs that have not run yet.
Init ==
    /\ rows \in [Jobs -> {Absent} \cup
                        {Created(sched, enabled, b) :
                           sched \in {"none", "cron"},
                           enabled \in {"yes", "no"}, b \in Bodies}]
    /\ usedIds = {j \in Jobs : rows[j] # Absent}
    /\ engine = "started"
    /\ activeJobs = [j \in Jobs |-> None]
    /\ run = [r \in Runs |-> NoRun] /\ slots = 0
    /\ cron = [pc |-> "idle", list |-> SkipAll, job |-> None]
    /\ admin = [pc |-> "idle", job |-> None]
    /\ work = MaxWork /\ events = MaxEvents /\ lost = {}

\* Steps a run takes by itself; a download or an extraction may hang.
RunStep(r) ==
    \/ Load(r) \/ LookupMirror(r) \/ MirrorMissing(r) \/ Begin(r)
    \/ Expand(r) \/ Expanded(r) \/ Launch(r) \/ Await(r) \/ Write(r) \/ End(r)

FetchStep(r) == DownloadEnds(r) \/ \E n \in 0..MaxTargets : Extract(r, n)

CronStep ==
    \/ Tick \/ CronGet \/ CronRegister \/ TickEnds \/ CronExit
    \/ \E j \in Jobs, at \in {"later", "due"} : Schedule(j, at)

AdminStep ==
    \/ Deleted \/ AdminRegister
    \/ \E j \in Jobs :
         \/ \E sched \in {"none", "cron"}, enabled \in {"yes", "no"} :
              \/ \E b \in Bodies : CreateWarmupJob(j, sched, enabled, b)
              \/ UpdateWarmupJob(j, sched, enabled)
         \/ DeleteWarmupJob(j) \/ DeleteMirror(j) \/ RunWarmupJob(j)
         \/ CancelWarmupJob(j)

Lifecycle == Shutdown \/ Stop \/ Stopped \/ Restart \/ Crash

Next ==
    \/ \E r \in Runs : RunStep(r) \/ FetchStep(r) \/ Timeout(r)
    \/ \E j \in Jobs : TimePasses(j)
    \/ CronStep \/ AdminStep \/ Lifecycle

Spec == Init /\ [][Next]_vars

\* A run proceeds, its deadline comes, and requests with a dead context
\* return; the ticker fires and time passes; the process shuts down and is
\* started again.  Operators and hanging upstreams owe nothing.
FairSpec ==
    /\ Spec
    /\ \A r \in Runs : /\ WF_vars(RunStep(r)) /\ WF_vars(Timeout(r))
                       /\ WF_vars(~Live(r) /\ FetchStep(r))
    /\ \A j \in Jobs : WF_vars(TimePasses(j))
    /\ WF_vars(CronStep) /\ WF_vars(Deleted \/ AdminRegister)
    /\ WF_vars(Stop \/ Stopped \/ Restart)

-----------------------------------------------------------------------------
(* Properties                                                              *)

\* A job never has two runs, although the tick and the run handler look the
\* job up before they take e.mu; and activeJobs names its run, so that a
\* cancel reaches it.
OneRunPerJob ==
    \A r \in Runs : Active(r) => activeJobs[run[r].job] = r

\* When Stop has returned, and the store is about to be closed, no run is
\* left and none begins, whatever a handler that outlived the HTTP server
\* still does.
StopWaits == engine = "stopped" => \A r \in Runs : ~Active(r)

\* Once a job has run, the table says "running" of it only while it has a
\* run, unless a crash or a store error took its final write: cancelling,
\* timing out and stopping all leave a final status.  Until its first run the
\* table says what the create request said.
SaysRunning(x) == x.status = "running" /\ x.by = "run"
RunningIsActive ==
    \A j \in Jobs : SaysRunning(rows[j]) => activeJobs[j] # None \/ j \in lost

\* The "completed" of a run accounts for every target, with at least one
\* success; no run ever reports more results than targets.
CompletedAccounts ==
    \A j \in Jobs : rows[j].by = "run" =>
      /\ rows[j].done + rows[j].failed <= rows[j].total
      /\ rows[j].status = "completed" =>
           rows[j].done > 0 /\ rows[j].done + rows[j].failed = rows[j].total

\* The requests in flight: downloads, and the extraction of metadata.
Held(x) == x.inflight + IF x.pc = "extract" THEN 1 ELSE 0
InFlight == UNION {{r} \X (1..Held(run[r])) : r \in Runs}

\* The entries of downloadSlots are the requests in flight: the limit is
\* global over all jobs and no way out of a run keeps an entry.
SlotsAreRequests ==
    slots = Cardinality(InFlight) /\ slots <= MaxConcurrency

\* The accounts of the engine are exact on every way out of a run (end,
\* cancel, timeout, shutdown, crash): the statuses and counters runs write
\* over whatever the create request left there, and the download slots.
RunsAccounted == RunningIsActive /\ CompletedAccounts /\ SlotsAreRequests

\* Every run ends, even when an upstream never answers.
RunsEnd == \A r \in Runs : Active(r) ~> ~Active(r)

Scheduled(j) == rows[j].enabled = "yes" /\ rows[j].sched = "cron"
Running(j) == \E r \in Runs : run[r].job = j

\* A job that stays enabled with a schedule in an engine that stays up is
\* run again and again: a status "running" left by a crash, a cancel that
\* cleared the next run and a lost write all recover.
ScheduledJobsRun ==
    \A j \in Jobs : <>[](Scheduled(j) /\ engine = "started") => []<>Running(j)

\* A job that stays disabled or deleted is eventually never running: a tick
\* that listed it before, or a run registered between the cancel and the
\* delete, is the last one.
UnscheduledJobsStop ==
    \A j \in Jobs : <>[](rows[j].enabled = "no") => <>[]~Running(j)

\* Every run comes to its end, and those of a disabled or deleted job for
\* good.
RunsStop == RunsEnd /\ UnscheduledJobsStop

-----------------------------------------------------------------------------
(* Statements of the repository that the code does not meet.               *)

\* docs/configuration.md: "The engine validates jobs on create/update,
\* persists the calculated `next_run_at`, recovers stale `running` schedules":
\* a status in the table is then one a run has left there.
StatusWasRun ==
    \A j \in Jobs : rows[j].status = "running" =>
                      activeJobs[j] # None \/ j \in lost
=============================================================================
