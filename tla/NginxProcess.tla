---------------------------- MODULE NginxProcess ----------------------------
(***************************************************************************)
(* The process side of the Managed Upstream Nginx in "managed" mode: the   *)
(* master processes and the PID file, activate with its child and waiter   *)
(* goroutine, the supervisor with its sliding restart window and backoff,  *)
(* and Stop at the shutdown of MirrorRelay.                                *)
(*                                                                         *)
(* What is activated is the business of NginxController; here an apply is  *)
(* an activation under applyMu that may fail.  currentPID is Named: the    *)
(* PID file names a live master.  Restart times are kept as ages, so that  *)
(* time is unbounded and the state finite.                                 *)
(***************************************************************************)
EXTENDS Naturals, Sequences, FiniteSets

CONSTANTS
  Pids,               \* process ids (positive; a reaped one may be reused)
  RestartMaxFailures, \* upstream_nginx.restart_max_failures
  RestartWindow       \* upstream_nginx.restart_window, in clock ticks

ASSUME ProcessAssumption ==
  /\ Pids \subseteq Nat \ {0} /\ Pids # {}
  /\ RestartMaxFailures \in Nat \ {0} /\ RestartWindow \in Nat \ {0}

MasterStates == {"gone", "booting", "up", "quitting"}
States == {"running", "reloading", "starting", "restarting", "stopping", "stopped", "failed"}
ActSteps == {"none", "begin", "reload", "reloaded", "start", "record", "spawn", "poll", "ready"}

VARIABLES
  master,    \* the master processes of the operating system
  pidfile,   \* the PID in upstream_nginx.pid, or 0
  state,     \* Controller.status.State
  childPID,  \* Controller.childPID
  waiters,   \* PIDs a waitForManagedProcess goroutine waits for
  applyMu,   \* "free", "sup" or "apply"
  act,       \* the activation under applyMu: its step and the started PID
  sup,       \* the supervisor goroutine
  apply,     \* an apply or scheduled refresh
  failures,  \* Controller.failures, as ages
  recent,    \* auxiliary: ages of the supervisor's restarts of the last window
  main,      \* runProduct
  quiet      \* auxiliary: nothing was starting when the context was cancelled

processVars == <<master, pidfile, state, childPID, waiters, applyMu, act, sup, apply,
                 failures, recent, main, quiet>>

Alive(p) == master[p] # "gone"
Named == pidfile # 0 /\ Alive(pidfile)      \* currentPID
Cancelled == main # "running"
Exited == main \in {"stopped", "stop_failed", "exited"}
Bound == \E p \in Pids : master[p] \in {"up", "quitting"}

NoAct == [step |-> "none", pid |-> 0]
Step(s) == act' = [act EXCEPT !.step = s]

-----------------------------------------------------------------------------
(* activate, in the hands of whoever holds applyMu. *)

Activate ==
  /\ act.step = "begin"
  /\ IF Named THEN state' = "reloading" /\ Step("reload")
              ELSE state' = "starting" /\ Step("start")
  /\ UNCHANGED <<master, pidfile, childPID, waiters, applyMu, sup, apply, failures, recent, main, quiet>>

(* The activation returns: the supervisor unlocks before setFailure, an    *)
(* apply records its failure under the lock.                               *)
Return(ok) ==
  /\ act' = NoAct
  /\ IF applyMu = "sup"
     THEN /\ sup' = IF ok THEN "idle" ELSE "failing"
          /\ applyMu' = "free" /\ UNCHANGED apply
     ELSE /\ apply' = IF ok THEN "idle" ELSE "failing"
          /\ applyMu' = IF ok THEN "free" ELSE "apply"
          /\ UNCHANGED sup

ActivateFails ==
  /\ act.step \in {"reload", "reloaded", "start", "poll", "ready"}
  /\ Return(FALSE)
  /\ UNCHANGED <<master, pidfile, state, childPID, waiters, failures, recent, main, quiet>>

(* "nginx -s reload" reaches the master; a cancelled context refuses it. *)
Reload ==
  /\ act.step = "reload" /\ Named /\ ~Cancelled
  /\ state' = "running" /\ Step("reloaded")
  /\ UNCHANGED <<master, pidfile, childPID, waiters, applyMu, sup, apply, failures, recent, main, quiet>>

(* waitForUpstreamEndpoint after a reload. *)
Reloaded ==
  /\ act.step = "reloaded" /\ Bound
  /\ Return(TRUE)
  /\ UNCHANGED <<master, pidfile, state, childPID, waiters, failures, recent, main, quiet>>

(* checkPorts and prepareUpstreamEndpoint find no listener; the process    *)
(* starts.  No context is consulted.                                       *)
StartMaster ==
  /\ act.step = "start" /\ ~Bound
  /\ \E p \in Pids \ waiters :
       /\ ~Alive(p)
       /\ master' = [master EXCEPT ![p] = "booting"]
       /\ act' = [step |-> "record", pid |-> p]
  /\ UNCHANGED <<pidfile, state, childPID, waiters, applyMu, sup, apply, failures, recent, main, quiet>>

RecordChild ==
  /\ act.step = "record"
  /\ childPID' = act.pid
  /\ Step("spawn")
  /\ UNCHANGED <<master, pidfile, state, waiters, applyMu, sup, apply, failures, recent, main, quiet>>

SpawnWaiter ==
  /\ act.step = "spawn"
  /\ waiters' = waiters \cup {act.pid}
  /\ Step("poll")
  /\ UNCHANGED <<master, pidfile, state, childPID, applyMu, sup, apply, failures, recent, main, quiet>>

(* A live PID within 5 seconds, then a reachable endpoint. *)
Poll ==
  /\ act.step = "poll" /\ Named
  /\ Step("ready")
  /\ UNCHANGED <<master, pidfile, state, childPID, waiters, applyMu, sup, apply, failures, recent, main, quiet>>

Ready ==
  /\ act.step = "ready" /\ Bound
  /\ state' = "running"
  /\ Return(TRUE)
  /\ UNCHANGED <<master, pidfile, childPID, waiters, failures, recent, main, quiet>>

(* waitForManagedProcess. *)
WaitReturns(p) ==
  /\ p \in waiters /\ ~Alive(p)
  /\ waiters' = waiters \ {p}
  /\ IF childPID = p
     THEN /\ childPID' = 0
          /\ state' = CASE state = "stopping" -> "stopped"
                        [] state = "stopped" -> "stopped"
                        [] OTHER -> "restarting"
     ELSE UNCHANGED <<childPID, state>>
  /\ UNCHANGED <<master, pidfile, applyMu, act, sup, apply, failures, recent, main, quiet>>

(* setFailure *)
Failed == state' = IF Named THEN "running" ELSE "failed"

-----------------------------------------------------------------------------
(* An apply: Reconcile and its callers.  Validation runs nginx -t with the *)
(* context first, so none reaches activate after it was cancelled.         *)
ApplyBegin ==
  /\ apply = "idle" /\ applyMu = "free" /\ ~Cancelled
  /\ applyMu' = "apply" /\ apply' = "holding" /\ Step("begin")
  /\ UNCHANGED <<master, pidfile, state, childPID, waiters, sup, failures, recent, main, quiet>>

ApplyFailed ==
  /\ apply = "failing"
  /\ Failed
  /\ apply' = "idle" /\ applyMu' = "free"
  /\ UNCHANGED <<master, pidfile, childPID, waiters, act, sup, failures, recent, main, quiet>>

-----------------------------------------------------------------------------
(* supervise *)

(* A tick that finds no master, no shutdown and no child to wait for. *)
SupTick ==
  /\ sup = "idle" /\ ~Named
  /\ state \notin {"stopped", "stopping"} /\ childPID = 0
  /\ state' = IF state = "running" THEN "restarting" ELSE state
  /\ sup' = "gate"
  /\ UNCHANGED <<master, pidfile, childPID, waiters, applyMu, act, apply, failures, recent, main, quiet>>

(* What of a list of ages is within the window.  Times are appended in     *)
(* order, so what the loop keeps is what follows the last one that is out. *)
LastOut(ages) ==
  CHOOSE n \in 0..Len(ages) : /\ n = 0 \/ ages[n] >= RestartWindow
                              /\ \A i \in (n + 1)..Len(ages) : ages[i] < RestartWindow
Within(ages) == SubSeq(ages, LastOut(ages) + 1, Len(ages))

(* Mutant: what is out of the window still counts. *)
Kept_All == failures

(* The failures after the cutoff. *)
Kept == Within(failures)

(* Mutant: the limit is not compared. *)
MayRestart_Unlimited ==
  /\ sup = "gate"
  /\ failures' = Append(Kept, 0)
  /\ sup' = IF Cancelled THEN "late" ELSE "backoff"
  /\ UNCHANGED <<master, pidfile, state, childPID, waiters, applyMu, act, apply, recent, main, quiet>>

(* mayRestart; refused at the limit.  "late": the backoff is entered with  *)
(* the context already cancelled.                                          *)
MayRestart ==
  /\ sup = "gate"
  /\ IF Len(Kept) >= RestartMaxFailures
     THEN failures' = Kept /\ sup' = "failing"
     ELSE failures' = Append(Kept, 0) /\ sup' = IF Cancelled THEN "late" ELSE "backoff"
  /\ UNCHANGED <<master, pidfile, state, childPID, waiters, applyMu, act, apply, recent, main, quiet>>

(* Mutant: the backoff is slept without watching the context. *)
BackoffOver_Deaf ==
  /\ sup \in {"backoff", "late"}
  /\ sup' = "lock"
  /\ UNCHANGED <<master, pidfile, state, childPID, waiters, applyMu, act, apply, failures, recent, main, quiet>>

(* The timer of the backoff fires; a context cancelled before the select   *)
(* always wins, one cancelled meanwhile may lose.                          *)
BackoffOver ==
  /\ sup = "backoff"
  /\ sup' = "lock"
  /\ UNCHANGED <<master, pidfile, state, childPID, waiters, applyMu, act, apply, failures, recent, main, quiet>>

SupLock ==
  /\ sup = "lock" /\ applyMu = "free"
  /\ IF Named
     THEN sup' = "idle" /\ UNCHANGED <<applyMu, act, recent>>
     ELSE /\ sup' = "holding" /\ applyMu' = "sup" /\ Step("begin")
          /\ recent' = Append(recent, 0)
  /\ UNCHANGED <<master, pidfile, state, childPID, waiters, apply, failures, main, quiet>>

SupFailed ==
  /\ sup = "failing"
  /\ Failed
  /\ sup' = "idle"
  /\ UNCHANGED <<master, pidfile, childPID, waiters, applyMu, act, apply, failures, recent, main, quiet>>

SupExit ==
  /\ sup \in {"idle", "backoff", "late"} /\ Cancelled
  /\ sup' = "exit"
  /\ UNCHANGED <<master, pidfile, state, childPID, waiters, applyMu, act, apply, failures, recent, main, quiet>>

-----------------------------------------------------------------------------
(* runProduct: cancel(), the HTTP server and the statistics, then Stop     *)
(* unless this is a restart or stop_on_mirrorrelay_exit is off.            *)
Cancel ==
  /\ main = "running"
  /\ main' = "cancelled"
  /\ quiet' = /\ applyMu = "free" /\ apply = "idle" /\ sup \in {"idle", "gate", "failing"}
              /\ \A p \in Pids : master[p] # "booting"
  /\ UNCHANGED <<master, pidfile, state, childPID, waiters, applyMu, act, sup, apply, failures, recent>>

ExitWithoutStop ==
  /\ main = "cancelled"
  /\ main' = "exited"
  /\ UNCHANGED <<master, pidfile, state, childPID, waiters, applyMu, act, sup, apply, failures, recent, quiet>>

StopBegin ==
  /\ main = "cancelled"
  /\ IF Named THEN state' = "stopping" /\ main' = "quit" ELSE main' = "stopped" /\ UNCHANGED state
  /\ UNCHANGED <<master, pidfile, childPID, waiters, applyMu, act, sup, apply, failures, recent, quiet>>

(* "nginx -s quit": the command fails, or the master drains its connections. *)
StopQuit ==
  /\ main = "quit"
  /\ \/ /\ Named /\ main' = "stopping"
        /\ master' = [master EXCEPT ![pidfile] = IF @ = "up" THEN "quitting" ELSE @]
     \/ main' = "stop_failed" /\ UNCHANGED master
  /\ UNCHANGED <<pidfile, state, childPID, waiters, applyMu, act, sup, apply, failures, recent, quiet>>

(* The loop that waits for the master: gone, or the 30 seconds are over. *)
StopWait ==
  /\ main = "stopping"
  /\ IF Named THEN main' = "stop_failed" /\ UNCHANGED state
              ELSE main' = "stopped" /\ state' = "stopped"
  /\ UNCHANGED <<master, pidfile, childPID, waiters, applyMu, act, sup, apply, failures, recent, quiet>>

-----------------------------------------------------------------------------
(* The operating system and Nginx. *)

(* A master binds its sockets and writes the PID file. *)
MasterUp(p) ==
  /\ master[p] = "booting" /\ ~Bound
  /\ master' = [master EXCEPT ![p] = "up"]
  /\ pidfile' = p
  /\ UNCHANGED <<state, childPID, waiters, applyMu, act, sup, apply, failures, recent, main, quiet>>

(* A master ends: it quits, is killed, or cannot bind.  Only an orderly end *)
(* removes the PID file.                                                    *)
MasterEnds(p) ==
  /\ Alive(p)
  /\ master' = [master EXCEPT ![p] = "gone"]
  /\ pidfile' \in {pidfile, IF pidfile = p THEN 0 ELSE pidfile}
  /\ UNCHANGED <<state, childPID, waiters, applyMu, act, sup, apply, failures, recent, main, quiet>>

Older(age) == IF age < RestartWindow THEN age + 1 ELSE age

(* The clock matters to restarts, and no longer once the context is cancelled. *)
ClockTicks ==
  /\ ~Cancelled
  /\ failures' = [i \in DOMAIN failures |-> Older(failures[i])]
  /\ recent' = Within([i \in DOMAIN recent |-> Older(recent[i])])
  /\ UNCHANGED <<master, pidfile, state, childPID, waiters, applyMu, act, sup, apply, main, quiet>>

-----------------------------------------------------------------------------
(* The process is up and Nginx runs, started by it or found at its start. *)
ProcessInit ==
  LET p == CHOOSE p \in Pids : TRUE
  IN
    /\ master = [q \in Pids |-> IF q = p THEN "up" ELSE "gone"]
    /\ pidfile = p /\ state = "running"
    /\ \/ childPID = p /\ waiters = {p}
       \/ childPID = 0 /\ waiters = {}
    /\ applyMu = "free" /\ act = NoAct /\ sup = "idle" /\ apply = "idle"
    /\ failures = <<>> /\ recent = <<>> /\ main = "running" /\ quiet = FALSE

ActivationStep ==
  \/ Activate \/ ActivateFails \/ Reload \/ Reloaded \/ StartMaster \/ RecordChild
  \/ SpawnWaiter \/ Poll \/ Ready
SupStep == SupTick \/ MayRestart \/ BackoffOver \/ SupFailed \/ SupExit
WaiterStep == \E p \in Pids : WaitReturns(p)

ProcessNext ==
  /\ ~Exited      \* the process and its goroutines are gone
  /\ \/ ActivationStep \/ WaiterStep
     \/ ApplyBegin \/ ApplyFailed
     \/ SupStep \/ SupLock
     \/ Cancel \/ ExitWithoutStop \/ StopBegin \/ StopQuit \/ StopWait
     \/ \E p \in Pids : MasterUp(p) \/ MasterEnds(p)
     \/ ClockTicks

(* Goroutines run, the clock advances, a sync.Mutex starves nobody; neither *)
(* Nginx nor an operator has to do anything.                                *)
ProcessFairness ==
  /\ WF_processVars(~Exited /\ ActivationStep)
  /\ WF_processVars(~Exited /\ WaiterStep)
  /\ WF_processVars(~Exited /\ ApplyFailed)
  /\ WF_processVars(~Exited /\ SupStep)
  /\ SF_processVars(~Exited /\ SupLock)
  /\ WF_processVars(~Exited /\ ClockTicks)

ProcessSpec == ProcessInit /\ [][ProcessNext]_processVars /\ ProcessFairness

-----------------------------------------------------------------------------
(* Every variable has its type, and applyMu is held exactly by the goroutine *)
(* that is activating, or recording the failure of an apply.                 *)
ProcessTypeOK ==
  /\ master \in [Pids -> MasterStates] /\ pidfile \in Pids \cup {0}
  /\ state \in States /\ childPID \in Pids \cup {0} /\ waiters \subseteq Pids
  /\ applyMu \in {"free", "sup", "apply"}
  /\ act \in [step: ActSteps, pid: Pids \cup {0}]
  /\ sup \in {"idle", "gate", "backoff", "late", "lock", "holding", "failing", "exit"}
  /\ apply \in {"idle", "holding", "failing"}
  /\ failures \in Seq(0..RestartWindow) /\ recent \in Seq(0..RestartWindow)
  /\ main \in {"running", "cancelled", "quit", "stopping", "stopped", "stop_failed", "exited"}
  /\ quiet \in BOOLEAN
  /\ (applyMu = "sup") = (sup = "holding")
  /\ (applyMu = "apply") = (apply # "idle")
  /\ (act.step # "none") = (sup = "holding" \/ apply = "holding")

(* The restart limit is a sliding window, but the backoff lies between the *)
(* count and the restart: in any window there are at most one more restart *)
(* than restart_max_failures (mayRestart, supervise).                      *)
RestartsBounded == Len(recent) <= RestartMaxFailures + 1

(* If nothing was being started when the context was cancelled, Stop       *)
(* returns without error only when no master is left, although it takes no *)
(* lock and the supervisor may see one more tick (supervise, Stop).        *)
StopLeavesNoMaster == main = "stopped" /\ quiet => \A p \in Pids : ~Alive(p)

(* A dead Nginx is started again, even after the restart limit was hit:    *)
(* the window moves on and the supervisor tries (mayRestart).              *)
RestartsResume ==
  (main = "running" /\ \A p \in Pids : ~Alive(p))
    ~> (main # "running" \/ act.step = "start" \/ \E p \in Pids : Alive(p))
=============================================================================
