---------------------------- MODULE WarmupProofs ----------------------------
(***************************************************************************)
(* Proofs about Warmup, for any sets of jobs and runs and any limits.      *)
(* Base is the type invariant with the facts the steps need to be well     *)
(* typed, OneRunPerJob among them; the other layers rest on it.            *)
(***************************************************************************)
EXTENDS Warmup, FiniteSetTheorems, TLAPS

Table == [Jobs -> Row \cup {Absent}]

\* Who holds a job at which step.
ProcInv ==
    /\ cron.pc \in {"get", "register"} => cron.job \in Jobs
    /\ admin.pc # "idle" => admin.job \in Jobs

\* A run in progress has a job; a free slot is blank; what is about to be
\* written has been decided.
RunInv ==
    \A r \in Runs : /\ Active(r) => run[r].job \in Jobs
                    /\ ~Active(r) => run[r] = NoRun
                    /\ run[r].pc = "write" => run[r].outcome # "none"

\* activeJobs and the runs in progress name each other.
MapInv ==
    /\ OneRunPerJob
    /\ \A j \in Jobs : activeJobs[j] # None =>
         Active(activeJobs[j]) /\ run[activeJobs[j]].job = j

RunPart ==
    /\ run \in [Runs -> Run] /\ activeJobs \in [Jobs -> Runs \cup {None}]
    /\ RunInv /\ MapInv

Rest ==
    /\ rows \in Table /\ usedIds \subseteq Jobs
    /\ engine \in {"started", "canceled", "stopping", "stopped"}
    /\ slots \in Int /\ cron \in Cron /\ admin \in Admin
    /\ work \in Nat /\ events \in Nat /\ lost \subseteq Jobs
    /\ ProcInv

Base == RunPart /\ Rest

-----------------------------------------------------------------------------
\* A write of the engine keeps the table's type.
LEMMA ProgressType ==
    ASSUME rows \in Table, NEW j \in Jobs,
           NEW status \in Final \cup {"idle", "running"},
           NEW total \in Nat, NEW done \in Nat, NEW failed \in Nat,
           NEW next \in {"unset", "later", "due"}
    PROVE  UpdateWarmupJobProgress(j, status, total, done, failed, next)
             \in Table
<1>1. CASE Exists(j)
  <2>1. rows[j] \in Row
    BY <1>1 DEF Exists, Table
  <2>a. status \in Statuses BY DEF Statuses
  <2>b. total \in Int /\ done \in Int /\ failed \in Int OBVIOUS
  <2>c. [rows[j] EXCEPT !.status = status, !.total = total, !.done = done] \in Row
    BY <2>1, <2>a, <2>b DEF Row
  <2>d. \A y \in Row : [y EXCEPT !.failed = failed, !.next = next, !.by = "run"] \in Row
    BY <2>b DEF Row
  <2>2. [rows[j] EXCEPT !.status = status, !.total = total, !.done = done,
                        !.failed = failed, !.next = next, !.by = "run"] \in Row
    BY <2>c, <2>d
  <2> QED BY <1>1, <2>2 DEF Table, UpdateWarmupJobProgress
<1>2. CASE ~Exists(j)
  BY <1>2 DEF UpdateWarmupJobProgress
<1> QED BY <1>1, <1>2

\* A run that goes on to its last write with an outcome.
LEMMA OutcomeType ==
    ASSUME NEW x \in Run, NEW o \in Final \cup {"timeout"}
    PROVE  LET rec == [x EXCEPT !.pc = "write", !.outcome = o]
           IN  rec \in Run /\ rec.pc # "none" /\ rec.job = x.job /\ rec.outcome # "none"
BY DEF Run, Final

(* The next run of a schedule has one of three values.                     *)
LEMMA NextRunType ==
    \A sched : nextRunString(sched) \in {"unset", "later", "due"}
BY DEF nextRunString

\* A step of a run in progress that keeps its job.
Stays(r) ==
    /\ run' = [run EXCEPT ![r] = run'[r]] /\ run'[r] \in Run
    /\ run'[r].pc # "none" /\ run'[r].job = run[r].job
    /\ run'[r].pc = "write" => run'[r].outcome # "none"
    /\ UNCHANGED activeJobs

\* The map needs no change then.
LEMMA RunUpdate ==
    ASSUME RunPart, NEW r \in Runs, Active(r), Stays(r)
    PROVE  RunPart'
BY DEF RunPart, RunInv, MapInv, OneRunPerJob, Active, Stays

(* A run that moves on without leaving the map of active jobs.             *)
LEMMA BecomesStays ==
    ASSUME RunPart, NEW r \in Runs, NEW rec \in Run, Becomes(r, rec),
           UNCHANGED activeJobs, rec.pc # "none", rec.job = run[r].job,
           rec.pc = "write" => rec.outcome # "none"
    PROVE  Stays(r)
BY DEF RunPart, Becomes, Stays

\* RunJob fills a free slot and the empty entry of the job, or does nothing.
LEMMA RunJobPart ==
    ASSUME RunPart, NEW j \in Jobs, RunJob(j)
    PROVE  RunPart'
<1>1. CASE Accepts(j) /\ \E r \in Runs : ~Active(r)
  <2> DEFINE r == CHOOSE x \in Runs : ~Active(x)
             rec == [NoRun EXCEPT !.pc = "load", !.job = j,
                     !.ctx = IF engine = "started" THEN "live" ELSE "canceled"]
  <2>1. r \in Runs /\ ~Active(r) BY <1>1
  <2>2. rec \in Run /\ rec.pc = "load" /\ rec.job = j
    BY DEF Run, NoRun, Final
  <2>3. CASE Register(j, r)
    <3>1. run' = [run EXCEPT ![r] = rec] /\ activeJobs' = [activeJobs EXCEPT ![j] = r]
      BY <2>3 DEF Register, Becomes
    <3>2. activeJobs[j] = None BY <1>1 DEF Accepts
    <3> HIDE DEF r, rec
    <3> QED BY <2>1, <2>2, <3>1, <3>2, NoneAssumption
        DEF RunPart, RunInv, MapInv, OneRunPerJob, Active
  <2>4. CASE UNCHANGED <<activeJobs, run>>
    BY <2>4 DEF RunPart, RunInv, MapInv, OneRunPerJob, Active
  <2> QED BY <2>3, <2>4, <1>1 DEF RunJob
<1>2. CASE ~(Accepts(j) /\ \E r \in Runs : ~Active(r))
  BY <1>2 DEF RunJob, RunPart, RunInv, MapInv, OneRunPerJob, Active
<1> QED BY <1>1, <1>2

\* New contexts of runs in progress leave everything here as it was.
Recontext(r) ==
    /\ run'[r] \in Run /\ run'[r].pc = run[r].pc /\ run'[r].job = run[r].job
    /\ run'[r].outcome = run[r].outcome
    /\ ~Active(r) => run'[r] = run[r]

(* Cancelling contexts leaves the runs where they are.                     *)
LEMMA ContextsOnly ==
    ASSUME RunPart, run' = [r \in Runs |-> run'[r]], UNCHANGED activeJobs,
           \A r \in Runs : Recontext(r)
    PROVE  RunPart'
<1> USE DEF Recontext
<1>0. run' \in [Runs -> Run]
  <2>1. \A r \in Runs : run'[r] \in Run OBVIOUS
  <2> HIDE DEF Recontext
  <2> QED BY <2>1
<1>1. RunInv' BY DEF RunPart, RunInv, Active, NoRun
<1>2. MapInv' BY DEF RunPart, MapInv, OneRunPerJob, Active, RunInv
<1> QED BY <1>0, <1>1, <1>2 DEF RunPart

(* A cancelled run differs in its context only.                            *)
LEMMA CancelRec ==
    ASSUME NEW rec \in Run
    PROVE  /\ [rec EXCEPT !.ctx = "canceled"] \in Run
           /\ [rec EXCEPT !.ctx = "canceled"].pc = rec.pc
           /\ [rec EXCEPT !.ctx = "canceled"].job = rec.job
           /\ [rec EXCEPT !.ctx = "canceled"].outcome = rec.outcome
BY DEF Run

\* CancelJob touches the context of a run in progress only.
LEMMA CancelJobPart ==
    ASSUME RunPart, NEW j \in Jobs, CancelJob(j), UNCHANGED activeJobs
    PROVE  RunPart'
<1>1. \A r \in Runs : activeJobs[j] = r => Active(r)
  BY NoneAssumption DEF RunPart, MapInv
<1>3. \A r \in Runs : Recontext(r)
  <2> SUFFICES ASSUME NEW r \in Runs PROVE Recontext(r) OBVIOUS
  <2>1. run[r] \in Run BY DEF RunPart
  <2>2. CASE activeJobs[j] = r /\ Live(r)
    BY <1>1, <2>1, <2>2, CancelRec DEF CancelJob, Recontext
  <2>3. CASE ~(activeJobs[j] = r /\ Live(r))
    BY <2>1, <2>3 DEF CancelJob, Recontext
  <2> QED BY <2>2, <2>3
<1>4. run' = [r \in Runs |-> run'[r]] BY DEF CancelJob
<1> QED BY <1>3, <1>4, ContextsOnly

(* Steps of others leave the runs alone.                                   *)
LEMMA RunPartUnchanged ==
    ASSUME RunPart, UNCHANGED <<run, activeJobs>> PROVE RunPart'
BY DEF RunPart, RunInv, MapInv, OneRunPerJob, Active

(* A create request makes a row, whatever its body says.                   *)
LEMMA CreatedRow ==
    ASSUME NEW sched \in {"none", "cron"}, NEW enabled \in {"yes", "no"}, NEW b \in Bodies
    PROVE  Created(sched, enabled, b) \in Row
<1>1. b \in Body BY BodiesAssumption
<1>2. nextRunString(sched) \in {"unset", "later", "due"} BY DEF nextRunString
<1>3. (IF b.status = "" THEN "idle" ELSE b.status) \in Statuses
  BY <1>1 DEF Body, Statuses
<1> QED BY <1>1, <1>2, <1>3 DEF Created, Row, Body

(* The invariant at the start.                                             *)
LEMMA BaseInit == Init => Base
<1> SUFFICES ASSUME Init PROVE Base OBVIOUS
<1>1. NoRun \in Run BY DEF NoRun, Run, Final
<1>2. RunPart
  BY <1>1 DEF Init, RunPart, RunInv, MapInv, OneRunPerJob, Active, NoRun
<1>3. rows \in Table
  BY CreatedRow DEF Init, Table
<1>4. Rest
  BY <1>3, BoundAssumption DEF Init, Rest, ProcInv, Cron, Admin, SkipAll
<1> QED BY <1>2, <1>4 DEF Base

-----------------------------------------------------------------------------
(* Every step preserves Base.                                              *)

(* It is inductive.                                                        *)
LEMMA BaseNext == Base /\ [Next]_vars => Base'
<1> SUFFICES ASSUME Base, [Next]_vars PROVE Base' OBVIOUS
<1> USE DEF Base
<1>0. \A r \in Runs :
        /\ run[r] \in Run /\ run[r].left \in Nat /\ run[r].inflight \in Nat
        /\ run[r].depth \in Nat /\ run[r].total \in Nat
        /\ run[r].done \in Nat /\ run[r].failed \in Nat
        /\ run[r].pc = "write" => run[r].outcome # "none"
  BY DEF RunPart, RunInv, Run
<1>1. ASSUME NEW r \in Runs, Load(r) PROVE Base'
  <2>0. /\ run[r].pc # "none" /\ run[r].job \in Jobs
        /\ Exists(run[r].job) => rows[run[r].job].sched \in {"none", "cron"}
    BY <1>1 DEF Load, RunPart, RunInv, Active, Exists, Rest, Table, Row
  <2>1. Active(r) /\ Stays(r)
    <3>1. Active(r) /\ UNCHANGED activeJobs
      BY <1>1 DEF Load, RunPart, RunInv, Active, NoRun
    <3>2. ASSUME Exists(run[r].job),
                 Becomes(r, [run[r] EXCEPT !.pc = "mirror", !.sched = rows[run[r].job].sched])
          PROVE  Stays(r)
      <4> DEFINE s == rows[run[r].job].sched
      <4> DEFINE rec == [run[r] EXCEPT !.pc = "mirror", !.sched = s]
      <4>3. s \in {"none", "cron"}
        BY <1>1, <3>2, <1>0, LimitAssumption, <2>0 DEF Load
      <4>1. /\ rec \in Run /\ rec.pc # "none" /\ rec.job = run[r].job
            /\ rec.pc = "write" => rec.outcome # "none"
        <5> HIDE DEF s
        <5> QED BY <1>0, <4>3, <1>1, <3>1 DEF Run, Active
      <4>2. Becomes(r, rec) BY <3>2
      <4> HIDE DEF rec
      <4> QED BY <4>1, <4>2, <3>1, BecomesStays
    <3>4. ASSUME Becomes(r, [run[r] EXCEPT !.pc = "end"])
          PROVE  Stays(r)
      <4> DEFINE rec == [run[r] EXCEPT !.pc = "end"]
      <4>1. /\ rec \in Run /\ rec.pc # "none" /\ rec.job = run[r].job
            /\ rec.pc = "write" => rec.outcome # "none"
        BY <1>0 DEF Run
      <4>2. Becomes(r, rec) BY <3>4
      <4> HIDE DEF rec
      <4> QED BY <4>1, <4>2, <3>1, BecomesStays
    <3> QED BY <1>1, <3>1, <3>2, <3>4 DEF Load
  <2>2. RunPart' BY <2>1, RunUpdate
  <2> QED BY <1>1, <2>2 DEF Load, Rest, ProcInv, Event
<1>2. ASSUME NEW r \in Runs, LookupMirror(r) PROVE Base'
  <2>1. Active(r) /\ Stays(r)
    <3>1. Active(r) /\ UNCHANGED activeJobs
      BY <1>2 DEF LookupMirror, RunPart, RunInv, Active, NoRun
    <3>2. ASSUME Becomes(r, [run[r] EXCEPT !.pc = "begin"])
          PROVE  Stays(r)
      <4> DEFINE rec == [run[r] EXCEPT !.pc = "begin"]
      <4>1. /\ rec \in Run /\ rec.pc # "none" /\ rec.job = run[r].job
            /\ rec.pc = "write" => rec.outcome # "none"
        BY <1>0 DEF Run
      <4>2. Becomes(r, rec) BY <3>2
      <4> HIDE DEF rec
      <4> QED BY <4>1, <4>2, <3>1, BecomesStays
    <3>4. ASSUME Becomes(r, [run[r] EXCEPT !.pc = "missing"])
          PROVE  Stays(r)
      <4> DEFINE rec == [run[r] EXCEPT !.pc = "missing"]
      <4>1. /\ rec \in Run /\ rec.pc # "none" /\ rec.job = run[r].job
            /\ rec.pc = "write" => rec.outcome # "none"
        BY <1>0 DEF Run
      <4>2. Becomes(r, rec) BY <3>4
      <4> HIDE DEF rec
      <4> QED BY <4>1, <4>2, <3>1, BecomesStays
    <3> QED BY <1>2, <3>1, <3>2, <3>4 DEF LookupMirror
  <2>2. RunPart' BY <2>1, RunUpdate
  <2> QED BY <1>2, <2>2 DEF LookupMirror, Rest, ProcInv, Event
<1>3. ASSUME NEW r \in Runs, MirrorMissing(r) PROVE Base'
  <2>1. Active(r) /\ Stays(r)
    <3>1. Active(r) /\ UNCHANGED activeJobs
      BY <1>3 DEF MirrorMissing, RunPart, RunInv, Active, NoRun
    <3>2. ASSUME Becomes(r, [run[r] EXCEPT !.pc = "end"])
          PROVE  Stays(r)
      <4> DEFINE rec == [run[r] EXCEPT !.pc = "end"]
      <4>1. /\ rec \in Run /\ rec.pc # "none" /\ rec.job = run[r].job
            /\ rec.pc = "write" => rec.outcome # "none"
        BY <1>0 DEF Run
      <4>2. Becomes(r, rec) BY <3>2
      <4> HIDE DEF rec
      <4> QED BY <4>1, <4>2, <3>1, BecomesStays
    <3> QED BY <1>3, <3>1, <3>2 DEF MirrorMissing
  <2>2. RunPart' BY <2>1, RunUpdate
  <2>3. rows' \in Table
    <3>1. run[r].job \in Jobs BY <2>1 DEF RunPart, RunInv
    <3>2. "failed" \in Final \cup {"idle", "running"} /\ 0 \in Nat BY DEF Final
    <3>3. UpdateWarmupJobProgress(run[r].job, "failed", 0, 0, 0,
                                  nextRunString(run[r].sched)) \in Table
      BY <3>1, <3>2, ProgressType, NextRunType DEF Rest
    <3> QED BY <1>3, <3>3 DEF MirrorMissing, Rest
  <2> QED BY <1>3, <2>2, <2>3 DEF MirrorMissing, Rest, ProcInv, Event
<1>4. ASSUME NEW r \in Runs, Begin(r) PROVE Base'
  <2>1. Active(r) /\ Stays(r)
    <3>1. Active(r) /\ UNCHANGED activeJobs
      BY <1>4 DEF Begin, RunPart, RunInv, Active, NoRun
    <3>2. ASSUME Becomes(r, [run[r] EXCEPT !.pc = "expand", !.total = 1])
          PROVE  Stays(r)
      <4> DEFINE rec == [run[r] EXCEPT !.pc = "expand", !.total = 1]
      <4>1. /\ rec \in Run /\ rec.pc # "none" /\ rec.job = run[r].job
            /\ rec.pc = "write" => rec.outcome # "none"
        BY <1>0, ZenonT(40) DEF Run
      <4>2. Becomes(r, rec) BY <3>2
      <4> HIDE DEF rec
      <4> QED BY <4>1, <4>2, <3>1, BecomesStays
    <3> QED BY <1>4, <3>1, <3>2 DEF Begin
  <2>2. RunPart' BY <2>1, RunUpdate
  <2>3. rows' \in Table
    <3>1. run[r].job \in Jobs BY <2>1 DEF RunPart, RunInv
    <3>2. UpdateWarmupJobProgress(run[r].job, "running", 1, 0, 0, "unset") \in Table
      BY <3>1, ProgressType DEF Rest
    <3> QED BY <1>4, <3>2 DEF Begin, Rest
  <2> QED BY <1>4, <2>2, <2>3 DEF Begin, Rest, ProcInv, Event
<1>5. ASSUME NEW r \in Runs, Expand(r) PROVE Base'
  <2>1. Active(r) /\ Stays(r)
    <3>1. Active(r) /\ UNCHANGED activeJobs
      BY <1>5 DEF Expand, RunPart, RunInv, Active, NoRun
    <3>2. ASSUME Becomes(r, [run[r] EXCEPT !.pc = "extract", !.depth = @ + 1])
          PROVE  Stays(r)
      <4> DEFINE d == run[r].depth + 1
      <4> DEFINE rec == [run[r] EXCEPT !.pc = "extract", !.depth = d]
      <4>3. d \in Nat
        BY <1>5, <3>2, <1>0, LimitAssumption DEF Expand
      <4>1. /\ rec \in Run /\ rec.pc # "none" /\ rec.job = run[r].job
            /\ rec.pc = "write" => rec.outcome # "none"
        <5> HIDE DEF d
        <5> QED BY <1>0, <4>3, ZenonT(40) DEF Run
      <4>2. Becomes(r, rec) BY <3>2
      <4> HIDE DEF rec
      <4> QED BY <4>1, <4>2, <3>1, BecomesStays
    <3> QED BY <1>5, <3>1, <3>2 DEF Expand
  <2>2. RunPart' BY <2>1, RunUpdate
  <2> QED BY <1>5, <2>2 DEF Expand, Rest, ProcInv, Event
<1>6. ASSUME NEW r \in Runs, NEW n \in 0..MaxTargets,
              Extract(r, n) PROVE Base'
  <2>1. Active(r) /\ Stays(r)
    <3>1. Active(r) /\ UNCHANGED activeJobs
      BY <1>6 DEF Extract, AfterExtract, RunPart, RunInv, Active, NoRun
    <3>2. ASSUME Becomes(r, [run[r] EXCEPT !.pc = "write", !.total = 0, !.outcome = "failed"])
          PROVE  Stays(r)
      <4> DEFINE rec == [run[r] EXCEPT !.pc = "write", !.total = 0, !.outcome = "failed"]
      <4>1. /\ rec \in Run /\ rec.pc # "none" /\ rec.job = run[r].job
            /\ rec.pc = "write" => rec.outcome # "none"
        BY <1>0, ZenonT(40) DEF Run, Final
      <4>2. Becomes(r, rec) BY <3>2
      <4> HIDE DEF rec
      <4> QED BY <4>1, <4>2, <3>1, BecomesStays
    <3>4. ASSUME Becomes(r, [run[r] EXCEPT !.pc = "expand", !.total = @ + n])
          PROVE  Stays(r)
      <4> DEFINE t == run[r].total + n
      <4> DEFINE rec == [run[r] EXCEPT !.pc = "expand", !.total = t]
      <4>3. t \in Nat
        BY <1>6, <3>4, <1>0, LimitAssumption DEF Extract, AfterExtract
      <4>1. /\ rec \in Run /\ rec.pc # "none" /\ rec.job = run[r].job
            /\ rec.pc = "write" => rec.outcome # "none"
        <5> HIDE DEF t
        <5> QED BY <1>0, <4>3, ZenonT(40) DEF Run
      <4>2. Becomes(r, rec) BY <3>4
      <4> HIDE DEF rec
      <4> QED BY <4>1, <4>2, <3>1, BecomesStays
    <3> QED BY <1>6, <3>1, <3>2, <3>4 DEF Extract, AfterExtract
  <2>2. RunPart' BY <2>1, RunUpdate
  <2> QED BY <1>6, <2>2 DEF Extract, AfterExtract, Rest, ProcInv, Event
<1>7. ASSUME NEW r \in Runs, Expanded(r) PROVE Base'
  <2>1. Active(r) /\ Stays(r)
    <3>1. Active(r) /\ UNCHANGED activeJobs
      BY <1>7 DEF Expanded, RunPart, RunInv, Active, NoRun
    <3>2. ASSUME Becomes(r, [run[r] EXCEPT !.pc = "launch", !.left = run[r].total])
          PROVE  Stays(r)
      <4> DEFINE rec == [run[r] EXCEPT !.pc = "launch", !.left = run[r].total]
      <4>1. /\ rec \in Run /\ rec.pc # "none" /\ rec.job = run[r].job
            /\ rec.pc = "write" => rec.outcome # "none"
        BY <1>0, ZenonT(40) DEF Run
      <4>2. Becomes(r, rec) BY <3>2
      <4> HIDE DEF rec
      <4> QED BY <4>1, <4>2, <3>1, BecomesStays
    <3>4. ASSUME Becomes(r, [run[r] EXCEPT !.pc = "write", !.outcome = CancelledOutcome(r)])
          PROVE  Stays(r)
      <4> DEFINE rec == [run[r] EXCEPT !.pc = "write", !.outcome = CancelledOutcome(r)]
      <4>1. /\ rec \in Run /\ rec.pc # "none" /\ rec.job = run[r].job
            /\ rec.pc = "write" => rec.outcome # "none"
        <5>1. CancelledOutcome(r) \in {"timeout", "cancelled"}
          BY DEF CancelledOutcome
        <5> QED BY <1>0, <5>1, OutcomeType DEF Final
      <4>2. Becomes(r, rec) BY <3>4
      <4> HIDE DEF rec
      <4> QED BY <4>1, <4>2, <3>1, BecomesStays
    <3> QED BY <1>7, <3>1, <3>2, <3>4 DEF Expanded
  <2>2. RunPart' BY <2>1, RunUpdate
  <2> QED BY <1>7, <2>2 DEF Expanded, Rest, ProcInv, Event
<1>8. ASSUME NEW r \in Runs, Launch(r) PROVE Base'
  <2>1. Active(r) /\ Stays(r)
    <3>1. Active(r) /\ UNCHANGED activeJobs
      BY <1>8 DEF Launch, RunPart, RunInv, Active, NoRun
    <3>2. ASSUME run[r].left > 0, Becomes(r, [run[r] EXCEPT !.left = @ - 1, !.inflight = @ + 1])
          PROVE  Stays(r)
      <4> DEFINE l == run[r].left - 1
                 i == run[r].inflight + 1
      <4> DEFINE rec == [run[r] EXCEPT !.left = l, !.inflight = i]
      <4>3. l \in Nat /\ i \in Nat
        BY <1>8, <3>2, <1>0, LimitAssumption DEF Launch
      <4>1. /\ rec \in Run /\ rec.pc # "none" /\ rec.job = run[r].job
            /\ rec.pc = "write" => rec.outcome # "none"
        <5> HIDE DEF l, i
        <5> QED BY <1>0, <4>3, <3>1, ZenonT(40) DEF Run, Active
      <4>2. Becomes(r, rec) BY <3>2
      <4> HIDE DEF rec
      <4> QED BY <4>1, <4>2, <3>1, BecomesStays
    <3>4. ASSUME Becomes(r, [run[r] EXCEPT !.pc = "wait"])
          PROVE  Stays(r)
      <4> DEFINE rec == [run[r] EXCEPT !.pc = "wait"]
      <4>1. /\ rec \in Run /\ rec.pc # "none" /\ rec.job = run[r].job
            /\ rec.pc = "write" => rec.outcome # "none"
        BY <1>0 DEF Run
      <4>2. Becomes(r, rec) BY <3>4
      <4> HIDE DEF rec
      <4> QED BY <4>1, <4>2, <3>1, BecomesStays
    <3> QED BY <1>8, <3>1, <3>2, <3>4 DEF Launch
  <2>2. RunPart' BY <2>1, RunUpdate
  <2> QED BY <1>8, <2>2 DEF Launch, Rest, ProcInv, Event
<1>9. ASSUME NEW r \in Runs, DownloadEnds(r) PROVE Base'
  <2>1. Active(r) /\ Stays(r)
    <3>1. Active(r) /\ UNCHANGED activeJobs
      BY <1>9 DEF DownloadEnds, RunPart, RunInv, Active, NoRun
    <3>2. ASSUME Becomes(r, [run[r] EXCEPT !.inflight = @ - 1, !.failed = @ + 1])
          PROVE  Stays(r)
      <4> DEFINE i == run[r].inflight - 1
                 f == run[r].failed + 1
      <4> DEFINE rec == [run[r] EXCEPT !.inflight = i, !.failed = f]
      <4>3. i \in Nat /\ f \in Nat
        BY <1>9, <3>2, <1>0, LimitAssumption, <3>1 DEF DownloadEnds
      <4>1. /\ rec \in Run /\ rec.pc # "none" /\ rec.job = run[r].job
            /\ rec.pc = "write" => rec.outcome # "none"
        <5> HIDE DEF i, f
        <5> QED BY <1>0, <4>3, <3>1, ZenonT(40) DEF Run, Active
      <4>2. Becomes(r, rec) BY <3>2
      <4> HIDE DEF rec
      <4> QED BY <4>1, <4>2, <3>1, BecomesStays
    <3>4. ASSUME Becomes(r, [run[r] EXCEPT !.inflight = @ - 1, !.done = @ + 1])
          PROVE  Stays(r)
      <4> DEFINE i == run[r].inflight - 1
                 d == run[r].done + 1
      <4> DEFINE rec == [run[r] EXCEPT !.inflight = i, !.done = d]
      <4>3. i \in Nat /\ d \in Nat
        BY <1>9, <3>4, <1>0, LimitAssumption, <3>1 DEF DownloadEnds
      <4>1. /\ rec \in Run /\ rec.pc # "none" /\ rec.job = run[r].job
            /\ rec.pc = "write" => rec.outcome # "none"
        <5> HIDE DEF i, d
        <5> QED BY <1>0, <4>3, <3>1, ZenonT(40) DEF Run, Active
      <4>2. Becomes(r, rec) BY <3>4
      <4> HIDE DEF rec
      <4> QED BY <4>1, <4>2, <3>1, BecomesStays
    <3> QED BY <1>9, <3>1, <3>2, <3>4 DEF DownloadEnds
  <2>2. RunPart' BY <2>1, RunUpdate
  <2> QED BY <1>9, <2>2 DEF DownloadEnds, Rest, ProcInv, Event
<1>10. ASSUME NEW r \in Runs, Await(r) PROVE Base'
  <2>0. Outcome(r) \in Final \cup {"timeout"}
    BY DEF Outcome, CancelledOutcome, Final
  <2>1. Active(r) /\ Stays(r)
    <3>1. Active(r) /\ UNCHANGED activeJobs
      BY <1>10 DEF Await, Settled, RunPart, RunInv, Active, NoRun
    <3>2. ASSUME Becomes(r, [run[r] EXCEPT !.pc = "write", !.outcome = Outcome(r)])
          PROVE  Stays(r)
      <4> DEFINE rec == [run[r] EXCEPT !.pc = "write", !.outcome = Outcome(r)]
      <4>1. /\ rec \in Run /\ rec.pc # "none" /\ rec.job = run[r].job
            /\ rec.pc = "write" => rec.outcome # "none"
        BY <1>0, <2>0, OutcomeType
      <4>2. Becomes(r, rec) BY <3>2
      <4> HIDE DEF rec
      <4> QED BY <4>1, <4>2, <3>1, BecomesStays
    <3> QED BY <1>10, <3>1, <3>2 DEF Await, Settled
  <2>2. RunPart' BY <2>1, RunUpdate
  <2> QED BY <1>10, <2>2 DEF Await, Settled, Rest, ProcInv, Event
<1>11. ASSUME NEW r \in Runs, Write(r) PROVE Base'
  <2>1. Active(r) /\ Stays(r)
    <3>1. Active(r) /\ UNCHANGED activeJobs
      BY <1>11 DEF Write, RunPart, RunInv, Active, NoRun
    <3>2. ASSUME Becomes(r, [run[r] EXCEPT !.pc = "end"])
          PROVE  Stays(r)
      <4> DEFINE rec == [run[r] EXCEPT !.pc = "end"]
      <4>1. /\ rec \in Run /\ rec.pc # "none" /\ rec.job = run[r].job
            /\ rec.pc = "write" => rec.outcome # "none"
        BY <1>0 DEF Run
      <4>2. Becomes(r, rec) BY <3>2
      <4> HIDE DEF rec
      <4> QED BY <4>1, <4>2, <3>1, BecomesStays
    <3> QED BY <1>11, <3>1, <3>2 DEF Write
  <2>2. RunPart' BY <2>1, RunUpdate
  <2>3. rows' \in Table
    <3> DEFINE status == IF run[r].outcome = "timeout" THEN "failed"
                                                       ELSE run[r].outcome
               next == IF run[r].outcome = "cancelled"
                         THEN "unset" ELSE nextRunString(run[r].sched)
    <3>1. /\ run[r].job \in Jobs /\ status \in Final \cup {"idle", "running"}
          /\ run[r].total \in Nat /\ run[r].done \in Nat /\ run[r].failed \in Nat
          /\ next \in {"unset", "later", "due"}
      BY <1>11, <2>1, NextRunType DEF Write, RunPart, RunInv, Active, Run, Final
    <3>2. UpdateWarmupJobProgress(run[r].job, status, run[r].total, run[r].done,
                                  run[r].failed, next) \in Table
      <4> HIDE DEF status, next
      <4> QED BY <3>1, ProgressType DEF Rest
    <3> QED BY <1>11, <3>2 DEF Write, FinalContext, Rest
  <2>4. run[r].job \in Jobs BY <2>1 DEF RunPart, RunInv
  <2> QED BY <1>11, <2>2, <2>3, <2>4 DEF Write, Rest, ProcInv, Event
<1>12. ASSUME NEW r \in Runs, End(r) PROVE Base'
  <2>1. /\ run' = [run EXCEPT ![r] = NoRun] /\ Active(r) /\ run[r].job \in Jobs
        /\ activeJobs' = [activeJobs EXCEPT ![run[r].job] = None]
    BY <1>12 DEF End, Becomes, Active, RunPart, RunInv
  <2>2. NoRun \in Run /\ NoRun.pc = "none" BY DEF NoRun, Run, Final
  <2>3. NoRun.pc # "write" BY <2>2
  <2>4. RunPart'
    <3> HIDE DEF NoRun
    <3> QED BY <2>1, <2>2, <2>3, NoneAssumption
        DEF RunPart, RunInv, MapInv, OneRunPerJob, Active
  <2> QED BY <1>12, <2>4 DEF End, Rest, ProcInv
<1>13. ASSUME NEW r \in Runs, Timeout(r) PROVE Base'
  <2>1. Active(r) /\ Stays(r)
    <3>1. Active(r) /\ UNCHANGED activeJobs
      BY <1>13 DEF Timeout, RunPart, RunInv, Active, NoRun
    <3>2. ASSUME Becomes(r, [run[r] EXCEPT !.ctx = "expired"])
          PROVE  Stays(r)
      <4> DEFINE rec == [run[r] EXCEPT !.ctx = "expired"]
      <4>1. /\ rec \in Run /\ rec.pc # "none" /\ rec.job = run[r].job
            /\ rec.pc = "write" => rec.outcome # "none"
        BY <3>1, <1>0 DEF Run, Active
      <4>2. Becomes(r, rec) BY <3>2
      <4> HIDE DEF rec
      <4> QED BY <4>1, <4>2, <3>1, BecomesStays
    <3> QED BY <1>13, <3>1, <3>2 DEF Timeout
  <2>2. RunPart' BY <2>1, RunUpdate
  <2> QED BY <1>13, <2>2 DEF Timeout, Rest, ProcInv, Event
<1>14. CASE Tick
  <2>1. RunPart' BY <1>14, RunPartUnchanged DEF Tick, CronUnchanged
  <2>2. \A j \in Jobs : Listed(j) \in {"skip", "unset", "later", "due"}
    BY DEF Rest, Table, Listed, Row, Absent
  <2>3. cron' \in Cron BY <1>14, <2>2 DEF Tick, Rest, Cron
  <2>4. cron'.pc = "loop" BY <1>14 DEF Tick, Rest, Cron
  <2> QED BY <1>14, <2>1, <2>3, <2>4 DEF Tick, CronUnchanged, Rest, ProcInv, Event, Spend
<1>15. ASSUME NEW j \in Jobs, NEW at \in {"later", "due"},
               Schedule(j, at) PROVE Base'
  <2>1. RunPart' BY <1>15, RunPartUnchanged DEF Schedule, CronUnchanged
  <2>2. rows' \in Table
    BY <1>15 DEF Schedule, Rest, Table, Exists, Row, Absent
  <2>3. cron' \in Cron /\ (cron'.pc = "get" => cron'.job \in Jobs)
        /\ cron'.pc # "register"
    BY <1>15 DEF Schedule, Rest, Cron
  <2> QED BY <1>15, <2>1, <2>2, <2>3 DEF Schedule, CronUnchanged, Rest, ProcInv, Event, Spend
<1>16. CASE CronGet
  <2>1. RunPart' BY <1>16, RunPartUnchanged DEF CronGet, CronUnchanged
  <2>2. cron' \in Cron /\ (cron'.pc = "register" => cron'.job \in Jobs)
        /\ cron'.pc # "get"
    BY <1>16 DEF CronGet, Rest, ProcInv, Cron
  <2> QED BY <1>16, <2>1, <2>2 DEF CronGet, CronUnchanged, Rest, ProcInv, Event, Spend
<1>17. CASE CronRegister
  <2>1. RunPart'
    BY <1>17, RunJobPart DEF CronRegister, Rest, ProcInv
  <2>2. cron' \in Cron /\ cron'.pc = "loop" BY <1>17 DEF CronRegister, Rest, Cron
  <2> QED BY <1>17, <2>1, <2>2 DEF CronRegister, CronUnchanged, Rest, ProcInv, Event, Spend
<1>18. CASE TickEnds
  <2>1. RunPart' BY <1>18, RunPartUnchanged DEF TickEnds, CronUnchanged
  <2>2. cron' \in Cron /\ cron'.pc = "idle" BY <1>18 DEF TickEnds, Rest, Cron
  <2> QED BY <1>18, <2>1, <2>2 DEF TickEnds, CronUnchanged, Rest, ProcInv, Event, Spend
<1>19. CASE CronExit
  <2>1. RunPart' BY <1>19, RunPartUnchanged DEF CronExit, CronUnchanged
  <2>2. cron' \in Cron /\ cron'.pc = "exited" BY <1>19 DEF CronExit, Rest, Cron
  <2> QED BY <1>19, <2>1, <2>2 DEF CronExit, CronUnchanged, Rest, ProcInv, Event, Spend
<1>20. ASSUME NEW j \in Jobs, TimePasses(j) PROVE Base'
  <2>1. RunPart' BY <1>20, RunPartUnchanged DEF TimePasses, CronUnchanged
  <2>2. rows' \in Table
    BY <1>20 DEF TimePasses, Rest, Table, Row, Absent
  <2> QED BY <1>20, <2>1, <2>2 DEF TimePasses, CronUnchanged, Rest, ProcInv, Event, Spend
<1>21. ASSUME NEW j \in Jobs, NEW sched \in {"none", "cron"},
              NEW enabled \in {"yes", "no"}, NEW b \in Bodies,
              CreateWarmupJob(j, sched, enabled, b)
      PROVE  Base'
  <2>1. RunPart' BY <1>21, RunPartUnchanged DEF CreateWarmupJob, AdminUnchanged, Request
  <2>2. rows' \in Table
    BY <1>21, CreatedRow DEF CreateWarmupJob, Rest, Table
  <2> QED BY <1>21, <2>1, <2>2 DEF CreateWarmupJob, AdminUnchanged, Request, Rest, ProcInv, Event, Spend
<1>22. ASSUME NEW j \in Jobs, NEW sched \in {"none", "cron"},
              NEW enabled \in {"yes", "no"}, UpdateWarmupJob(j, sched, enabled) PROVE Base'
  <2>1. RunPart' BY <1>22, RunPartUnchanged DEF UpdateWarmupJob, AdminUnchanged, Request
  <2>2. rows[j] \in Row BY <1>22 DEF UpdateWarmupJob, Exists, Rest, Table
  <2>3. rows' = [rows EXCEPT ![j] = [rows[j] EXCEPT !.sched = sched,
                   !.enabled = enabled, !.next = nextRunString(sched)]]
    BY <1>22, <2>2 DEF UpdateWarmupJob, Rest, Table, Row
  <2>4. [rows[j] EXCEPT !.sched = sched, !.enabled = enabled,
                        !.next = nextRunString(sched)] \in Row
    BY <2>2, NextRunType DEF Row
  <2>5. rows' \in Table BY <2>3, <2>4 DEF Rest, Table
  <2> QED BY <1>22, <2>1, <2>5 DEF UpdateWarmupJob, AdminUnchanged, Request, Rest, ProcInv, Event, Spend
<1>23. ASSUME NEW j \in Jobs, DeleteWarmupJob(j) PROVE Base'
  <2>1. RunPart' BY <1>23, CancelJobPart DEF DeleteWarmupJob
  <2> QED BY <1>23, <2>1 DEF DeleteWarmupJob, Admin, AdminUnchanged, Request, Rest, ProcInv, Event, Spend
<1>24. CASE Deleted
  <2>1. RunPart' BY <1>24, RunPartUnchanged DEF Deleted, Admin, Table, AdminUnchanged
  <2> QED BY <1>24, <2>1 DEF Deleted, Admin, Table, AdminUnchanged, Rest, ProcInv, Event, Spend
<1>25. ASSUME NEW j \in Jobs, DeleteMirror(j) PROVE Base'
  <2>1. RunPart' BY <1>25, RunPartUnchanged DEF DeleteMirror, Table, AdminUnchanged, Request
  <2> QED BY <1>25, <2>1 DEF DeleteMirror, Table, AdminUnchanged, Request, Rest, ProcInv, Event, Spend
<1>26. ASSUME NEW j \in Jobs, RunWarmupJob(j) PROVE Base'
  <2>1. RunPart' BY <1>26, RunPartUnchanged DEF RunWarmupJob, Admin, AdminUnchanged, Request
  <2> QED BY <1>26, <2>1 DEF RunWarmupJob, Admin, AdminUnchanged, Request, Rest, ProcInv, Event, Spend
<1>27. CASE AdminRegister
  <2>1. RunPart'
    BY <1>27, RunJobPart DEF AdminRegister, Rest, ProcInv
  <2> QED BY <1>27, <2>1 DEF AdminRegister, Admin, AdminUnchanged, Rest, ProcInv, Event, Spend
<1>28. ASSUME NEW j \in Jobs, CancelWarmupJob(j) PROVE Base'
  <2>1. RunPart' BY <1>28, CancelJobPart DEF CancelWarmupJob
  <2> QED BY <1>28, <2>1 DEF CancelWarmupJob, AdminUnchanged, Request, Rest, ProcInv, Event, Spend
<1>29. CASE Shutdown
  <2>1. RunPart'
    <3>2. \A r \in Runs : Recontext(r)
      <4> SUFFICES ASSUME NEW r \in Runs PROVE Recontext(r) OBVIOUS
      <4>1. run[r] \in Run BY DEF RunPart
      <4>2. CASE Live(r) /\ Active(r)
        BY <1>29, <4>1, <4>2, CancelRec DEF Shutdown, Recontext
      <4>3. CASE ~(Live(r) /\ Active(r))
        BY <1>29, <4>1, <4>3 DEF Shutdown, Recontext
      <4> QED BY <4>2, <4>3
    <3>3. run' = [r \in Runs |-> run'[r]] /\ UNCHANGED activeJobs
      BY <1>29 DEF Shutdown
    <3> QED BY <3>2, <3>3, ContextsOnly
  <2> QED BY <1>29, <2>1 DEF Shutdown, Rest, ProcInv, Event, Spend
<1>30. CASE Stop \/ Stopped
  <2>1. RunPart' BY <1>30, RunPartUnchanged DEF Stop, Stopped
  <2> QED BY <1>30, <2>1 DEF Stop, Stopped, Rest, ProcInv, Event, Spend
<1>31. ASSUME Start PROVE RunPart' /\ cron' \in Cron /\ admin' \in Admin /\ ProcInv'
  <2>1. NoRun \in Run BY DEF NoRun, Run, Final
  <2>2. RunPart' BY <1>31, <2>1 DEF Start, RunPart, RunInv, MapInv, OneRunPerJob, Active, NoRun
  <2> QED BY <1>31, <2>2 DEF Start, Cron, Admin, ProcInv, SkipAll
<1>32. CASE Restart \/ Crash
  <2>1. Start BY <1>32 DEF Restart, Crash
  <2> QED BY <1>32, <2>1, <1>31 DEF Restart, Crash, Start, Rest, Event
<1>33. CASE UNCHANGED vars
  BY <1>33, RunPartUnchanged DEF vars, Rest, ProcInv
<1> QED
  BY <1>1, <1>2, <1>3, <1>4, <1>5, <1>6, <1>7, <1>8, <1>9, <1>10, <1>11,
     <1>12, <1>13, <1>14, <1>15, <1>16, <1>17, <1>18, <1>19, <1>20,
     <1>21, <1>22, <1>23, <1>24, <1>25, <1>26, <1>27, <1>28, <1>29,
     <1>30, <1>32, <1>33
  DEF Next, RunStep, FetchStep, CronStep, AdminStep, Lifecycle

(* So it holds in every state.                                             *)
LEMMA BaseCorrect == Spec => []Base
BY BaseInit, BaseNext, PTL DEF Spec

\* Type correctness: no write of a run or of a tick revives a deleted job,
\* and every step finds the job it works on.
THEOREM TypeCorrect == Spec => []TypeOK
<1>1. Base => TypeOK BY DEF Base, RunPart, Rest, Table, TypeOK
<1> QED BY <1>1, BaseCorrect, PTL

\* For any number of jobs and runs, the tick and the handlers never start a
\* second run of a job, and the map always names the one that runs.
THEOREM OneRunPerJobHolds == Spec => []OneRunPerJob
<1>1. Base => OneRunPerJob BY DEF Base, RunPart, MapInv
<1> QED BY <1>1, BaseCorrect, PTL

-----------------------------------------------------------------------------
(* Stop leaves no run behind.                                              *)

\* While the engine is stopped the runs, all of them blank, cannot move.
LEMMA StopNext == Base /\ StopWaits /\ [Next]_vars => StopWaits'
<1> SUFFICES ASSUME Base, StopWaits, [Next]_vars, engine' = "stopped"
             PROVE  \A r \in Runs : run'[r].pc = "none"
  BY DEF StopWaits, Active
<1>1. ASSUME engine = "stopped", NEW r \in Runs
      PROVE  run[r].pc = "none" /\ run[r].inflight = 0
  BY <1>1 DEF Base, RunPart, RunInv, StopWaits, Active, NoRun
<1>2. ASSUME NEW r \in Runs, RunStep(r) \/ FetchStep(r) \/ Timeout(r)
      PROVE  FALSE
  <2>1. engine = "stopped"
    BY <1>2 DEF RunStep, FetchStep, Load, LookupMirror, MirrorMissing, Begin,
       Expand, Extract, Expanded, Launch, DownloadEnds, Await, Write, End, Timeout
  <2>2. run[r].pc = "none" /\ run[r].inflight = 0 BY <1>1, <2>1
  <2>3. ~DownloadEnds(r) /\ ~\E n \in 0..MaxTargets : Extract(r, n)
    BY <2>2 DEF DownloadEnds, Extract
  <2>4. ~RunStep(r)
    BY <2>2 DEF RunStep, Load, LookupMirror, MirrorMissing, Begin, Expand,
       Expanded, Launch, Await, Settled, Write, End
  <2>5. ~Timeout(r) BY <2>2 DEF Timeout
  <2> QED BY <1>2, <2>3, <2>4, <2>5 DEF FetchStep
<1>3. ASSUME NEW j \in Jobs, RunJob(j), engine = "stopped" PROVE UNCHANGED run
  BY <1>3 DEF RunJob, Accepts
<1>4. ASSUME NEW j \in Jobs, TimePasses(j) PROVE engine = "stopped" /\ UNCHANGED run
  BY <1>4 DEF TimePasses, CronUnchanged
<1>5. CASE CronStep
  <2>1. engine = "stopped"
    BY <1>5 DEF CronStep, Tick, CronGet, CronRegister, TickEnds, CronExit,
       Schedule, CronUnchanged
  <2>2. UNCHANGED run
    BY <1>5, <2>1, <1>3 DEF CronStep, Tick, CronGet, CronRegister, TickEnds,
       CronExit, Schedule, CronUnchanged, Base, Rest, ProcInv
  <2> QED BY <1>1, <2>1, <2>2
<1>6. CASE AdminStep
  <2>1. engine = "stopped"
    BY <1>6 DEF AdminStep, Deleted, AdminRegister, CreateWarmupJob,
       UpdateWarmupJob, DeleteWarmupJob, DeleteMirror, RunWarmupJob,
       CancelWarmupJob, AdminUnchanged
  <2>2. UNCHANGED run
    BY <1>6, <2>1, <1>3 DEF AdminStep, Deleted, AdminRegister, CreateWarmupJob,
       UpdateWarmupJob, DeleteWarmupJob, DeleteMirror, RunWarmupJob,
       CancelWarmupJob, Request, AdminUnchanged, Base, Rest, ProcInv
  <2> QED BY <1>1, <2>1, <2>2
<1>7. CASE Lifecycle
  BY <1>7 DEF Lifecycle, Shutdown, Stop, Stopped, Restart, Crash, Start, Active
<1>8. CASE UNCHANGED vars
  BY <1>1, <1>8 DEF vars
<1> QED BY <1>1, <1>2, <1>4, <1>5, <1>6, <1>7, <1>8 DEF Next

\* For any number of jobs: once Stop has returned there is no run, whatever
\* handlers and ticks were under way.
THEOREM StopWaitsHolds == Spec => []StopWaits
<1>1. Init => StopWaits BY DEF Init, StopWaits
<1> QED BY <1>1, StopNext, BaseCorrect, PTL DEF Spec

-----------------------------------------------------------------------------
(* The accounts of a run and of the slots.                                 *)

\* The counters of a run: nothing is counted before the launch loop, every
\* target is then waiting, in flight or settled, and an outcome is decided
\* only when nothing is in flight.
Counted(x) ==
    /\ x.pc \notin {"launch", "wait", "write", "end"} =>
         x.left = 0 /\ x.inflight = 0 /\ x.done = 0 /\ x.failed = 0
    /\ x.pc \in {"expand", "extract", "launch", "wait"} => x.total > 0
    /\ x.pc \in {"launch", "wait"} =>
         x.left + x.inflight + x.done + x.failed = x.total
    /\ x.pc = "wait" /\ x.ctx = "live" => x.left = 0
    /\ x.pc \in {"write", "end"} => x.inflight = 0 /\ x.done + x.failed <= x.total
    /\ x.pc = "write" /\ x.outcome = "completed" =>
         x.done > 0 /\ x.done + x.failed = x.total
CountInv == \A r \in Runs : Counted(run[r])

\* The slots taken are those of finitely many requests.
SlotInv == IsFiniteSet(InFlight) /\ SlotsAreRequests

\* The table says "running" on account of a run between its first and its
\* last write.
Working == {"expand", "extract", "launch", "wait", "write"}
RunningInv ==
    \A j \in Jobs : SaysRunning(rows[j]) =>
      \/ j \in lost
      \/ activeJobs[j] \in Runs /\ run[activeJobs[j]].pc \in Working

\* What a step of a run keeps: its accounts, and d more requests in flight.
Keeps(x, y, d) == Counted(y) /\ Held(y) = Held(x) + d

(* Before the launch loop a run moves on without counting.                 *)
LEMMA EarlyRec ==
    ASSUME NEW x \in Run, Counted(x), x.pc \in {"load", "mirror", "missing"},
           NEW p \in {"mirror", "missing", "begin", "end"},
           NEW s \in {"none", "cron"}
    PROVE  /\ Keeps(x, [x EXCEPT !.pc = p], 0)
           /\ Keeps(x, [x EXCEPT !.pc = p, !.sched = s], 0)
BY DEF Run, Counted, Held, Keeps

(* A run begins with one target, its pattern.                              *)
LEMMA BeginRec ==
    ASSUME NEW x \in Run, Counted(x), x.pc = "begin"
    PROVE  Keeps(x, [x EXCEPT !.pc = "expand", !.total = 1], 0)
BY DEF Run, Counted, Held, Keeps

(* The fetch of metadata is one request, ...                               *)
LEMMA ExpandRec ==
    ASSUME NEW x \in Run, Counted(x), x.pc = "expand", NEW d \in Nat
    PROVE  Keeps(x, [x EXCEPT !.pc = "extract", !.depth = d], 1)
BY DEF Run, Counted, Held, Keeps

(* ... which its result ends.                                              *)
LEMMA ExtractRec ==
    ASSUME NEW x \in Run, Counted(x), x.pc = "extract", NEW t \in Nat, t > 0
    PROVE  /\ Keeps(x, [x EXCEPT !.pc = "write", !.total = 0, !.outcome = "failed"], -1)
           /\ Keeps(x, [x EXCEPT !.pc = "expand", !.total = t], -1)
BY DEF Run, Counted, Held, Keeps

(* After the expansion every target waits, or the run was cancelled.       *)
LEMMA ExpandedRec ==
    ASSUME NEW x \in Run, Counted(x), x.pc = "expand", NEW o, o # "completed"
    PROVE  /\ Keeps(x, [x EXCEPT !.pc = "launch", !.left = x.total], 0)
           /\ Keeps(x, [x EXCEPT !.pc = "write", !.outcome = o], 0)
BY DEF Run, Counted, Held, Keeps

(* A launched target is in flight; a live run waits when none is left.     *)
LEMMA LaunchRec ==
    ASSUME NEW x \in Run, Counted(x), x.pc = "launch"
    PROVE  /\ x.left > 0 =>
                Keeps(x, [x EXCEPT !.left = x.left - 1, !.inflight = x.inflight + 1], 1)
           /\ x.left = 0 \/ x.ctx # "live" => Keeps(x, [x EXCEPT !.pc = "wait"], 0)
BY DEF Run, Counted, Held, Keeps

(* A download that ends is counted once.                                   *)
LEMMA DownloadRec ==
    ASSUME NEW x \in Run, Counted(x), x.inflight > 0
    PROVE  /\ Keeps(x, [x EXCEPT !.inflight = x.inflight - 1, !.done = x.done + 1], -1)
           /\ Keeps(x, [x EXCEPT !.inflight = x.inflight - 1, !.failed = x.failed + 1], -1)
BY DEF Run, Counted, Held, Keeps

(* "completed" is decided when everything succeeded or failed, not all of  *)
(* it failed, and the context is alive.                                    *)
LEMMA AwaitRec ==
    ASSUME NEW x \in Run, Counted(x), x.pc = "wait", x.inflight = 0, NEW o,
           o = "completed" => x.ctx = "live" /\ ~(x.failed > 0 /\ x.done = 0)
    PROVE  Keeps(x, [x EXCEPT !.pc = "write", !.outcome = o], 0)
BY DEF Run, Counted, Held, Keeps

(* The final write leaves the counters.                                    *)
LEMMA WriteRec ==
    ASSUME NEW x \in Run, Counted(x), x.pc = "write"
    PROVE  Keeps(x, [x EXCEPT !.pc = "end"], 0)
BY DEF Run, Counted, Held, Keeps

(* A context that dies changes no count.                                   *)
LEMMA ContextRec ==
    ASSUME NEW x \in Run, Counted(x), NEW c \in {"canceled", "expired"}
    PROVE  Keeps(x, [x EXCEPT !.ctx = c], 0)
BY DEF Run, Counted, Held, Keeps

(* A free slot counts nothing, ...                                         *)
LEMMA BlankRec == Counted(NoRun) /\ Held(NoRun) = 0
BY DEF NoRun, Counted, Held

(* ... and neither does a fresh run in it.                                 *)
LEMMA FreshRec ==
    ASSUME NEW j, NEW c
    PROVE  Keeps(NoRun, [NoRun EXCEPT !.pc = "load", !.job = j, !.ctx = c], 0)
BY DEF NoRun, Counted, Held, Keeps

-----------------------------------------------------------------------------
(* Requests in flight, counted as pairs of a run and a number.             *)

Cells(h) == UNION {{r} \X (1..h[r]) : r \in Runs}
Requests == [r \in Runs |-> Held(run[r])]

(* The pairs, spelled out.                                                 *)
LEMMA CellsAre ==
    ASSUME NEW h \in [Runs -> Nat], NEW c
    PROVE  c \in Cells(h) <=> \E r \in Runs : \E n \in 1..h[r] : c = <<r, n>>
BY DEF Cells

(* One request more is one pair more.                                      *)
LEMMA CellsUp ==
    ASSUME NEW h \in [Runs -> Nat], NEW g \in [Runs -> Nat], NEW r \in Runs,
           \A q \in Runs : g[q] = IF q = r THEN h[r] + 1 ELSE h[q]
    PROVE  Cells(g) = Cells(h) \cup {<<r, h[r] + 1>>} /\ <<r, h[r] + 1>> \notin Cells(h)
<1>1. ASSUME NEW c PROVE c \in Cells(g) <=> c \in Cells(h) \/ c = <<r, h[r] + 1>>
  <2>1. ASSUME c \in Cells(g) PROVE c \in Cells(h) \/ c = <<r, h[r] + 1>>
    <3>1. PICK q \in Runs : \E n \in 1..g[q] : c = <<q, n>> BY <2>1, CellsAre
    <3>2. PICK n \in 1..g[q] : c = <<q, n>> BY <3>1
    <3>3. n \in 1..h[q] \/ (q = r /\ n = h[r] + 1) BY <3>2
    <3> QED BY <3>2, <3>3, CellsAre
  <2>2. ASSUME c \in Cells(h) PROVE c \in Cells(g)
    <3>1. PICK q \in Runs : \E n \in 1..h[q] : c = <<q, n>> BY <2>2, CellsAre
    <3>2. PICK n \in 1..h[q] : c = <<q, n>> BY <3>1
    <3>3. n \in 1..g[q] BY <3>2
    <3> QED BY <3>2, <3>3, CellsAre
  <2>3. ASSUME c = <<r, h[r] + 1>> PROVE c \in Cells(g)
    <3>1. h[r] + 1 \in 1..g[r] OBVIOUS
    <3> QED BY <2>3, <3>1, CellsAre
  <2> QED BY <2>1, <2>2, <2>3
<1>2. <<r, h[r] + 1>> \notin Cells(h)
  <2>1. SUFFICES ASSUME <<r, h[r] + 1>> \in Cells(h) PROVE FALSE OBVIOUS
  <2>2. PICK q \in Runs : \E n \in 1..h[q] : <<r, h[r] + 1>> = <<q, n>> BY <2>1, CellsAre
  <2>3. PICK n \in 1..h[q] : <<r, h[r] + 1>> = <<q, n>> BY <2>2
  <2>4. q = r /\ n = h[r] + 1 BY <2>3
  <2> QED BY <2>3, <2>4
<1> QED BY <1>1, <1>2

(* Without requests there are no pairs.                                    *)
LEMMA CellsNone ==
    ASSUME NEW h \in [Runs -> Nat], \A r \in Runs : h[r] = 0
    PROVE  Cells(h) = {}
BY CellsAre

(* The pairs are those of InFlight.                                        *)
LEMMA InFlightIs == InFlight = Cells(Requests)
BY DEF InFlight, Cells, Requests

(* A request that is sent adds one to the number of pairs, one that ends   *)
(* takes one away.                                                         *)
LEMMA CountCells ==
    ASSUME NEW h \in [Runs -> Nat], NEW g \in [Runs -> Nat], NEW r \in Runs,
           IsFiniteSet(Cells(h))
    PROVE  /\ (\A q \in Runs : g[q] = IF q = r THEN h[r] + 1 ELSE h[q]) =>
                IsFiniteSet(Cells(g)) /\ Cardinality(Cells(g)) = Cardinality(Cells(h)) + 1
           /\ (\A q \in Runs : h[q] = IF q = r THEN g[r] + 1 ELSE g[q]) =>
                IsFiniteSet(Cells(g)) /\ Cardinality(Cells(g)) = Cardinality(Cells(h)) - 1
<1>1. ASSUME \A q \in Runs : g[q] = IF q = r THEN h[r] + 1 ELSE h[q]
      PROVE  IsFiniteSet(Cells(g)) /\ Cardinality(Cells(g)) = Cardinality(Cells(h)) + 1
  <2> DEFINE c == <<r, h[r] + 1>>
  <2>1. Cells(g) = Cells(h) \cup {c} /\ c \notin Cells(h) BY <1>1, CellsUp
  <2> HIDE DEF c
  <2> QED BY <2>1, FS_AddElement
<1>2. ASSUME \A q \in Runs : h[q] = IF q = r THEN g[r] + 1 ELSE g[q]
      PROVE  IsFiniteSet(Cells(g)) /\ Cardinality(Cells(g)) = Cardinality(Cells(h)) - 1
  <2> DEFINE c == <<r, g[r] + 1>>
  <2>1. Cells(h) = Cells(g) \cup {c} /\ c \notin Cells(g) BY <1>2, CellsUp
  <2> HIDE DEF c
  <2>2. c \in Cells(h) /\ Cells(g) = Cells(h) \ {c} BY <2>1
  <2> QED BY <2>2, FS_RemoveElement
<1> QED BY <1>1, <1>2

-----------------------------------------------------------------------------
(* A step of one run that takes or gives back d slots.                     *)
Moves(r, d) ==
    /\ run' = [run EXCEPT ![r] = run'[r]] /\ Keeps(run[r], run'[r], d)
    /\ slots' = slots + d /\ (d = 1 => slots < MaxConcurrency)

\* A step that changes no count of any run.
Quiet == slots' = slots /\ \A r \in Runs : Keeps(run[r], run'[r], 0)

Books == CountInv /\ SlotInv

(* A run holds a natural number of slots.                                  *)
LEMMA HeldNat == ASSUME NEW x \in Run PROVE Held(x) \in Nat
BY DEF Run, Held

(* Such a step keeps the books.                                            *)
LEMMA MovesBooks ==
    ASSUME run \in [Runs -> Run], run' \in [Runs -> Run], slots \in Int, Books,
           NEW r \in Runs, NEW d \in {-1, 0, 1}, Moves(r, d)
    PROVE  Books'
<1> DEFINE h == Requests
           g == Requests'
<1>1. h \in [Runs -> Nat] /\ g \in [Runs -> Nat] BY HeldNat DEF Requests
<1>2. g[r] = h[r] + d /\ \A q \in Runs \ {r} : g[q] = h[q]
  BY DEF Moves, Keeps, Requests
<1>3. CountInv' BY DEF Moves, Keeps, Books, CountInv
<1>4. /\ InFlight = Cells(h) /\ InFlight' = Cells(g)
      /\ IsFiniteSet(Cells(h)) /\ Cardinality(Cells(h)) = slots /\ slots <= MaxConcurrency
  BY InFlightIs DEF Books, SlotInv, SlotsAreRequests, InFlight, Cells, Requests
<1> HIDE DEF h, g
<1>5. IsFiniteSet(Cells(g)) /\ Cardinality(Cells(g)) = slots + d
  <2>1. CASE d = 1
    <3>1. \A q \in Runs : g[q] = IF q = r THEN h[r] + 1 ELSE h[q] BY <1>1, <1>2, <2>1
    <3> QED BY <1>1, <1>4, <2>1, <3>1, CountCells
  <2>2. CASE d = 0
    <3>1. \A q \in Runs : g[q] = h[q] BY <1>1, <1>2, <2>2
    <3>2. g = h BY <1>1, <3>1
    <3> QED BY <1>4, <2>2, <3>2
  <2>3. CASE d = -1
    <3>1. \A q \in Runs : h[q] = IF q = r THEN g[r] + 1 ELSE g[q] BY <1>1, <1>2, <2>3
    <3>2. Cardinality(Cells(g)) = Cardinality(Cells(h)) - 1 /\ IsFiniteSet(Cells(g))
      BY <1>1, <1>4, <3>1, CountCells
    <3> QED BY <1>4, <2>3, <3>2
  <2> QED BY <2>1, <2>2, <2>3
<1>6. slots' = slots + d /\ slots + d <= MaxConcurrency
  BY <1>4, LimitAssumption DEF Moves
<1> QED BY <1>3, <1>4, <1>5, <1>6 DEF Books, SlotInv, SlotsAreRequests

(* So does a step without counting.                                        *)
LEMMA QuietBooks ==
    ASSUME run \in [Runs -> Run], run' \in [Runs -> Run], slots \in Int, Books, Quiet
    PROVE  Books'
<1>1. \A r \in Runs : Held(run'[r]) = Held(run[r])
  BY HeldNat DEF Quiet, Keeps
<1>2. InFlight' = InFlight BY <1>1 DEF InFlight
<1>3. CountInv' BY DEF Quiet, Keeps, CountInv
<1> QED BY <1>2, <1>3 DEF Books, SlotInv, SlotsAreRequests, Quiet

-----------------------------------------------------------------------------
(* A step of a run replaces its record.                                    *)
LEMMA BecomesMoves ==
    ASSUME run \in [Runs -> Run], NEW r \in Runs, NEW rec, NEW d, Becomes(r, rec),
           Keeps(run[r], rec, d), slots' = slots + d, d = 1 => slots < MaxConcurrency
    PROVE  Moves(r, d)
<1>1. run' = [run EXCEPT ![r] = rec] /\ run'[r] = rec BY DEF Becomes
<1> QED BY <1>1 DEF Moves

(* Every step of a run is such a move.                                     *)
LEMMA RunMoves ==
    ASSUME Base, Books, NEW r \in Runs, RunStep(r) \/ FetchStep(r) \/ Timeout(r)
    PROVE  \E d \in {-1, 0, 1} : Moves(r, d)
<1> DEFINE x == run[r]
<1>0. /\ run \in [Runs -> Run] /\ x \in Run /\ Counted(x) /\ slots \in Int
      /\ x.pc # "none" => x.job \in Jobs
  BY DEF Base, RunPart, RunInv, Active, Rest, Books, CountInv
<1>t. /\ x.depth \in Nat /\ x.total \in Nat /\ x.left \in Nat /\ x.inflight \in Nat
      /\ x.done \in Nat /\ x.failed \in Nat /\ x.sched \in {"none", "cron"}
  BY <1>0 DEF Run
<1>z. slots + 0 = slots /\ slots + (-1) = slots - 1 BY <1>0
<1>s. SUFFICES ASSUME \A rec : \A d \in {-1, 0, 1} :
                 ~(Becomes(r, rec) /\ Keeps(x, rec, d) /\ slots' = slots + d
                   /\ (d = 1 => slots < MaxConcurrency))
               PROVE  FALSE
  BY <1>0, BecomesMoves
<1>1. ASSUME Load(r) PROVE FALSE
  <2>1. x.pc = "load" /\ slots' = slots + 0 BY <1>1, <1>z DEF Load
  <2>2. CASE Exists(x.job) /\ Becomes(r, [x EXCEPT !.pc = "mirror", !.sched = rows[x.job].sched])
    <3> DEFINE s == rows[x.job].sched
    <3>1. s \in {"none", "cron"} BY <1>0, <2>1, <2>2 DEF Base, Rest, Table, Row, Exists
    <3>2. Keeps(x, [x EXCEPT !.pc = "mirror", !.sched = s], 0)
      <4> HIDE DEF s, x
      <4> QED BY <1>0, <2>1, <3>1, EarlyRec
    <3> QED BY <1>s, <2>1, <2>2, <3>2
  <2>3. CASE Becomes(r, [x EXCEPT !.pc = "end"])
    <3>1. Keeps(x, [x EXCEPT !.pc = "end"], 0)
      <4> HIDE DEF x
      <4> QED BY <1>0, <2>1, EarlyRec
    <3> QED BY <1>s, <2>1, <2>3, <3>1
  <2> QED BY <1>1, <2>2, <2>3 DEF Load
<1>2. ASSUME LookupMirror(r) PROVE FALSE
  <2>1. x.pc = "mirror" /\ slots' = slots + 0 BY <1>2, <1>z DEF LookupMirror
  <2>2. PICK p \in {"begin", "missing"} : Becomes(r, [x EXCEPT !.pc = p])
    BY <1>2 DEF LookupMirror
  <2>3. Keeps(x, [x EXCEPT !.pc = p], 0)
    <3> HIDE DEF x
    <3> QED BY <1>0, <2>1, EarlyRec
  <2> QED BY <1>s, <2>1, <2>2, <2>3
<1>3. ASSUME MirrorMissing(r) PROVE FALSE
  <2>1. x.pc = "missing" /\ slots' = slots + 0 /\ Becomes(r, [x EXCEPT !.pc = "end"])
    BY <1>3, <1>z DEF MirrorMissing
  <2>2. Keeps(x, [x EXCEPT !.pc = "end"], 0)
    <3> HIDE DEF x
    <3> QED BY <1>0, <2>1, EarlyRec
  <2> QED BY <1>s, <2>1, <2>2
<1>4. ASSUME Begin(r) PROVE FALSE
  <2>1. x.pc = "begin" /\ slots' = slots + 0
        /\ Becomes(r, [x EXCEPT !.pc = "expand", !.total = 1])
    BY <1>4, <1>z DEF Begin
  <2>2. Keeps(x, [x EXCEPT !.pc = "expand", !.total = 1], 0)
    <3> HIDE DEF x
    <3> QED BY <1>0, <2>1, BeginRec
  <2> QED BY <1>s, <2>1, <2>2
<1>5. ASSUME Expand(r) PROVE FALSE
  <2>1. x.pc = "expand" /\ slots' = slots + 1 /\ slots < MaxConcurrency
        /\ Becomes(r, [x EXCEPT !.pc = "extract", !.depth = x.depth + 1])
    BY <1>5 DEF Expand, SlotFree
  <2>2. x.depth + 1 \in Nat BY <1>t
  <2>3. Keeps(x, [x EXCEPT !.pc = "extract", !.depth = x.depth + 1], 1)
    BY <1>0, <2>1, <2>2, ExpandRec
  <2> QED BY <1>s, <2>1, <2>3
<1>6. ASSUME NEW n \in 0..MaxTargets, Extract(r, n) PROVE FALSE
  <2> DEFINE t == x.total + n
  <2>1. x.pc = "extract" /\ slots' = slots + (-1)
    BY <1>6, <1>z DEF Extract, AfterExtract
  <2>2. \/ Becomes(r, [x EXCEPT !.pc = "write", !.total = 0, !.outcome = "failed"])
        \/ Becomes(r, [x EXCEPT !.pc = "expand", !.total = t])
    BY <1>6 DEF Extract
  <2>3. t \in Nat /\ t > 0 BY <1>0, <1>t, <2>1, LimitAssumption DEF Counted
  <2>4. /\ Keeps(x, [x EXCEPT !.pc = "write", !.total = 0, !.outcome = "failed"], -1)
        /\ Keeps(x, [x EXCEPT !.pc = "expand", !.total = t], -1)
    <3> HIDE DEF t, x
    <3> QED BY <1>0, <2>1, <2>3, ExtractRec
  <2> HIDE DEF t
  <2> QED BY <1>s, <2>1, <2>2, <2>4
<1>7. ASSUME Expanded(r) PROVE FALSE
  <2> DEFINE o == CancelledOutcome(r)
  <2>1. x.pc = "expand" /\ slots' = slots + 0 /\ o # "completed"
    BY <1>7, <1>z DEF Expanded, CancelledOutcome
  <2>2. \/ Becomes(r, [x EXCEPT !.pc = "launch", !.left = x.total])
        \/ Becomes(r, [x EXCEPT !.pc = "write", !.outcome = o])
    BY <1>7 DEF Expanded
  <2>3. /\ Keeps(x, [x EXCEPT !.pc = "launch", !.left = x.total], 0)
        /\ Keeps(x, [x EXCEPT !.pc = "write", !.outcome = o], 0)
    <3> HIDE DEF o, x
    <3> QED BY <1>0, <2>1, ExpandedRec
  <2> HIDE DEF o
  <2> QED BY <1>s, <2>1, <2>2, <2>3
<1>8. ASSUME Launch(r) PROVE FALSE
  <2>1. x.pc = "launch" BY <1>8 DEF Launch
  <2>2. CASE /\ x.left > 0 /\ slots < MaxConcurrency /\ slots' = slots + 1
             /\ Becomes(r, [x EXCEPT !.left = x.left - 1, !.inflight = x.inflight + 1])
    <3>1. Keeps(x, [x EXCEPT !.left = x.left - 1, !.inflight = x.inflight + 1], 1)
      <4> HIDE DEF x
      <4> QED BY <1>0, <2>1, <2>2, LaunchRec
    <3> QED BY <1>s, <2>2, <3>1
  <2>3. CASE /\ x.left = 0 \/ x.ctx # "live"
             /\ Becomes(r, [x EXCEPT !.pc = "wait"]) /\ slots' = slots + 0
    <3>1. Keeps(x, [x EXCEPT !.pc = "wait"], 0)
      <4> HIDE DEF x
      <4> QED BY <1>0, <2>1, <2>3, LaunchRec
    <3> QED BY <1>s, <2>3, <3>1
  <2> QED BY <1>8, <1>z, <2>2, <2>3 DEF Launch, SlotFree, Live
<1>9. ASSUME DownloadEnds(r) PROVE FALSE
  <2>1. x.inflight > 0 /\ slots' = slots + (-1) BY <1>9, <1>z DEF DownloadEnds
  <2>2. \/ Becomes(r, [x EXCEPT !.inflight = x.inflight - 1, !.done = x.done + 1])
        \/ Becomes(r, [x EXCEPT !.inflight = x.inflight - 1, !.failed = x.failed + 1])
    BY <1>9 DEF DownloadEnds
  <2>3. /\ Keeps(x, [x EXCEPT !.inflight = x.inflight - 1, !.done = x.done + 1], -1)
        /\ Keeps(x, [x EXCEPT !.inflight = x.inflight - 1, !.failed = x.failed + 1], -1)
    <3> HIDE DEF x
    <3> QED BY <1>0, <2>1, DownloadRec
  <2> QED BY <1>s, <2>1, <2>2, <2>3
<1>10. ASSUME Await(r) PROVE FALSE
  <2> DEFINE o == Outcome(r)
  <2>1. /\ x.pc = "wait" /\ x.inflight = 0 /\ slots' = slots + 0
        /\ Becomes(r, [x EXCEPT !.pc = "write", !.outcome = o])
    BY <1>10, <1>z DEF Await, Settled
  <2>2. o = "completed" => x.ctx = "live" /\ ~(x.failed > 0 /\ x.done = 0)
    BY DEF Outcome, CancelledOutcome, Live
  <2>3. Keeps(x, [x EXCEPT !.pc = "write", !.outcome = o], 0)
    <3> HIDE DEF o, x
    <3> QED BY <1>0, <2>1, <2>2, AwaitRec
  <2> HIDE DEF o
  <2> QED BY <1>s, <2>1, <2>3
<1>11. ASSUME Write(r) PROVE FALSE
  <2>1. x.pc = "write" /\ slots' = slots + 0 /\ Becomes(r, [x EXCEPT !.pc = "end"])
    BY <1>11, <1>z DEF Write
  <2>2. Keeps(x, [x EXCEPT !.pc = "end"], 0)
    <3> HIDE DEF x
    <3> QED BY <1>0, <2>1, WriteRec
  <2> QED BY <1>s, <2>1, <2>2
<1>12. ASSUME End(r) PROVE FALSE
  <2>1. x.pc = "end" /\ slots' = slots + 0 /\ Becomes(r, NoRun) BY <1>12, <1>z DEF End
  <2>2. Held(x) = 0 BY <1>0, <1>t, <2>1 DEF Held, Counted
  <2>3. Keeps(x, NoRun, 0) BY <2>2, BlankRec DEF Keeps
  <2> QED BY <1>s, <2>1, <2>3
<1>13. ASSUME Timeout(r) PROVE FALSE
  <2>1. slots' = slots + 0 /\ Becomes(r, [x EXCEPT !.ctx = "expired"]) BY <1>13, <1>z DEF Timeout
  <2>2. Keeps(x, [x EXCEPT !.ctx = "expired"], 0)
    <3> HIDE DEF x
    <3> QED BY <1>0, ContextRec
  <2> QED BY <1>s, <2>1, <2>2
<1> QED BY <1>1, <1>2, <1>3, <1>4, <1>5, <1>6, <1>7, <1>8, <1>9, <1>10, <1>11, <1>12, <1>13
    DEF RunStep, FetchStep

(* RunJob fills a free slot with a run that counts nothing yet.            *)
LEMMA RunJobQuiet ==
    ASSUME RunPart, CountInv, NEW j \in Jobs, RunJob(j), UNCHANGED slots
    PROVE  Quiet
<1>0. \A r \in Runs : run[r] \in Run /\ Counted(run[r]) /\ Keeps(run[r], run[r], 0)
  BY HeldNat DEF RunPart, CountInv, Keeps
<1>1. CASE UNCHANGED run BY <1>0, <1>1 DEF Quiet
<1>2. CASE ~UNCHANGED run
  <2> DEFINE r == CHOOSE x \in Runs : ~Active(x)
             c == IF engine = "started" THEN "live" ELSE "canceled"
             rec == [NoRun EXCEPT !.pc = "load", !.job = j, !.ctx = c]
  <2>1. r \in Runs /\ ~Active(r) /\ run' = [run EXCEPT ![r] = rec]
    BY <1>2 DEF RunJob, Register, Becomes
  <2>2. run[r] = NoRun BY <2>1 DEF RunPart, RunInv
  <2>3. Keeps(run[r], rec, 0)
    <3> HIDE DEF c
    <3> QED BY <2>2, FreshRec
  <2> HIDE DEF rec, r
  <2> QED BY <1>0, <2>1, <2>3 DEF Quiet, RunPart
<1> QED BY <1>1, <1>2

(* Contexts that die change no count.                                      *)
LEMMA ContextsQuiet ==
    ASSUME RunPart, CountInv, UNCHANGED slots,
           \A r \in Runs : run'[r] = run[r] \/ run'[r] = [run[r] EXCEPT !.ctx = "canceled"]
    PROVE  Quiet
<1> SUFFICES ASSUME NEW r \in Runs PROVE Keeps(run[r], run'[r], 0) BY DEF Quiet
<1>1. run[r] \in Run /\ Counted(run[r]) /\ Keeps(run[r], run[r], 0)
  BY HeldNat DEF RunPart, CountInv, Keeps
<1> QED BY <1>1, ContextRec

(* A new process has no requests in flight.                                *)
LEMMA StartBooks == ASSUME Start PROVE Books'
<1> DEFINE g == Requests'
<1>1. \A r \in Runs : run'[r] = NoRun BY DEF Start
<1>2. CountInv' BY <1>1, BlankRec DEF CountInv
<1>3. g \in [Runs -> Nat] /\ \A r \in Runs : g[r] = 0 BY <1>1, BlankRec DEF Requests
<1>4. InFlight' = Cells(g) BY DEF InFlight, Cells, Requests
<1> HIDE DEF g
<1>5. InFlight' = {} BY <1>3, <1>4, CellsNone
<1>6. IsFiniteSet({}) /\ Cardinality({}) = 0 BY FS_EmptySet
<1> QED BY <1>2, <1>5, <1>6, LimitAssumption DEF Start, Books, SlotInv, SlotsAreRequests

(* The books are kept by every step.                                       *)
LEMMA BooksNext == Base /\ Base' /\ Books /\ [Next]_vars => Books'
<1> SUFFICES ASSUME Base, Base', Books, [Next]_vars PROVE Books' OBVIOUS
<1>0. /\ run \in [Runs -> Run] /\ run' \in [Runs -> Run] /\ slots \in Int
      /\ RunPart /\ CountInv
  BY DEF Base, RunPart, Rest, Books
<1>1. ASSUME NEW r \in Runs, RunStep(r) \/ FetchStep(r) \/ Timeout(r) PROVE Books'
  BY <1>0, <1>1, RunMoves, MovesBooks
<1>2. ASSUME UNCHANGED <<run, slots>> PROVE Quiet
  <2>1. \A r \in Runs : run'[r] = run[r] BY <1>2
  <2> QED BY <1>0, <1>2, <2>1, ContextsQuiet
<1>3. CASE CronStep
  <2>1. CASE CronRegister
    BY <1>0, <2>1, RunJobQuiet, QuietBooks DEF CronRegister, CronUnchanged, Base, Rest, ProcInv
  <2>2. CASE ~CronRegister
    <3>1. UNCHANGED <<run, slots>>
      BY <1>3, <2>2 DEF CronStep, Tick, CronGet, TickEnds, CronExit, Schedule, CronUnchanged
    <3> QED BY <1>0, <1>2, <3>1, QuietBooks
  <2> QED BY <2>1, <2>2
<1>4. CASE AdminStep
  <2>1. CASE AdminRegister
    BY <1>0, <2>1, RunJobQuiet, QuietBooks DEF AdminRegister, AdminUnchanged, Base, Rest, ProcInv
  <2>2. ASSUME NEW j \in Jobs, CancelJob(j), UNCHANGED slots PROVE Books'
    <3>1. \A r \in Runs : run'[r] = run[r] \/ run'[r] = [run[r] EXCEPT !.ctx = "canceled"]
      BY <2>2 DEF CancelJob
    <3> QED BY <1>0, <2>2, <3>1, ContextsQuiet, QuietBooks
  <2>3. ASSUME UNCHANGED <<run, slots>> PROVE Books'
    BY <1>0, <1>2, <2>3, QuietBooks
  <2>4. \/ AdminRegister \/ UNCHANGED <<run, slots>>
        \/ \E j \in Jobs : CancelJob(j) /\ UNCHANGED slots
    <3>1. ASSUME NEW j \in Jobs, NEW sched, NEW enabled, NEW b,
                 CreateWarmupJob(j, sched, enabled, b)
          PROVE  UNCHANGED <<run, slots>>
      BY <3>1 DEF CreateWarmupJob, AdminUnchanged
    <3> QED BY <1>4, <3>1 DEF AdminStep, Deleted, UpdateWarmupJob, DeleteWarmupJob,
              DeleteMirror, RunWarmupJob, CancelWarmupJob, AdminUnchanged
  <2> QED BY <2>1, <2>2, <2>3, <2>4
<1>5. CASE Lifecycle
  <2>1. CASE Shutdown
    <3>1. \A r \in Runs : run'[r] = run[r] \/ run'[r] = [run[r] EXCEPT !.ctx = "canceled"]
      BY <2>1 DEF Shutdown
    <3> QED BY <1>0, <2>1, <3>1, ContextsQuiet, QuietBooks DEF Shutdown
  <2>2. CASE Stop \/ Stopped
    BY <1>0, <1>2, <2>2, QuietBooks DEF Stop, Stopped
  <2>3. CASE Restart \/ Crash
    BY <2>3, StartBooks DEF Restart, Crash
  <2> QED BY <1>5, <2>1, <2>2, <2>3 DEF Lifecycle
<1>6. ASSUME NEW j \in Jobs, TimePasses(j) PROVE Books'
  BY <1>0, <1>2, <1>6, QuietBooks DEF TimePasses, CronUnchanged
<1>7. CASE UNCHANGED vars
  BY <1>0, <1>2, <1>7, QuietBooks DEF vars
<1> QED BY <1>1, <1>3, <1>4, <1>5, <1>6, <1>7 DEF Next

-----------------------------------------------------------------------------
(* What the table says of a job.                                           *)

Sound(x) == x.by = "run" =>
    /\ x.done + x.failed <= x.total
    /\ x.status = "completed" => x.done > 0 /\ x.done + x.failed = x.total

\* A row that is the same as far as results go, or has none of a run yet.
Fresh(x) == x.by = "request"
SameResults(x, y) ==
    \/ /\ y.status = x.status /\ y.total = x.total /\ y.by = x.by
       /\ y.done = x.done /\ y.failed = x.failed
    \/ Fresh(y)

(* A write of the engine touches its job's row only, with what it is given.*)
LEMMA ProgressRow ==
    ASSUME rows \in Table, NEW j \in Jobs, NEW status, NEW total, NEW done, NEW failed, NEW next
    PROVE  LET new == UpdateWarmupJobProgress(j, status, total, done, failed, next)
           IN  /\ \A k \in Jobs \ {j} : new[k] = rows[k]
               /\ \/ new[j] = rows[j] /\ rows[j] = Absent
                  \/ /\ new[j].status = status /\ new[j].total = total
                     /\ new[j].done = done /\ new[j].failed = failed
<1>1. CASE Exists(j)
  <2>1. rows[j] \in Row BY <1>1 DEF Exists, Table
  <2> DEFINE row == [rows[j] EXCEPT !.status = status, !.total = total, !.done = done,
                                    !.failed = failed, !.next = next, !.by = "run"]
  <2>2. row.status = status /\ row.total = total /\ row.done = done /\ row.failed = failed
    BY <2>1 DEF Row
  <2>3. UpdateWarmupJobProgress(j, status, total, done, failed, next) = [rows EXCEPT ![j] = row]
    BY <1>1 DEF UpdateWarmupJobProgress
  <2> HIDE DEF row
  <2> QED BY <2>2, <2>3 DEF Table
<1>2. CASE ~Exists(j) BY <1>2 DEF UpdateWarmupJobProgress, Exists
<1> QED BY <1>1, <1>2

(* The steps of the loop and of the handlers change no result.             *)
LEMMA OthersKeepResults ==
    ASSUME Base, [Next]_vars, ~\E r \in Runs : RunStep(r)
    PROVE  \A j \in Jobs : SameResults(rows[j], rows'[j])
<1>0. rows \in Table /\ \A j \in Jobs : rows[j] \in Row \cup {Absent}
  BY DEF Base, Rest, Table
<1>1. ASSUME UNCHANGED rows PROVE \A j \in Jobs : SameResults(rows[j], rows'[j])
  BY <1>1 DEF SameResults
<1>2. ASSUME NEW k \in Jobs, NEW at, rows' = [rows EXCEPT ![k].next = at]
      PROVE  \A j \in Jobs : SameResults(rows[j], rows'[j])
  BY <1>0, <1>2 DEF SameResults, Table, Row, Absent
<1>3. ASSUME NEW k \in Jobs, NEW row, Fresh(row), rows' = [rows EXCEPT ![k] = row]
      PROVE  \A j \in Jobs : SameResults(rows[j], rows'[j])
  BY <1>0, <1>3 DEF SameResults, Table
<1>4. ASSUME NEW k \in Jobs, NEW s, NEW e, NEW at,
             rows' = [rows EXCEPT ![k].sched = s, ![k].enabled = e, ![k].next = at]
      PROVE  \A j \in Jobs : SameResults(rows[j], rows'[j])
  BY <1>0, <1>4 DEF SameResults, Table, Row, Absent
<1>5. Fresh(Absent) /\ \A s, e, b : Fresh(Created(s, e, b)) BY DEF Fresh, Absent, Created
<1>6. ASSUME NEW r \in Runs, FetchStep(r) \/ Timeout(r) PROVE UNCHANGED rows
  BY <1>6 DEF FetchStep, DownloadEnds, Extract, Timeout
<1>7. CASE CronStep
  <2>1. ASSUME NEW j \in Jobs, NEW at \in {"later", "due"}, Schedule(j, at)
        PROVE  UNCHANGED rows \/ rows' = [rows EXCEPT ![j].next = at]
    BY <2>1 DEF Schedule
  <2> QED BY <1>1, <1>2, <1>7, <2>1 DEF CronStep, Tick, CronGet, CronRegister, TickEnds, CronExit
<1>8. CASE AdminStep
  <2>1. CASE Deleted
    <3>1. admin.job \in Jobs BY <2>1 DEF Deleted, Base, Rest, ProcInv
    <3> QED BY <1>1, <1>3, <1>5, <2>1, <3>1 DEF Deleted
  <2>2. ASSUME NEW j \in Jobs, NEW sched \in {"none", "cron"}, NEW enabled \in {"yes", "no"},
               NEW b \in Bodies, CreateWarmupJob(j, sched, enabled, b)
        PROVE  \A k \in Jobs : SameResults(rows[k], rows'[k])
    BY <1>3, <1>5, <2>2 DEF CreateWarmupJob
  <2>3. ASSUME NEW j \in Jobs, NEW sched \in {"none", "cron"}, NEW enabled \in {"yes", "no"},
               UpdateWarmupJob(j, sched, enabled)
        PROVE  \A k \in Jobs : SameResults(rows[k], rows'[k])
    BY <1>4, <2>3 DEF UpdateWarmupJob
  <2>4. ASSUME NEW j \in Jobs, DeleteMirror(j)
        PROVE  \A k \in Jobs : SameResults(rows[k], rows'[k])
    BY <1>3, <1>5, <2>4 DEF DeleteMirror
  <2>5. ASSUME NEW j \in Jobs, DeleteWarmupJob(j) \/ RunWarmupJob(j) \/ CancelWarmupJob(j)
        PROVE  UNCHANGED rows
    BY <2>5 DEF DeleteWarmupJob, RunWarmupJob, CancelWarmupJob
  <2>6. CASE AdminRegister BY <1>1, <2>6 DEF AdminRegister
  <2> QED BY <1>1, <1>8, <2>1, <2>2, <2>3, <2>4, <2>5, <2>6 DEF AdminStep
<1>9. CASE Lifecycle
  BY <1>1, <1>9 DEF Lifecycle, Shutdown, Stop, Stopped, Restart, Crash, Start
<1>10. ASSUME NEW j \in Jobs, TimePasses(j) PROVE \A k \in Jobs : SameResults(rows[k], rows'[k])
  BY <1>2, <1>10 DEF TimePasses
<1>11. CASE UNCHANGED vars BY <1>1, <1>11 DEF vars
<1> QED BY <1>1, <1>6, <1>7, <1>8, <1>9, <1>10, <1>11 DEF Next

(* Results in the table are sound after every step.                        *)
LEMMA CompletedNext ==
    Base /\ Books /\ CompletedAccounts /\ [Next]_vars => CompletedAccounts'
<1> SUFFICES ASSUME Base, Books, CompletedAccounts, [Next]_vars
             PROVE  \A j \in Jobs : Sound(rows'[j])
  BY DEF CompletedAccounts, Sound
<1>0. /\ rows \in Table /\ Sound(Absent)
      /\ \A j \in Jobs : Sound(rows[j])
  BY DEF Base, Rest, CompletedAccounts, Sound, Absent
<1>1. CASE ~\E r \in Runs : RunStep(r)
  <2>1. \A j \in Jobs : SameResults(rows[j], rows'[j]) BY <1>1, OthersKeepResults
  <2>2. \A x, y : Sound(x) /\ SameResults(x, y) => Sound(y)
    BY DEF Sound, SameResults, Fresh
  <2> QED BY <1>0, <2>1, <2>2
<1>2. ASSUME NEW r \in Runs, RunStep(r) PROVE \A j \in Jobs : Sound(rows'[j])
  <2> DEFINE x == run[r]
  <2>0. x \in Run /\ Counted(x) /\ (x.pc # "none" => x.job \in Jobs)
    BY DEF Base, RunPart, RunInv, Active, Books, CountInv
  <2>1. ASSUME UNCHANGED rows PROVE \A j \in Jobs : Sound(rows'[j]) BY <1>0, <2>1
  <2>2. ASSUME x.job \in Jobs, NEW status, NEW total \in Nat, NEW done \in Nat, NEW failed \in Nat,
               NEW next, done + failed <= total,
               status = "completed" => done > 0 /\ done + failed = total,
               rows' = UpdateWarmupJobProgress(x.job, status, total, done, failed, next)
        PROVE  \A j \in Jobs : Sound(rows'[j])
    <3> DEFINE k == x.job
    <3>1. /\ \A j \in Jobs \ {k} : rows'[j] = rows[j]
          /\ \/ rows'[k] = rows[k]
             \/ /\ rows'[k].status = status /\ rows'[k].total = total
                /\ rows'[k].done = done /\ rows'[k].failed = failed
      <4> HIDE DEF k
      <4> QED BY <1>0, <2>2, ProgressRow DEF k
    <3>2. Sound(rows'[k]) BY <1>0, <2>2, <3>1 DEF Sound
    <3> QED BY <1>0, <3>1, <3>2
  <2>3. CASE MirrorMissing(r)
    <3> DEFINE next == nextRunString(x.sched)
    <3>1. /\ x.job \in Jobs
          /\ \/ UNCHANGED rows
             \/ rows' = UpdateWarmupJobProgress(x.job, "failed", 0, 0, 0, next)
      BY <2>0, <2>3 DEF MirrorMissing
    <3> HIDE DEF next, x
    <3> QED BY <2>1, <2>2, <3>1
  <2>4. CASE Begin(r)
    <3>1. /\ x.job \in Jobs
          /\ \/ UNCHANGED rows
             \/ rows' = UpdateWarmupJobProgress(x.job, "running", 1, 0, 0, "unset")
      BY <2>0, <2>4 DEF Begin
    <3> HIDE DEF x
    <3> QED BY <2>1, <2>2, <3>1
  <2>5. CASE Write(r)
    <3>1. /\ x.pc = "write" /\ x.job \in Jobs
          /\ x.total \in Nat /\ x.done \in Nat /\ x.failed \in Nat
      BY <2>0, <2>5 DEF Write, Run
    <3>2. /\ x.done + x.failed <= x.total
          /\ x.outcome = "completed" => x.done > 0 /\ x.done + x.failed = x.total
      BY <2>0, <3>1 DEF Counted
    <3> DEFINE status == IF x.outcome = "timeout" THEN "failed" ELSE x.outcome
               next == IF x.outcome = "cancelled" THEN "unset" ELSE nextRunString(x.sched)
    <3>3. \/ UNCHANGED rows
          \/ rows' = UpdateWarmupJobProgress(x.job, status, x.total, x.done, x.failed, next)
      BY <2>5 DEF Write, FinalContext
    <3>4. status = "completed" => x.outcome = "completed" OBVIOUS
    <3> HIDE DEF status, next, x
    <3> QED BY <2>1, <2>2, <3>1, <3>2, <3>3, <3>4
  <2>6. CASE ~(MirrorMissing(r) \/ Begin(r) \/ Write(r))
    BY <1>2, <2>1, <2>6 DEF RunStep, Load, LookupMirror, Expand, Expanded, Launch, Await, End
  <2> QED BY <2>3, <2>4, <2>5, <2>6
<1> QED BY <1>1, <1>2

-----------------------------------------------------------------------------
(* Who the status "running" stands for.                                    *)

(* A step of a run concerns the row of its own job only: no other job      *)
(* names that run.                                                         *)
LEMMA OwnJob ==
    ASSUME RunPart, RunningInv, NEW r \in Runs, Active(r),
           \A q \in Runs \ {r} : run'[q].pc = run[q].pc,
           \A j \in Jobs \ {run[r].job} :
             /\ activeJobs'[j] = activeJobs[j] /\ rows'[j] = rows[j]
             /\ j \in lost => j \in lost',
           SaysRunning(rows'[run[r].job]) =>
             \/ run[r].job \in lost'
             \/ activeJobs'[run[r].job] = r /\ run'[r].pc \in Working
    PROVE  RunningInv'
<1> SUFFICES ASSUME NEW j \in Jobs, SaysRunning(rows'[j]), j \notin lost'
             PROVE  activeJobs'[j] \in Runs /\ run'[activeJobs'[j]].pc \in Working
  BY DEF RunningInv
<1>1. CASE j = run[r].job BY <1>1
<1>2. CASE j # run[r].job
  <2>1. activeJobs[j] \in Runs /\ run[activeJobs[j]].pc \in Working BY <1>2 DEF RunningInv
  <2>2. activeJobs[j] # r BY <1>2, <2>1, NoneAssumption DEF RunPart, MapInv
  <2> QED BY <1>2, <2>1, <2>2
<1> QED BY <1>1, <1>2

(* A run that has not begun, or has ended, is not what "running" is about. *)
LEMMA NotWorking ==
    ASSUME RunPart, RunningInv, NEW r \in Runs, Active(r), run[r].pc \notin Working,
           SaysRunning(rows[run[r].job])
    PROVE  run[r].job \in lost
BY DEF RunPart, RunInv, MapInv, OneRunPerJob, RunningInv

(* The steps of a run.                                                     *)
LEMMA RunStepRunning ==
    ASSUME Base, RunningInv, NEW r \in Runs, RunStep(r) \/ FetchStep(r) \/ Timeout(r),
           Active(r)
    PROVE  RunningInv'
<1> DEFINE k == run[r].job
<1>0. /\ RunPart /\ k \in Jobs /\ activeJobs[k] = r /\ rows \in Table
      /\ activeJobs \in [Jobs -> Runs \cup {None}] /\ run \in [Runs -> Run]
  BY DEF Base, RunPart, RunInv, MapInv, OneRunPerJob, Rest
<1>1. ASSUME NEW rec, Becomes(r, rec) PROVE run'[r] = rec /\ \A q \in Runs \ {r} : run'[q].pc = run[q].pc
  BY <1>0, <1>1 DEF Becomes
<1>2. \A rec : Becomes(r, rec) => \A q \in Runs \ {r} : run'[q].pc = run[q].pc BY <1>1
<1>3. \A q \in Runs \ {r} : run'[q].pc = run[q].pc
  BY <1>2 DEF RunStep, FetchStep, Load, LookupMirror, MirrorMissing, Begin, Expand, Extract,
     Expanded, Launch, DownloadEnds, Await, Write, End, Timeout
<1>4. ASSUME UNCHANGED <<rows, lost, activeJobs>>,
             run[r].pc \in Working => run'[r].pc \in Working
      PROVE  RunningInv'
  <2>1. CASE run[r].pc \in Working BY <1>0, <1>3, <1>4, <2>1, OwnJob
  <2>2. CASE run[r].pc \notin Working
    <3>1. SaysRunning(rows[k]) => k \in lost BY <1>0, <2>2, NotWorking
    <3> QED BY <1>0, <1>3, <1>4, <3>1, OwnJob
  <2> QED BY <2>1, <2>2
<1>5. run[r] \in Run BY <1>0
<1>7. CASE Load(r) \/ LookupMirror(r)
  <2>1. run[r].pc \notin Working BY <1>7 DEF Load, LookupMirror, Working
  <2> QED BY <1>4, <1>7, <2>1 DEF Load, LookupMirror
<1>8. CASE MirrorMissing(r)
  <2>1. run[r].pc \notin Working /\ UNCHANGED <<lost, activeJobs>>
    BY <1>8 DEF MirrorMissing, Working
  <2>2. CASE UNCHANGED rows BY <1>4, <2>1, <2>2
  <2>3. CASE rows' = UpdateWarmupJobProgress(k, "failed", 0, 0, 0, nextRunString(run[r].sched))
    <3> DEFINE next == nextRunString(run[r].sched)
    <3>1. /\ \A j \in Jobs \ {k} : rows'[j] = rows[j]
          /\ rows'[k] = Absent \/ rows'[k].status = "failed"
      <4> HIDE DEF k, next
      <4> QED BY <1>0, <2>3, ProgressRow DEF next
    <3>2. ~SaysRunning(rows'[k]) BY <3>1 DEF Absent, SaysRunning
    <3> QED BY <1>0, <1>3, <2>1, <3>1, <3>2, OwnJob
  <2> QED BY <1>8, <2>2, <2>3 DEF MirrorMissing
<1>9. CASE Begin(r)
  <2>1. UNCHANGED <<lost, activeJobs>> /\ run'[r].pc \in Working
    <3>1. Becomes(r, [run[r] EXCEPT !.pc = "expand", !.total = 1]) BY <1>9 DEF Begin
    <3>2. [run[r] EXCEPT !.pc = "expand", !.total = 1].pc = "expand" BY <1>5 DEF Run
    <3> QED BY <1>9, <1>1, <3>1, <3>2 DEF Begin, Working
  <2>2. \A j \in Jobs \ {k} : rows'[j] = rows[j]
    <3>1. UNCHANGED rows \/ rows' = UpdateWarmupJobProgress(k, "running", 1, 0, 0, "unset")
      BY <1>9 DEF Begin
    <3> HIDE DEF k
    <3> QED BY <1>0, <3>1, ProgressRow
  <2> QED BY <1>0, <1>3, <2>1, <2>2, OwnJob
<1>10. CASE Expand(r) \/ Expanded(r) \/ Launch(r) \/ Await(r) \/ Timeout(r)
            \/ DownloadEnds(r) \/ \E n \in 0..MaxTargets : Extract(r, n)
  <2>1. UNCHANGED <<rows, lost, activeJobs>>
    BY <1>10 DEF Expand, Expanded, Launch, Await, Timeout, DownloadEnds, Extract
  <2>2. ASSUME run[r].pc \in Working PROVE run'[r].pc \in Working
    <3>0. run \in [Runs -> Run] /\ run[r] \in Run BY <1>0, <1>5
    <3>1. CASE Expand(r) BY <3>0, <3>1 DEF Expand, Becomes, Run, Working
    <3>2. CASE Expanded(r) BY <3>0, <3>2 DEF Expanded, Becomes, Run, Working
    <3>3. CASE Launch(r)
      <4> DEFINE l == run[r].left - 1
                 i == run[r].inflight + 1
      <4>1. \/ Becomes(r, [run[r] EXCEPT !.left = l, !.inflight = i])
            \/ Becomes(r, [run[r] EXCEPT !.pc = "wait"])
        BY <3>3 DEF Launch
      <4> HIDE DEF l, i
      <4>2. \/ run'[r] = [run[r] EXCEPT !.left = l, !.inflight = i]
            \/ run'[r] = [run[r] EXCEPT !.pc = "wait"]
        BY <3>0, <4>1 DEF Becomes
      <4>3. run'[r].pc = run[r].pc \/ run'[r].pc = "wait" BY <1>5, <4>2 DEF Run
      <4> QED BY <2>2, <4>3 DEF Working
    <3>4. CASE Await(r) BY <3>0, <3>4 DEF Await, Becomes, Run, Working
    <3>5. CASE Timeout(r) BY <3>0, <2>2, <3>5 DEF Timeout, Becomes, Run, Working
    <3>6. CASE DownloadEnds(r)
      <4> DEFINE i == run[r].inflight - 1
                 d == run[r].done + 1
                 f == run[r].failed + 1
      <4>1. \/ Becomes(r, [run[r] EXCEPT !.inflight = i, !.done = d])
            \/ Becomes(r, [run[r] EXCEPT !.inflight = i, !.failed = f])
        BY <3>6 DEF DownloadEnds
      <4> HIDE DEF i, d, f
      <4>2. \/ run'[r] = [run[r] EXCEPT !.inflight = i, !.done = d]
            \/ run'[r] = [run[r] EXCEPT !.inflight = i, !.failed = f]
        BY <3>0, <4>1 DEF Becomes
      <4>3. run'[r].pc = run[r].pc BY <1>5, <4>2 DEF Run
      <4> QED BY <2>2, <4>3
    <3>7. ASSUME NEW n \in 0..MaxTargets, Extract(r, n) PROVE run'[r].pc \in Working
      BY <3>0, <3>7 DEF Extract, Becomes, Run, Working
    <3> QED BY <1>10, <3>1, <3>2, <3>3, <3>4, <3>5, <3>6, <3>7
  <2> QED BY <1>4, <2>1, <2>2
<1>11. CASE Write(r)
  <2>1. UNCHANGED activeJobs BY <1>11 DEF Write
  <2>2. CASE lost' = lost \cup {k} /\ UNCHANGED rows
    BY <1>0, <1>3, <2>1, <2>2, OwnJob
  <2>3. CASE ~(lost' = lost \cup {k} /\ UNCHANGED rows)
    <3> DEFINE status == IF run[r].outcome = "timeout" THEN "failed" ELSE run[r].outcome
               next == IF run[r].outcome = "cancelled" THEN "unset" ELSE nextRunString(run[r].sched)
               t == run[r].total
               d == run[r].done
               f == run[r].failed
    <3>1. rows' = UpdateWarmupJobProgress(k, status, t, d, f, next) /\ lost' = lost \ {k}
      BY <1>11, <2>3 DEF Write, FinalContext
    <3>2. status # "running" BY <1>5 DEF Run, Final
    <3>3. /\ \A j \in Jobs \ {k} : rows'[j] = rows[j]
          /\ rows'[k] = Absent \/ rows'[k].status = status
      <4> HIDE DEF k, status, next, t, d, f
      <4> QED BY <1>0, <3>1, ProgressRow
    <3>4. ~SaysRunning(rows'[k]) BY <3>2, <3>3 DEF Absent, SaysRunning
    <3> HIDE DEF status, next, t, d, f
    <3> QED BY <1>0, <1>3, <2>1, <3>1, <3>3, <3>4, OwnJob
  <2> QED BY <2>2, <2>3
<1>12. CASE End(r)
  <2>1. /\ run[r].pc \notin Working /\ UNCHANGED <<rows, lost>>
        /\ activeJobs' = [activeJobs EXCEPT ![k] = None]
    BY <1>12 DEF End, Working
  <2>2. SaysRunning(rows[k]) => k \in lost BY <1>0, <2>1, NotWorking
  <2> QED BY <1>0, <1>3, <2>1, <2>2, OwnJob
<1> QED BY <1>7, <1>8, <1>9, <1>10, <1>11, <1>12 DEF RunStep, FetchStep

(* The steps of everybody else.                                            *)
LEMMA RunningNext ==
    Base /\ Books /\ StopWaits /\ RunningInv /\ [Next]_vars => RunningInv'
<1> SUFFICES ASSUME Base, Books, StopWaits, RunningInv, [Next]_vars PROVE RunningInv' OBVIOUS
<1>0. /\ RunPart /\ activeJobs \in [Jobs -> Runs \cup {None}] /\ run \in [Runs -> Run]
      /\ ProcInv
  BY DEF Base, RunPart, Rest
<1>1. ASSUME NEW r \in Runs, RunStep(r) \/ FetchStep(r) \/ Timeout(r) PROVE RunningInv'
  <2>1. Active(r)
    <3>1. CASE DownloadEnds(r) BY <3>1, <1>0 DEF DownloadEnds, RunPart, RunInv, NoRun
    <3>2. CASE ~DownloadEnds(r)
      BY <1>1, <3>2 DEF RunStep, FetchStep, Load, LookupMirror, MirrorMissing, Begin, Expand,
         Extract, Expanded, Launch, Await, Settled, Write, End, Timeout, Active
    <3> QED BY <3>1, <3>2
  <2> QED BY <1>1, <2>1, RunStepRunning
<1>2. CASE ~\E r \in Runs : RunStep(r) \/ FetchStep(r) \/ Timeout(r)
  <2>0. ~\E r \in Runs : RunStep(r) BY <1>2
  <2>1. \A j \in Jobs : SaysRunning(rows'[j]) => SaysRunning(rows[j])
    BY <2>0, OthersKeepResults DEF SameResults, Fresh, SaysRunning
  <2>2. ASSUME UNCHANGED <<activeJobs, lost>>, \A r \in Runs : run'[r].pc = run[r].pc
        PROVE  RunningInv'
    BY <2>1, <2>2 DEF RunningInv
  <2>3. ASSUME NEW k \in Jobs, RunJob(k), UNCHANGED lost PROVE RunningInv'
    <3>1. CASE UNCHANGED <<activeJobs, run>> BY <2>2, <2>3, <3>1
    <3>2. CASE ~UNCHANGED <<activeJobs, run>>
      <4>1. PICK r \in Runs : ~Active(r) /\ Accepts(k) /\ Register(k, r)
        BY <2>3, <3>2 DEF RunJob
      <4>2. activeJobs[k] = None /\ activeJobs' = [activeJobs EXCEPT ![k] = r]
            /\ run[r].pc = "none" /\ \A q \in Runs \ {r} : run'[q] = run[q]
        BY <1>0, <4>1 DEF Accepts, Register, Becomes, Active
      <4>3. "none" \notin Working BY DEF Working
      <4> QED BY <1>0, <2>1, <2>3, <4>2, <4>3, NoneAssumption DEF RunningInv
    <3> QED BY <3>1, <3>2
  <2>4. CASE CronStep
    <3>1. CASE CronRegister BY <1>0, <2>3, <3>1 DEF CronRegister, CronUnchanged, ProcInv
    <3>2. CASE ~CronRegister
      BY <2>2, <2>4, <3>2 DEF CronStep, Tick, CronGet, TickEnds, CronExit, Schedule, CronUnchanged
    <3> QED BY <3>1, <3>2
  <2>5. CASE AdminStep
    <3>1. CASE AdminRegister BY <1>0, <2>3, <3>1 DEF AdminRegister, AdminUnchanged, ProcInv
    <3>2. ASSUME NEW j \in Jobs, CancelJob(j) PROVE \A r \in Runs : run'[r].pc = run[r].pc
      BY <1>0, <3>2, CancelRec DEF CancelJob
    <3>3. CASE ~AdminRegister
      <4>1. /\ UNCHANGED <<activeJobs, lost>>
            /\ UNCHANGED run \/ \E j \in Jobs : CancelJob(j)
        BY <2>5, <3>3 DEF AdminStep, Deleted, CreateWarmupJob, UpdateWarmupJob, DeleteWarmupJob,
           DeleteMirror, RunWarmupJob, CancelWarmupJob, AdminUnchanged
      <4> QED BY <2>2, <3>2, <4>1
    <3> QED BY <3>1, <3>3
  <2>6. CASE Lifecycle
    <3>1. CASE Shutdown
      <4>1. \A r \in Runs : run'[r].pc = run[r].pc BY <1>0, <3>1, CancelRec DEF Shutdown
      <4> QED BY <2>2, <3>1, <4>1 DEF Shutdown
    <3>2. CASE Stop \/ Stopped BY <2>2, <3>2 DEF Stop, Stopped
    <3>3. CASE Restart
      <4>1. \A r \in Runs : run[r].pc \notin Working
        BY <3>3 DEF Restart, StopWaits, Active, Working
      <4>2. \A j \in Jobs : SaysRunning(rows[j]) => j \in lost BY <4>1 DEF RunningInv
      <4> QED BY <2>1, <3>3, <4>2 DEF Restart, RunningInv
    <3>4. CASE Crash
      <4>1. \A j \in Jobs : SaysRunning(rows[j]) => j \in lost'
        BY <3>4, NoneAssumption DEF Crash, RunningInv
      <4> QED BY <2>1, <4>1 DEF RunningInv
    <3> QED BY <2>6, <3>1, <3>2, <3>3, <3>4 DEF Lifecycle
  <2>7. ASSUME NEW j \in Jobs, TimePasses(j) PROVE RunningInv'
    BY <2>2, <2>7 DEF TimePasses, CronUnchanged
  <2>8. CASE UNCHANGED vars BY <2>2, <2>8 DEF vars
  <2> QED BY <1>2, <2>4, <2>5, <2>6, <2>7, <2>8 DEF Next
<1> QED BY <1>1, <1>2

(* The accounts at the start.                                              *)
LEMMA AccountsInit == Init => Books /\ RunningInv /\ CompletedAccounts
<1> SUFFICES ASSUME Init PROVE Books /\ RunningInv /\ CompletedAccounts OBVIOUS
<1>1. \A r \in Runs : run[r] = NoRun BY DEF Init
<1>2. CountInv BY <1>1, BlankRec DEF CountInv
<1>3. Requests \in [Runs -> Nat] /\ \A r \in Runs : Requests[r] = 0
  BY <1>1, BlankRec DEF Requests
<1>4. InFlight = {} BY <1>3, InFlightIs, CellsNone
<1>5. IsFiniteSet({}) /\ Cardinality({}) = 0 BY FS_EmptySet
<1>6. Books BY <1>2, <1>4, <1>5, LimitAssumption DEF Init, Books, SlotInv, SlotsAreRequests
<1>7. \A j \in Jobs : Fresh(rows[j])
  <2>1. \A sched, enabled, b : Created(sched, enabled, b).by = "request" BY DEF Created
  <2>2. Absent.by = "request" BY DEF Absent
  <2> QED BY <2>1, <2>2 DEF Init, Fresh
<1> QED BY <1>6, <1>7 DEF RunningInv, CompletedAccounts, Fresh, SaysRunning

(* For any number of jobs, runs, targets and slots and any create request: *)
(* once a job has run, the table says "running" of it while it runs or     *)
(* when its last write was lost, "completed" accounts for every target,    *)
(* and the download slots taken are exactly the requests in flight, on     *)
(* every way out of a run.                                                 *)
THEOREM RunsAccountedHolds == Spec => []RunsAccounted
<1>1. Base /\ Books /\ RunningInv /\ CompletedAccounts => RunsAccounted
  <2>1. Base /\ RunningInv => RunningIsActive
    BY NoneAssumption DEF RunningInv, RunningIsActive, Base, RunPart
  <2>2. Books => SlotsAreRequests BY DEF Books, SlotInv
  <2> QED BY <2>1, <2>2 DEF RunsAccounted
<1> QED BY <1>1, AccountsInit, BooksNext, CompletedNext, RunningNext, BaseCorrect,
           StopWaitsHolds, PTL DEF Spec
=============================================================================
