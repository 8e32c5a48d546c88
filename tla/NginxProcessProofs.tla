------------------------- MODULE NginxProcessProofs -------------------------
(***************************************************************************)
(* Proofs about the supervised Nginx process, for any set of process ids,  *)
(* any restart limit and any window: the type invariant with the lock's    *)
(* holder, the bound on restarts and what Stop leaves behind.              *)
(***************************************************************************)
EXTENDS NginxProcess, SequenceTheorems, WellFoundedInduction, TLAPS

-----------------------------------------------------------------------------
(* A non-empty set of numbers has a least one. *)
LEMMA LeastNumber ==
  ASSUME NEW T, T \subseteq Nat, T # {} PROVE \E n \in T : \A m \in T : n <= m
<1>1. PICK x \in T : \A y \in T : ~ (<<y, x>> \in OpToRel(<, Nat))
  BY NatLessThanWellFounded, WFMin
<1>2. \A y \in T : ~ (y < x)
  BY <1>1 DEF OpToRel
<1>. QED
  BY <1>2

Ages == 0..RestartWindow

(* The last age out of the window: there is one, or none is out. *)
LEMMA LastOutExists ==
  ASSUME NEW s \in Seq(Ages)
  PROVE  /\ LastOut(s) \in 0..Len(s)
         /\ LastOut(s) = 0 \/ s[LastOut(s)] >= RestartWindow
         /\ \A i \in (LastOut(s) + 1)..Len(s) : s[i] < RestartWindow
<1> DEFINE P(n) == /\ n = 0 \/ s[n] >= RestartWindow
                   /\ \A i \in (n + 1)..Len(s) : s[i] < RestartWindow
           T == {n \in Nat : n <= Len(s) /\ \A i \in (n + 1)..Len(s) : s[i] < RestartWindow}
<1>0. Len(s) \in Nat /\ RestartWindow \in Nat /\ \A i \in 1..Len(s) : s[i] \in Nat
  BY ProcessAssumption DEF Ages
<1>1. Len(s) \in T
  BY <1>0
<1>2. PICK n \in T : \A m \in T : n <= m
  <2>1. T \subseteq Nat /\ T # {}
    BY <1>1
  <2> HIDE DEF T
  <2>. QED
    BY <2>1, LeastNumber
<1>3. n \in 0..Len(s) /\ P(n)
  <2>1. CASE n = 0
    BY <1>0, <1>2, <2>1
  <2>2. CASE n # 0
    <3>0. n \in Nat /\ n <= Len(s)
      OBVIOUS
    <3>1. n - 1 \notin T /\ n - 1 \in Nat /\ n \in 1..Len(s)
      <4> HIDE DEF T
      <4>. QED
        BY <1>0, <1>2, <2>2, <3>0
    <3>2. PICK i \in n..Len(s) : ~(s[i] < RestartWindow)
      BY <1>0, <3>1
    <3>3. i = n
      BY <1>0, <1>2, <3>1, <3>2
    <3>. QED
      BY <1>0, <1>2, <3>1, <3>2, <3>3
  <2>. QED
    BY <2>1, <2>2
<1>4. LastOut(s) = CHOOSE k \in 0..Len(s) : P(k)
  BY DEF LastOut
<1> HIDE DEF P
<1>5. LastOut(s) \in 0..Len(s) /\ P(LastOut(s))
  BY <1>3, <1>4
<1>. QED
  BY <1>5 DEF P

(* What is within the window: the list without its first LastOut entries. *)
LEMMA WithinIs ==
  ASSUME NEW s \in Seq(Ages)
  PROVE  /\ Within(s) \in Seq(Ages) /\ Len(Within(s)) = Len(s) - LastOut(s)
         /\ \A i \in 1..Len(Within(s)) : /\ Within(s)[i] = s[i + LastOut(s)]
                                         /\ Within(s)[i] < RestartWindow
<1> DEFINE n == LastOut(s)
<1>0. Len(s) \in Nat /\ n \in 0..Len(s) /\ \A i \in (n + 1)..Len(s) : s[i] < RestartWindow
  BY LastOutExists
<1>1. \A i \in (n + 1)..Len(s) : s[i] \in Ages
  BY <1>0
<1> HIDE DEF n
<1>2. n + 1 \in Int /\ Len(s) \in Int
  BY <1>0
<1>3. /\ SubSeq(s, n + 1, Len(s)) \in Seq(Ages)
      /\ Len(SubSeq(s, n + 1, Len(s))) = IF n + 1 <= Len(s) THEN Len(s) - (n + 1) + 1 ELSE 0
      /\ \A i \in 1..(Len(s) - (n + 1) + 1) : SubSeq(s, n + 1, Len(s))[i] = s[(n + 1) + i - 1]
  BY <1>1, <1>2, SubSeqProperties
<1>4. Within(s) = SubSeq(s, n + 1, Len(s))
  BY DEF Within, n
<1> DEFINE w == Within(s)
<1>5. w \in Seq(Ages) /\ Len(w) = Len(s) - n
  BY <1>0, <1>3, <1>4
<1>6. ASSUME NEW i \in 1..Len(w) PROVE w[i] = s[i + n] /\ w[i] < RestartWindow
  <2>1. i \in 1..(Len(s) - (n + 1) + 1) /\ (n + 1) + i - 1 = i + n /\ i + n \in (n + 1)..Len(s)
    BY <1>0, <1>5
  <2>. QED
    BY <1>0, <1>3, <1>4, <2>1
<1>. QED
  BY <1>5, <1>6 DEF n

-----------------------------------------------------------------------------
(* ProcessTypeOK in two parts: where the goroutines are, and the ages. *)
PlacesOK ==
  /\ master \in [Pids -> MasterStates] /\ pidfile \in Pids \cup {0}
  /\ state \in States /\ childPID \in Pids \cup {0} /\ waiters \subseteq Pids
  /\ applyMu \in {"free", "sup", "apply"}
  /\ act \in [step: ActSteps, pid: Pids \cup {0}]
  /\ sup \in {"idle", "gate", "backoff", "late", "lock", "holding", "failing", "exit"}
  /\ apply \in {"idle", "holding", "failing"}
  /\ main \in {"running", "cancelled", "quit", "stopping", "stopped", "stop_failed", "exited"}
  /\ quiet \in BOOLEAN
HeldOK ==
  /\ (applyMu = "sup") = (sup = "holding")
  /\ (applyMu = "apply") = (apply # "idle")
  /\ (act.step # "none") = (sup = "holding" \/ apply = "holding")
  /\ act.step \in {"record", "spawn"} => act.pid \in Pids
AgesOK == failures \in Seq(Ages) /\ recent \in Seq(Ages)

(* An activation that goes to its next step.                               *)
LEMMA StepSet ==
  ASSUME NEW a \in [step: ActSteps, pid: Pids \cup {0}], NEW s \in ActSteps
  PROVE  /\ [a EXCEPT !.step = s] \in [step: ActSteps, pid: Pids \cup {0}]
         /\ [a EXCEPT !.step = s].step = s /\ [a EXCEPT !.step = s].pid = a.pid
  OBVIOUS

(* The same, for the variable.                                             *)
LEMMA StepMoves ==
  ASSUME PlacesOK, NEW s \in ActSteps, Step(s)
  PROVE  act' \in [step: ActSteps, pid: Pids \cup {0}] /\ act'.step = s /\ act'.pid = act.pid
<1>1. act \in [step: ActSteps, pid: Pids \cup {0}]
  BY DEF PlacesOK
<1>2. act' = [act EXCEPT !.step = s]
  BY DEF Step
<1>. QED
  BY <1>1, <1>2, StepSet

(* The places and the lock at the start.                                   *)
LEMMA PlacesStart == ProcessInit => PlacesOK /\ HeldOK
<1> SUFFICES ASSUME ProcessInit PROVE PlacesOK /\ HeldOK
  OBVIOUS
<1>1. (CHOOSE p \in Pids : TRUE) \in Pids
  BY ProcessAssumption
<1>. QED
  BY <1>1 DEF ProcessInit, PlacesOK, HeldOK, NoAct, MasterStates, States, ActSteps

(* An activation keeps its places and hands the lock back.                 *)
LEMMA ActivationPlaces ==
  ASSUME PlacesOK, HeldOK, ActivationStep PROVE PlacesOK' /\ HeldOK'
<1>1. CASE Activate
  <2>1. PICK t \in {"reload", "start"} : Step(t) /\ state' \in States
    BY <1>1 DEF Activate, States
  <2>2. act' \in [step: ActSteps, pid: Pids \cup {0}] /\ act'.step = t
    BY <2>1, StepMoves DEF ActSteps
  <2>. QED
    BY <1>1, <2>1, <2>2 DEF Activate, PlacesOK, HeldOK
<1>2. ASSUME NEW ok \in BOOLEAN, act.step # "none", Return(ok),
             UNCHANGED <<master, pidfile, childPID, waiters, main, quiet>>, state' \in States
      PROVE  PlacesOK' /\ HeldOK'
  BY <1>2 DEF Return, NoAct, PlacesOK, HeldOK, ActSteps
<1>3. CASE ActivateFails
  BY <1>2, <1>3 DEF ActivateFails, PlacesOK
<1>4. CASE Reload
  <2>1. act' \in [step: ActSteps, pid: Pids \cup {0}] /\ act'.step = "reloaded" /\ act'.pid = act.pid
    BY <1>4, StepMoves DEF Reload, ActSteps
  <2>. QED
    BY <1>4, <2>1 DEF Reload, PlacesOK, HeldOK, States
<1>5. CASE Reloaded
  BY <1>2, <1>5 DEF Reloaded, PlacesOK
<1>6. CASE StartMaster
  BY <1>6 DEF StartMaster, PlacesOK, HeldOK, ActSteps, MasterStates
<1>7. CASE RecordChild
  <2>1. act' \in [step: ActSteps, pid: Pids \cup {0}] /\ act'.step = "spawn" /\ act'.pid = act.pid
    BY <1>7, StepMoves DEF RecordChild, ActSteps
  <2>. QED
    BY <1>7, <2>1 DEF RecordChild, PlacesOK, HeldOK
<1>8. CASE SpawnWaiter
  <2>1. act' \in [step: ActSteps, pid: Pids \cup {0}] /\ act'.step = "poll" /\ act'.pid = act.pid
    BY <1>8, StepMoves DEF SpawnWaiter, ActSteps
  <2>. QED
    BY <1>8, <2>1 DEF SpawnWaiter, PlacesOK, HeldOK
<1>9. CASE Poll
  <2>1. act' \in [step: ActSteps, pid: Pids \cup {0}] /\ act'.step = "ready" /\ act'.pid = act.pid
    BY <1>9, StepMoves DEF Poll, ActSteps
  <2>. QED
    BY <1>9, <2>1 DEF Poll, PlacesOK, HeldOK
<1>10. CASE Ready
  BY <1>2, <1>10 DEF Ready, States
<1>. QED
  BY <1>1, <1>3, <1>4, <1>5, <1>6, <1>7, <1>8, <1>9, <1>10 DEF ActivationStep

(* So does the supervisor.                                                 *)
LEMMA SupervisorPlaces ==
  ASSUME PlacesOK, HeldOK, SupStep \/ SupLock PROVE PlacesOK' /\ HeldOK'
<1>1. CASE SupTick
  BY <1>1 DEF SupTick, PlacesOK, HeldOK, States
<1>2. CASE MayRestart \/ BackoffOver
  BY <1>2 DEF MayRestart, BackoffOver, PlacesOK, HeldOK
<1>3. CASE SupFailed \/ SupExit
  BY <1>3 DEF SupFailed, SupExit, Failed, PlacesOK, HeldOK, States
<1>4. CASE SupLock
  <2>1. CASE Named
    BY <1>4, <2>1 DEF SupLock, PlacesOK, HeldOK
  <2>2. CASE ~Named
    <3>1. /\ act' \in [step: ActSteps, pid: Pids \cup {0}] /\ act'.step = "begin"
          /\ sup' = "holding" /\ applyMu' = "sup" /\ applyMu = "free"
      BY <1>4, <2>2, StepMoves DEF SupLock, ActSteps
    <3>2. UNCHANGED <<master, pidfile, state, childPID, waiters, apply, main, quiet>>
      BY <1>4 DEF SupLock
    <3>. QED
      BY <3>1, <3>2 DEF PlacesOK, HeldOK
  <2>. QED
    BY <2>1, <2>2
<1>. QED
  BY <1>1, <1>2, <1>3, <1>4 DEF SupStep

(* And every other process.                                                *)
LEMMA OtherPlaces ==
  ASSUME PlacesOK, HeldOK,
         \/ WaiterStep \/ ApplyBegin \/ ApplyFailed
         \/ Cancel \/ ExitWithoutStop \/ StopBegin \/ StopQuit \/ StopWait
         \/ (\E p \in Pids : MasterUp(p) \/ MasterEnds(p)) \/ ClockTicks
         \/ UNCHANGED processVars
  PROVE  PlacesOK' /\ HeldOK'
<1>1. CASE WaiterStep
  BY <1>1 DEF WaiterStep, WaitReturns, PlacesOK, HeldOK, States
<1>2. CASE ApplyBegin
  <2>1. act' \in [step: ActSteps, pid: Pids \cup {0}] /\ act'.step = "begin" /\ act'.pid = act.pid
    BY <1>2, StepMoves DEF ApplyBegin, ActSteps
  <2>. QED
    BY <1>2, <2>1 DEF ApplyBegin, PlacesOK, HeldOK
<1>3. CASE ApplyFailed
  BY <1>3 DEF ApplyFailed, Failed, PlacesOK, HeldOK, States
<1>4. CASE Cancel \/ ExitWithoutStop
  <2>1. quiet' \in BOOLEAN /\ main' \in {"cancelled", "exited"}
    BY <1>4 DEF Cancel, ExitWithoutStop, PlacesOK
  <2>2. UNCHANGED <<master, pidfile, state, childPID, waiters, applyMu, act, sup, apply>>
    BY <1>4 DEF Cancel, ExitWithoutStop
  <2>. QED
    BY <2>1, <2>2 DEF PlacesOK, HeldOK
<1>5. CASE StopBegin \/ StopWait
  BY <1>5 DEF StopBegin, StopWait, PlacesOK, HeldOK, States
<1>6. CASE StopQuit
  BY <1>6 DEF StopQuit, PlacesOK, HeldOK, MasterStates
<1>7. ASSUME NEW p \in Pids, MasterUp(p) \/ MasterEnds(p) PROVE PlacesOK' /\ HeldOK'
  BY <1>7 DEF MasterUp, MasterEnds, PlacesOK, HeldOK, MasterStates
<1>8. CASE ClockTicks \/ UNCHANGED processVars
  BY <1>8 DEF ClockTicks, processVars, PlacesOK, HeldOK
<1>. QED
  BY <1>1, <1>2, <1>3, <1>4, <1>5, <1>6, <1>7, <1>8

(* Types and the holder of the lock are inductive.                         *)
LEMMA PlacesKeep ==
  PlacesOK /\ HeldOK /\ [ProcessNext]_processVars => PlacesOK' /\ HeldOK'
  BY ActivationPlaces, SupervisorPlaces, OtherPlaces DEF ProcessNext

-----------------------------------------------------------------------------
(* A master that has its sockets is the one in the PID file; a shutdown    *)
(* that met nothing being started meets nothing started later.             *)
SocketsNamed == \A p \in Pids : master[p] \in {"up", "quitting"} => pidfile = p
NothingStarts ==
  quiet => /\ Cancelled /\ applyMu = "free" /\ sup \notin {"backoff", "lock"}
           /\ \A p \in Pids : master[p] # "booting"
StopInv == PlacesOK /\ HeldOK /\ SocketsNamed /\ NothingStarts /\ StopLeavesNoMaster

(* Nothing was stopped at the start.                                       *)
LEMMA StopStart == ProcessInit => StopInv
<1> SUFFICES ASSUME ProcessInit PROVE StopInv
  OBVIOUS
<1>. QED
  BY PlacesStart
     DEF ProcessInit, StopInv, SocketsNamed, NothingStarts, StopLeavesNoMaster

(* The socket is named for the process of the master that has it.          *)
LEMMA SocketsKeep ==
  ASSUME PlacesOK, SocketsNamed, [ProcessNext]_processVars PROVE SocketsNamed'
<1> USE DEF SocketsNamed
<1>1. CASE UNCHANGED <<master, pidfile>>
  BY <1>1
<1>2. CASE StartMaster
  BY <1>2 DEF StartMaster, PlacesOK
<1>3. CASE StopQuit
  BY <1>3 DEF StopQuit, PlacesOK
<1>4. ASSUME NEW p \in Pids, MasterUp(p) PROVE SocketsNamed'
  BY <1>4 DEF MasterUp, Bound, PlacesOK
<1>5. ASSUME NEW p \in Pids, MasterEnds(p) PROVE SocketsNamed'
  BY <1>5 DEF MasterEnds, PlacesOK
<1>. QED
  BY <1>1, <1>2, <1>3, <1>4, <1>5
     DEF ProcessNext, ActivationStep, Activate, ActivateFails, Reload, Reloaded, RecordChild,
         SpawnWaiter, Poll, Ready, WaiterStep, WaitReturns, ApplyBegin, ApplyFailed, SupStep,
         SupTick, MayRestart, BackoffOver, SupFailed, SupExit, SupLock, Cancel,
         ExitWithoutStop, StopBegin, StopWait, ClockTicks, processVars

(* Once Stop has the lock nothing starts a master any more.                *)
LEMMA NothingStartsKeep ==
  ASSUME PlacesOK, HeldOK, NothingStarts, [ProcessNext]_processVars PROVE NothingStarts'
<1>1. CASE Cancel
  BY <1>1 DEF Cancel, NothingStarts, Cancelled
<1>2. ASSUME ~Cancel PROVE quiet' = quiet
  BY <1>2
     DEF ProcessNext, ActivationStep, Activate, ActivateFails, Reload, Reloaded, StartMaster,
         RecordChild, SpawnWaiter, Poll, Ready, WaiterStep, WaitReturns, ApplyBegin,
         ApplyFailed, SupStep, SupTick, MayRestart, BackoffOver, SupFailed, SupExit, SupLock,
         ExitWithoutStop, StopBegin, StopQuit, StopWait, MasterUp, MasterEnds, ClockTicks,
         processVars
<1>3. ASSUME ~Cancel, quiet PROVE NothingStarts'
  <2>1. /\ Cancelled /\ applyMu = "free" /\ sup \notin {"backoff", "lock", "holding"}
        /\ \A p \in Pids : master[p] # "booting"
        /\ act.step = "none" /\ apply = "idle"
    BY <1>3 DEF NothingStarts, HeldOK, PlacesOK
  <2>2. ~ActivationStep /\ ~ApplyBegin /\ ~ApplyFailed /\ ~SupLock /\ ~BackoffOver /\ ~ClockTicks
        /\ \A p \in Pids : ~MasterUp(p)
    BY <2>1
       DEF ActivationStep, Activate, ActivateFails, Reload, Reloaded, StartMaster, RecordChild,
           SpawnWaiter, Poll, Ready, ApplyBegin, ApplyFailed, SupLock, BackoffOver, ClockTicks,
           MasterUp
  <2>3. CASE UNCHANGED <<main, applyMu, master>> /\ sup' \notin {"backoff", "lock"}
    BY <2>1, <2>3 DEF NothingStarts, Cancelled
  <2>4. CASE WaiterStep \/ SupTick \/ MayRestart \/ SupFailed \/ SupExit \/ UNCHANGED processVars
    BY <2>1, <2>3, <2>4
       DEF WaiterStep, WaitReturns, SupTick, MayRestart, SupFailed, SupExit, processVars
  <2>5. CASE ExitWithoutStop \/ StopBegin \/ StopWait
    BY <2>1, <2>5 DEF ExitWithoutStop, StopBegin, StopWait, NothingStarts, Cancelled
  <2>6. CASE StopQuit
    BY <2>1, <2>6 DEF StopQuit, NothingStarts, Cancelled, PlacesOK
  <2>7. ASSUME NEW p \in Pids, MasterEnds(p) PROVE NothingStarts'
    BY <2>1, <2>7 DEF MasterEnds, NothingStarts, Cancelled, PlacesOK
  <2>. QED
    BY <1>3, <2>2, <2>4, <2>5, <2>6, <2>7 DEF ProcessNext, SupStep
<1>4. CASE ~Cancel /\ ~quiet
  BY <1>2, <1>4 DEF NothingStarts
<1>. QED
  BY <1>1, <1>3, <1>4 DEF PlacesOK

(* The invariant for Stop is inductive.                                    *)
LEMMA StopKeep == StopInv /\ [ProcessNext]_processVars => StopInv'
<1> SUFFICES ASSUME StopInv, [ProcessNext]_processVars PROVE StopInv'
  OBVIOUS
<1>0. PlacesOK' /\ HeldOK' /\ SocketsNamed' /\ NothingStarts'
  BY PlacesKeep, SocketsKeep, NothingStartsKeep DEF StopInv
<1>1. StopLeavesNoMaster'
  <2>1. CASE UNCHANGED processVars
    BY <2>1 DEF processVars, StopInv, StopLeavesNoMaster, Alive
  <2>2. CASE ProcessNext /\ main' = "stopped"
    <3>1. main # "stopped"
      BY <2>2 DEF ProcessNext, Exited
    <3>2. StopBegin \/ StopWait
      BY <2>2, <3>1
         DEF ProcessNext, ActivationStep, Activate, ActivateFails, Reload, Reloaded,
             StartMaster, RecordChild, SpawnWaiter, Poll, Ready, WaiterStep, WaitReturns,
             ApplyBegin, ApplyFailed, SupStep, SupTick, MayRestart, BackoffOver, SupFailed,
             SupExit, SupLock, Cancel, ExitWithoutStop, StopQuit, MasterUp, MasterEnds,
             ClockTicks
    <3>3. ~Named /\ UNCHANGED <<master, pidfile>>
      BY <2>2, <3>2 DEF StopBegin, StopWait
    <3>4. \A p \in Pids : p # 0
      BY ProcessAssumption
    <3>5. ASSUME quiet', NEW p \in Pids PROVE master'[p] = "gone"
      BY <1>0, <3>3, <3>4, <3>5
         DEF Named, Alive, SocketsNamed, NothingStarts, PlacesOK, MasterStates
    <3>. QED
      BY <3>5 DEF StopLeavesNoMaster, Alive
  <2>. QED
    BY <2>1, <2>2 DEF StopLeavesNoMaster
<1>. QED
  BY <1>0, <1>1 DEF StopInv

(* For any process ids: a Stop that returns without error, after a context *)
(* that was cancelled while nothing was being started, leaves no master.   *)
THEOREM StopLeavesNoMasterHolds == ProcessSpec => []StopLeavesNoMaster
<1>1. StopInv => StopLeavesNoMaster
  BY DEF StopInv
<1>. QED
  BY <1>1, StopStart, StopKeep, PTL DEF ProcessSpec

-----------------------------------------------------------------------------
(* The supervisor records a failure, backs off and restarts, in this order *)
(* and one after the other.  So every restart but the last one was         *)
(* followed by a failure that is no older (the last one too, while the     *)
(* next restart is pending), and as long as the restart is in the window   *)
(* the failure is: there are at most as many of them as the limit.         *)
Pending == sup \in {"backoff", "late", "lock"}
Followed == IF Pending THEN Len(recent) ELSE Len(recent) - 1
OldestFirst ==
  \A i, j \in 1..Len(failures) : i <= j => failures[j] <= failures[i]
InWindow == \A i \in 1..Len(recent) : recent[i] < RestartWindow
FailuresFollow ==
  /\ Followed <= Len(failures)
  /\ \A i \in 1..Followed : failures[Len(failures) - Followed + i] <= recent[i]
RestartInv ==
  /\ PlacesOK /\ HeldOK /\ AgesOK /\ OldestFirst /\ InWindow /\ FailuresFollow
  /\ Len(failures) <= RestartMaxFailures

(* No restarts at the start.                                               *)
LEMMA RestartStart == ProcessInit => RestartInv
<1> SUFFICES ASSUME ProcessInit PROVE RestartInv
  OBVIOUS
<1>1. failures = <<>> /\ recent = <<>> /\ sup = "idle"
  BY DEF ProcessInit
<1>2. RestartMaxFailures \in Nat
  BY ProcessAssumption
<1>. QED
  BY <1>1, <1>2, PlacesStart
     DEF RestartInv, AgesOK, OldestFirst, InWindow, FailuresFollow, Followed, Pending

(* What the invariant says of the restarts in the window.                  *)
LEMMA RestartBound == RestartInv => RestartsBounded
<1> SUFFICES ASSUME RestartInv PROVE RestartsBounded
  OBVIOUS
<1>1. Len(recent) \in Nat /\ Len(failures) \in Nat /\ RestartMaxFailures \in Nat
  BY ProcessAssumption DEF RestartInv, AgesOK
<1>. QED
  BY <1>1 DEF RestartInv, FailuresFollow, Followed, RestartsBounded

(* The failures kept are the newest ones, and whatever follows a restart   *)
(* of the window is kept.                                                  *)
LEMMA KeptFollow ==
  ASSUME RestartInv
  PROVE  /\ Kept \in Seq(Ages) /\ Len(Kept) <= Len(failures)
         /\ \A i, j \in 1..Len(Kept) : i <= j => Kept[j] <= Kept[i]
         /\ Followed <= Len(Kept)
         /\ \A i \in 1..Followed : Kept[Len(Kept) - Followed + i] <= recent[i]
<1> DEFINE n == LastOut(failures)
<1>0. /\ failures \in Seq(Ages) /\ Len(failures) \in Nat
      /\ recent \in Seq(Ages) /\ Len(recent) \in Nat
      /\ RestartWindow \in Nat
  BY ProcessAssumption DEF RestartInv, AgesOK
<1>1. n \in 0..Len(failures) /\ (n = 0 \/ failures[n] >= RestartWindow)
  BY <1>0, LastOutExists
<1>2. /\ Kept \in Seq(Ages) /\ Len(Kept) = Len(failures) - n
      /\ \A i \in 1..Len(Kept) : Kept[i] = failures[i + n]
  BY <1>0, WithinIs DEF Kept
<1>3. Followed \in Int /\ Followed <= Len(recent) /\ Followed <= Len(failures)
  BY <1>0 DEF Followed, RestartInv, FailuresFollow
<1>4. \A i \in 1..Len(failures) : failures[i] \in Nat
  BY <1>0 DEF Ages
<1>5. \A i \in 1..Len(recent) : recent[i] \in Nat /\ recent[i] < RestartWindow
  BY <1>0 DEF Ages, RestartInv, InWindow
<1> HIDE DEF n
<1>6. ASSUME NEW i \in 1..Followed
      PROVE  Len(failures) - Followed + i > n
  <2> DEFINE k == Len(failures) - Followed + i
  <2>1. k \in 1..Len(failures) /\ i \in 1..Len(recent)
    BY <1>0, <1>3
  <2>2. failures[k] <= recent[i]
    BY DEF RestartInv, FailuresFollow
  <2>3. failures[k] < RestartWindow
    BY <1>0, <1>4, <1>5, <2>1, <2>2
  <2> HIDE DEF k
  <2>4. ASSUME k <= n PROVE FALSE
    <3>1. n \in 1..Len(failures)
      BY <1>0, <1>1, <2>1, <2>4
    <3>2. failures[n] <= failures[k]
      BY <2>1, <2>4, <3>1 DEF RestartInv, OldestFirst
    <3>3. n # 0
      BY <3>1
    <3>. QED
      BY <1>0, <1>1, <1>4, <2>1, <2>3, <3>1, <3>2, <3>3
  <2>5. k > n
    BY <1>0, <1>1, <2>1, <2>4
  <2>. QED
    BY <2>5 DEF k
<1>7. Followed <= Len(Kept)
  <2>1. CASE Followed <= 0
    BY <1>0, <1>1, <1>2, <1>3, <2>1
  <2>2. CASE Followed > 0
    <3>1. 1 \in 1..Followed
      BY <1>3, <2>2
    <3>2. Len(failures) - Followed + 1 > n
      BY <1>6, <3>1
    <3>. QED
      BY <1>0, <1>1, <1>2, <1>3, <3>2
  <2>. QED
    BY <1>3, <2>1, <2>2
<1>8. ASSUME NEW i \in 1..Followed PROVE Kept[Len(Kept) - Followed + i] <= recent[i]
  <2>1. Len(Kept) - Followed + i \in 1..Len(Kept)
    BY <1>0, <1>1, <1>2, <1>3, <1>7
  <2>2. Len(Kept) - Followed + i + n = Len(failures) - Followed + i
    BY <1>0, <1>1, <1>2, <1>3
  <2>3. Kept[Len(Kept) - Followed + i] = failures[Len(Kept) - Followed + i + n]
    BY <1>2, <2>1
  <2>. QED
    BY <2>2, <2>3 DEF RestartInv, FailuresFollow
<1>9. ASSUME NEW i \in 1..Len(Kept), NEW j \in 1..Len(Kept), i <= j
      PROVE  Kept[j] <= Kept[i]
  <2>1. i + n \in 1..Len(failures) /\ j + n \in 1..Len(failures) /\ i + n <= j + n
    BY <1>0, <1>1, <1>2, <1>9
  <2>. QED
    BY <1>2, <2>1 DEF RestartInv, OldestFirst
<1>10. Len(Kept) <= Len(failures)
  BY <1>0, <1>1, <1>2
<1>. QED
  BY <1>2, <1>7, <1>8, <1>9, <1>10

(* An age is a number.                                                     *)
LEMMA AgeOf ==
  ASSUME NEW s \in Seq(Ages), NEW i \in 1..Len(s) PROVE s[i] \in Ages /\ s[i] \in Nat
<1>1. s[i] \in Ages
  BY ElementOfSeq
<1>. QED
  BY <1>1, ProcessAssumption DEF Ages

(* A failure and a restart later. *)
LEMMA FollowsNext ==
  ASSUME NEW f \in Seq(Ages), NEW r \in Seq(Ages), NEW k \in Int, k <= Len(r), k <= Len(f),
         \A i, j \in 1..Len(f) : i <= j => f[j] <= f[i],
         \A i \in 1..k : f[Len(f) - k + i] <= r[i]
  PROVE  \A i \in 1..(k - 1) : f[Len(f) - (k - 1) + i] <= r[i]
<1> SUFFICES ASSUME NEW i \in 1..(k - 1) PROVE f[Len(f) - (k - 1) + i] <= r[i]
  OBVIOUS
<1>0. Len(f) \in Nat /\ Len(r) \in Nat
  OBVIOUS
<1> DEFINE a == Len(f) - k + i
           b == Len(f) - (k - 1) + i
<1>1. a \in 1..Len(f) /\ b \in 1..Len(f) /\ a <= b /\ i \in 1..k /\ i \in 1..Len(r)
  BY <1>0
<1>2. f[b] <= f[a] /\ f[a] <= r[i]
  BY <1>1
<1>3. f[a] \in Int /\ f[b] \in Int /\ r[i] \in Int
  BY <1>1, AgeOf
<1> HIDE DEF a, b
<1>4. f[b] <= r[i]
  BY <1>2, <1>3
<1>. QED
  BY <1>4 DEF b

(* A failure that is recorded now.                                         *)
LEMMA AppendAge ==
  ASSUME NEW f \in Seq(Ages)
  PROVE  /\ Append(f, 0) \in Seq(Ages) /\ Len(Append(f, 0)) = Len(f) + 1
         /\ \A i \in 1..Len(f) : Append(f, 0)[i] = f[i] /\ f[i] \in Nat
         /\ Append(f, 0)[Len(f) + 1] = 0
<1>1. 0 \in Ages
  BY ProcessAssumption DEF Ages
<1>2. \A i \in 1..Len(f) : f[i] \in Nat
  BY AgeOf
<1>. QED
  BY <1>1, <1>2, AppendProperties

(* mayRestart prunes, counts and records under one lock.                   *)
LEMMA MayRestartKeeps ==
  ASSUME RestartInv, MayRestart PROVE RestartInv'
<1>0. PlacesOK' /\ HeldOK'
  BY SupervisorPlaces DEF RestartInv, SupStep
<1>1. /\ Kept \in Seq(Ages) /\ Len(Kept) <= Len(failures)
      /\ \A i, j \in 1..Len(Kept) : i <= j => Kept[j] <= Kept[i]
      /\ Followed <= Len(Kept)
      /\ \A i \in 1..Followed : Kept[Len(Kept) - Followed + i] <= recent[i]
  BY KeptFollow
<1>2. /\ recent' = recent /\ recent \in Seq(Ages) /\ Len(recent) \in Nat
      /\ Followed = Len(recent) - 1 /\ Len(Kept) \in Nat /\ Len(failures) \in Nat
      /\ RestartMaxFailures \in Nat /\ Len(failures) <= RestartMaxFailures /\ InWindow
  BY <1>1, ProcessAssumption DEF MayRestart, RestartInv, AgesOK, Followed, Pending
<1>3. InWindow'
  BY <1>2 DEF InWindow
<1>4. CASE Len(Kept) >= RestartMaxFailures
  <2>1. failures' = Kept /\ sup' = "failing"
    BY <1>4 DEF MayRestart
  <2>2. Followed' = Followed
    BY <1>2, <2>1 DEF Followed, Pending
  <2>3. AgesOK' /\ OldestFirst' /\ FailuresFollow' /\ Len(failures') <= RestartMaxFailures
    BY <1>1, <1>2, <2>1, <2>2 DEF AgesOK, OldestFirst, FailuresFollow
  <2>. QED
    BY <1>0, <1>3, <2>3 DEF RestartInv
<1>5. CASE ~(Len(Kept) >= RestartMaxFailures)
  <2> DEFINE K == Kept
             f == Append(K, 0)
  <2>1. failures' = f /\ sup' \in {"late", "backoff"}
    BY <1>5 DEF MayRestart
  <2>2. Followed' = Len(recent)
    BY <1>2, <2>1 DEF Followed, Pending
  <2>3. /\ K \in Seq(Ages) /\ Len(K) \in Nat /\ f \in Seq(Ages) /\ Len(f) = Len(K) + 1
        /\ \A i \in 1..Len(K) : f[i] = K[i] /\ K[i] \in Nat
        /\ f[Len(K) + 1] = 0
    BY <1>1, <1>2, AppendAge
  <2>4. /\ \A i, j \in 1..Len(K) : i <= j => K[j] <= K[i]
        /\ Len(recent) - 1 <= Len(K)
        /\ \A i \in 1..(Len(recent) - 1) : K[Len(K) - (Len(recent) - 1) + i] <= recent[i]
    BY <1>1, <1>2
  <2> HIDE DEF K, f
  <2>5. \A i, j \in 1..Len(f) : i <= j => f[j] <= f[i]
    <3> SUFFICES ASSUME NEW i \in 1..Len(f), NEW j \in 1..Len(f), i <= j PROVE f[j] <= f[i]
      OBVIOUS
    <3>1. CASE j = Len(K) + 1
      <4>1. f[j] = 0 /\ f[i] \in Nat
        BY <2>3, <3>1, AgeOf
      <4>. QED
        BY <4>1
    <3>2. CASE j # Len(K) + 1
      <4>1. i \in 1..Len(K) /\ j \in 1..Len(K)
        BY <2>3, <3>2
      <4>. QED
        BY <2>3, <2>4, <4>1
    <3>. QED
      BY <3>1, <3>2
  <2>6. \A i \in 1..Len(recent) : f[Len(f) - Len(recent) + i] <= recent[i]
    <3> SUFFICES ASSUME NEW i \in 1..Len(recent) PROVE f[Len(f) - Len(recent) + i] <= recent[i]
      OBVIOUS
    <3>1. recent[i] \in Nat
      BY <1>2, AgeOf
    <3>2. CASE i = Len(recent)
      <4>1. Len(f) - Len(recent) + i = Len(K) + 1
        BY <1>2, <2>3, <3>2
      <4>. QED
        BY <2>3, <3>1, <4>1
    <3>3. CASE i # Len(recent)
      <4>1. /\ i \in 1..(Len(recent) - 1)
            /\ Len(f) - Len(recent) + i = Len(K) - (Len(recent) - 1) + i
            /\ Len(K) - (Len(recent) - 1) + i \in 1..Len(K)
        BY <1>2, <2>3, <2>4, <3>3
      <4>. QED
        BY <2>3, <2>4, <4>1
    <3>. QED
      BY <3>2, <3>3
  <2>7. Len(f) <= RestartMaxFailures /\ Len(recent) <= Len(f)
    BY <1>2, <1>5, <2>3, <2>4 DEF K
  <2>8. AgesOK' /\ OldestFirst' /\ FailuresFollow' /\ Len(failures') <= RestartMaxFailures
    BY <1>2, <2>1, <2>2, <2>3, <2>5, <2>6, <2>7 DEF AgesOK, OldestFirst, FailuresFollow
  <2>. QED
    BY <1>0, <1>3, <2>8 DEF RestartInv
<1>. QED
  BY <1>4, <1>5

(* The restart that mayRestart granted happens after it.                   *)
LEMMA SupLockKeeps ==
  ASSUME RestartInv, SupLock PROVE RestartInv'
<1>0. PlacesOK' /\ HeldOK'
  BY SupervisorPlaces DEF RestartInv
<1>1. /\ failures' = failures /\ failures \in Seq(Ages) /\ recent \in Seq(Ages)
      /\ Len(failures) \in Nat /\ Len(recent) \in Nat /\ Followed = Len(recent)
      /\ OldestFirst /\ InWindow /\ FailuresFollow /\ Len(failures) <= RestartMaxFailures
  BY DEF SupLock, RestartInv, AgesOK, Followed, Pending
<1>2. CASE Named
  <2>1. recent' = recent /\ sup' = "idle"
    BY <1>2 DEF SupLock
  <2>2. Followed' = Len(recent) - 1
    BY <1>1, <2>1 DEF Followed, Pending
  <2>3. \A i \in 1..(Len(recent) - 1) : failures[Len(failures) - (Len(recent) - 1) + i] <= recent[i]
    <3>1. /\ Len(recent) <= Len(failures) /\ Len(recent) \in Int /\ Len(recent) <= Len(recent)
          /\ \A i, j \in 1..Len(failures) : i <= j => failures[j] <= failures[i]
          /\ \A i \in 1..Len(recent) : failures[Len(failures) - Len(recent) + i] <= recent[i]
      BY <1>1 DEF OldestFirst, FailuresFollow
    <3>. QED
      BY <1>1, <3>1, FollowsNext
  <2>4. AgesOK' /\ OldestFirst' /\ InWindow' /\ FailuresFollow' /\ Len(failures') <= RestartMaxFailures
    BY <1>1, <2>1, <2>2, <2>3 DEF AgesOK, OldestFirst, InWindow, FailuresFollow
  <2>. QED
    BY <1>0, <2>4 DEF RestartInv
<1>3. CASE ~Named
  <2> DEFINE r == Append(recent, 0)
  <2>1. recent' = r /\ sup' = "holding"
    BY <1>3 DEF SupLock
  <2>2. /\ r \in Seq(Ages) /\ Len(r) = Len(recent) + 1 /\ r[Len(recent) + 1] = 0
        /\ \A i \in 1..Len(recent) : r[i] = recent[i]
    BY <1>1, AppendAge
  <2> HIDE DEF r
  <2>3. Followed' = Len(recent)
    BY <1>1, <2>1, <2>2 DEF Followed, Pending
  <2>4. \A i \in 1..Len(r) : r[i] < RestartWindow
    BY <1>1, <2>2, ProcessAssumption DEF InWindow
  <2>5. FailuresFollow'
    BY <1>1, <2>1, <2>2, <2>3 DEF FailuresFollow
  <2>6. AgesOK' /\ OldestFirst' /\ InWindow' /\ Len(failures') <= RestartMaxFailures
    BY <1>1, <2>1, <2>2, <2>4 DEF AgesOK, OldestFirst, InWindow
  <2>. QED
    BY <1>0, <2>5, <2>6 DEF RestartInv
<1>. QED
  BY <1>2, <1>3

(* Every age grows with the clock.                                         *)
LEMMA Aging ==
  ASSUME NEW s \in Seq(Ages)
  PROVE  LET o == [i \in DOMAIN s |-> Older(s[i])]
         IN  /\ o \in Seq(Ages) /\ Len(o) = Len(s)
             /\ \A i \in 1..Len(s) : o[i] = Older(s[i])
<1>0. Len(s) \in Nat /\ DOMAIN s = 1..Len(s) /\ RestartWindow \in Nat
  BY ProcessAssumption
<1> DEFINE o == [i \in 1..Len(s) |-> Older(s[i])]
<1>1. \A i \in 1..Len(s) : Older(s[i]) \in Ages
  BY <1>0 DEF Ages, Older
<1>2. o \in [1..Len(s) -> Ages]
  BY <1>1
<1>3. o \in Seq(Ages) /\ Len(o) = Len(s)
  BY <1>0, <1>2, SeqDef
<1>. QED
  BY <1>0, <1>3

(* Growing older keeps the order.                                          *)
LEMMA OlderMonotone ==
  \A a, b \in Ages : a <= b => Older(a) <= Older(b)
  BY ProcessAssumption DEF Ages, Older

(* The clock ages failures and restarts alike.                             *)
LEMMA ClockKeeps ==
  ASSUME RestartInv, ClockTicks PROVE RestartInv'
<1>0. PlacesOK' /\ HeldOK'
  BY OtherPlaces DEF RestartInv
<1>1. /\ failures \in Seq(Ages) /\ recent \in Seq(Ages) /\ sup' = sup
      /\ Len(failures) \in Nat /\ Len(recent) \in Nat
      /\ OldestFirst /\ InWindow /\ FailuresFollow /\ Len(failures) <= RestartMaxFailures
  BY DEF ClockTicks, RestartInv, AgesOK
<1> DEFINE f == [i \in DOMAIN failures |-> Older(failures[i])]
           o == [i \in DOMAIN recent |-> Older(recent[i])]
           d == LastOut(o)
           r == Within(o)
<1>2. failures' = f /\ recent' = r
  BY DEF ClockTicks
<1>3. /\ f \in Seq(Ages) /\ Len(f) = Len(failures)
      /\ \A i \in 1..Len(failures) : f[i] = Older(failures[i])
  BY <1>1, Aging
<1>4. /\ o \in Seq(Ages) /\ Len(o) = Len(recent)
      /\ \A i \in 1..Len(recent) : o[i] = Older(recent[i])
  BY <1>1, Aging
<1> HIDE DEF f, o
<1>5. /\ d \in 0..Len(recent) /\ r \in Seq(Ages) /\ Len(r) = Len(recent) - d
      /\ \A i \in 1..Len(r) : r[i] = o[i + d] /\ r[i] < RestartWindow
  BY <1>4, LastOutExists, WithinIs
<1> HIDE DEF d, r
<1>6. /\ \A i \in 1..Len(failures) : failures[i] \in Ages
      /\ \A i \in 1..Len(recent) : recent[i] \in Ages
  BY <1>1
<1>7. \A i, j \in 1..Len(f) : i <= j => f[j] <= f[i]
  BY <1>1, <1>3, <1>6, OlderMonotone DEF OldestFirst
<1>8. Followed' = Followed - d /\ Followed \in Int /\ Followed <= Len(recent)
  BY <1>1, <1>2, <1>5 DEF Followed, Pending
<1>9. ASSUME NEW i \in 1..(Followed - d)
      PROVE  f[Len(f) - (Followed - d) + i] <= r[i]
  <2> DEFINE k == Len(failures) - Followed + (i + d)
  <2>1. /\ i + d \in 1..Followed /\ i + d \in 1..Len(recent) /\ i \in 1..Len(r)
        /\ k \in 1..Len(failures) /\ Len(f) - (Followed - d) + i = k
    BY <1>1, <1>3, <1>5, <1>8 DEF FailuresFollow
  <2>2. failures[k] <= recent[i + d]
    BY <1>1, <2>1 DEF FailuresFollow
  <2> HIDE DEF k
  <2>3. r[i] = Older(recent[i + d]) /\ f[k] = Older(failures[k])
    BY <1>3, <1>4, <1>5, <2>1
  <2>4. f[k] <= r[i]
    BY <1>6, <2>1, <2>2, <2>3, OlderMonotone
  <2>. QED
    BY <2>1, <2>4
<1>10. FailuresFollow'
  BY <1>1, <1>2, <1>3, <1>5, <1>8, <1>9 DEF FailuresFollow
<1>11. AgesOK' /\ OldestFirst' /\ InWindow' /\ Len(failures') <= RestartMaxFailures
  BY <1>1, <1>2, <1>3, <1>5, <1>7 DEF AgesOK, OldestFirst, InWindow
<1>. QED
  BY <1>0, <1>10, <1>11 DEF RestartInv

(* The invariant for restarts is inductive.                                *)
LEMMA RestartKeep == RestartInv /\ [ProcessNext]_processVars => RestartInv'
<1> SUFFICES ASSUME RestartInv, [ProcessNext]_processVars PROVE RestartInv'
  OBVIOUS
<1>0. PlacesOK' /\ HeldOK'
  BY PlacesKeep DEF RestartInv
<1>1. /\ failures \in Seq(Ages) /\ recent \in Seq(Ages)
      /\ Len(failures) \in Nat /\ Len(recent) \in Nat
      /\ OldestFirst /\ InWindow /\ FailuresFollow /\ Len(failures) <= RestartMaxFailures
  BY DEF RestartInv, AgesOK
<1>2. ASSUME UNCHANGED <<failures, recent>>, Pending' => Pending PROVE RestartInv'
  <2>1. FailuresFollow'
    <3>1. CASE Pending' = Pending
      BY <1>1, <1>2, <3>1 DEF FailuresFollow, Followed
    <3>2. CASE Pending /\ ~Pending'
      <4>1. Followed = Len(recent) /\ Followed' = Len(recent) - 1
        BY <1>2, <3>2 DEF Followed
      <4>2. \A i \in 1..(Len(recent) - 1) :
              failures[Len(failures) - (Len(recent) - 1) + i] <= recent[i]
        <5>1. /\ Len(recent) <= Len(failures) /\ Len(recent) \in Int /\ Len(recent) <= Len(recent)
              /\ \A i, j \in 1..Len(failures) : i <= j => failures[j] <= failures[i]
              /\ \A i \in 1..Len(recent) : failures[Len(failures) - Len(recent) + i] <= recent[i]
          BY <1>1, <4>1 DEF OldestFirst, FailuresFollow
        <5>. QED
          BY <1>1, <5>1, FollowsNext
      <4>. QED
        BY <1>1, <1>2, <4>1, <4>2 DEF FailuresFollow
    <3>. QED
      BY <1>2, <3>1, <3>2 DEF Pending
  <2>2. AgesOK' /\ OldestFirst' /\ InWindow' /\ Len(failures') <= RestartMaxFailures
    BY <1>1, <1>2 DEF AgesOK, OldestFirst, InWindow
  <2>. QED
    BY <1>0, <2>1, <2>2 DEF RestartInv
<1>3. CASE UNCHANGED <<failures, recent, sup>>
  BY <1>2, <1>3 DEF Pending
<1>4. ASSUME NEW ok, Return(ok), act.step # "none", UNCHANGED <<failures, recent>>
      PROVE  RestartInv'
  BY <1>2, <1>4 DEF Return, Pending
<1>5. CASE ActivationStep
  BY <1>3, <1>4, <1>5
     DEF ActivationStep, Activate, ActivateFails, Reload, Reloaded, StartMaster, RecordChild,
         SpawnWaiter, Poll, Ready
<1>6. CASE SupTick \/ BackoffOver \/ SupFailed \/ SupExit
  BY <1>2, <1>6 DEF SupTick, BackoffOver, SupFailed, SupExit, Pending
<1>7. CASE \/ WaiterStep \/ ApplyBegin \/ ApplyFailed
           \/ Cancel \/ ExitWithoutStop \/ StopBegin \/ StopQuit \/ StopWait
           \/ (\E p \in Pids : MasterUp(p) \/ MasterEnds(p))
           \/ UNCHANGED processVars
  BY <1>3, <1>7
     DEF WaiterStep, WaitReturns, ApplyBegin, ApplyFailed, Cancel, ExitWithoutStop, StopBegin,
         StopQuit, StopWait, MasterUp, MasterEnds, processVars
<1>. QED
  BY <1>5, <1>6, <1>7, MayRestartKeeps, SupLockKeeps, ClockKeeps DEF ProcessNext, SupStep

(* For any limit and any window: at most one restart more than the limit   *)
(* falls in a window, whatever dies and whoever else activates.            *)
THEOREM RestartsBoundedHolds == ProcessSpec => []RestartsBounded
  BY RestartStart, RestartKeep, RestartBound, PTL DEF ProcessSpec

(* Variables have their types, and applyMu is held exactly by the goroutine *)
(* that activates or records the failure of an apply.                       *)
THEOREM ProcessTypeHolds == ProcessSpec => []ProcessTypeOK
<1>1. RestartInv => ProcessTypeOK
  BY DEF RestartInv, PlacesOK, HeldOK, AgesOK, Ages, ProcessTypeOK
<1>. QED
  BY <1>1, RestartStart, RestartKeep, PTL DEF ProcessSpec
=============================================================================
