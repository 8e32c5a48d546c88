------------------------------- MODULE Webhook -------------------------------
(***************************************************************************)
(* The webhook dispatcher: callers of Dispatch, the bounded queue, the     *)
(* worker goroutine and Stop.  The configuration is fixed for the life of  *)
(* the process.  The test handler sends with a configuration of its own    *)
(* and touches none of this state.                                         *)
(***************************************************************************)
EXTENDS Naturals, Sequences

CONSTANTS
  Alerts,     \* alerts raised by the rest of the program
  Wanted,     \* those whose event the configuration enables
  QueueSize   \* capacity of the channel (256)

ASSUME WebhookAssumption == Wanted \subseteq Alerts /\ QueueSize \in Nat \ {0}

VARIABLES
  caller,   \* where the Dispatch of every alert stands
  queue,    \* Dispatcher.queue
  stopped,  \* Dispatcher.stopped
  stopChan, \* Dispatcher.stop is closed
  stopper,  \* where Stop stands
  worker,   \* the worker: idle, sending an alert, exited
  received  \* what the receiver got

webhookVars == <<caller, queue, stopped, stopChan, stopper, worker, received>>

IdleWorker == [pc |-> "idle", alert |-> <<>>]

-----------------------------------------------------------------------------
(* Dispatch reads stopped and the configuration under the lock. *)
DispatchChecks(a) ==
  /\ caller[a] = "new"
  /\ caller' = [caller EXCEPT ![a] = IF stopped \/ a \notin Wanted THEN "done" ELSE "checked"]
  /\ UNCHANGED <<queue, stopped, stopChan, stopper, worker, received>>

(* The select after the lock was given back, when the queue has room.      *)
(* Stop may have come in between: when the stop channel is closed as well, *)
(* either case is taken.                                                   *)
DispatchQueues(a) ==
  /\ caller[a] = "checked" /\ Len(queue) < QueueSize
  /\ queue' = Append(queue, a)
  /\ caller' = [caller EXCEPT ![a] = "done"]
  /\ UNCHANGED <<stopped, stopChan, stopper, worker, received>>

(* The queue is full, or the dispatcher stopped: the alert is dropped. *)
DispatchDrops(a) ==
  /\ caller[a] = "checked" /\ (stopChan \/ Len(queue) = QueueSize)
  /\ caller' = [caller EXCEPT ![a] = "done"]
  /\ UNCHANGED <<queue, stopped, stopChan, stopper, worker, received>>

-----------------------------------------------------------------------------
(* worker: the next payload of the queue. *)
WorkerTakes ==
  /\ worker.pc = "idle" /\ queue # <<>>
  /\ worker' = [pc |-> "sending", alert |-> <<Head(queue)>>]
  /\ queue' = Tail(queue)
  /\ UNCHANGED <<caller, stopped, stopChan, stopper, received>>

(* The request reaches the receiver.  Its answer may still be lost. *)
PostArrives ==
  /\ worker.pc = "sending" /\ worker.alert # <<>>
  /\ received' = Append(received, worker.alert[1])
  /\ worker' = [worker EXCEPT !.alert = <<>>]
  /\ UNCHANGED <<caller, queue, stopped, stopChan, stopper>>

(* Mutant: an alert without an answer is sent again. *)
PostEnds_Retries ==
  /\ worker.pc = "sending"
  /\ \/ worker' = IdleWorker /\ UNCHANGED queue
     \/ /\ worker.alert = <<>> /\ received # <<>>
        /\ worker' = [worker EXCEPT !.alert = <<received[Len(received)]>>]
        /\ UNCHANGED queue
  /\ UNCHANGED <<caller, stopped, stopChan, stopper, received>>

(* postPayload returns: an answer, an error, a timeout or the cancelled    *)
(* context; there is no second try.                                        *)
PostEnds ==
  /\ worker.pc = "sending"
  /\ worker' = IdleWorker
  /\ UNCHANGED <<caller, queue, stopped, stopChan, stopper, received>>

WorkerExits ==
  /\ worker.pc = "idle" /\ stopChan
  /\ worker' = [worker EXCEPT !.pc = "exited"]
  /\ UNCHANGED <<caller, queue, stopped, stopChan, stopper, received>>

-----------------------------------------------------------------------------
(* Stop: the flag under the lock, then cancel and close, then the wait. *)
StopSets ==
  /\ stopper = "no"
  /\ stopped' = TRUE /\ stopper' = "flagged"
  /\ UNCHANGED <<caller, queue, stopChan, worker, received>>

StopCloses ==
  /\ stopper = "flagged"
  /\ stopChan' = TRUE /\ stopper' = "waiting"
  /\ UNCHANGED <<caller, queue, stopped, worker, received>>

StopReturns ==
  /\ stopper = "waiting" /\ worker.pc = "exited"
  /\ stopper' = "returned"
  /\ UNCHANGED <<caller, queue, stopped, stopChan, worker, received>>

WebhookInit ==
  /\ caller = [a \in Alerts |-> "new"]
  /\ queue = <<>> /\ stopped = FALSE /\ stopChan = FALSE
  /\ stopper = "no" /\ worker = IdleWorker /\ received = <<>>

WebhookNext ==
  \/ \E a \in Alerts : DispatchChecks(a) \/ DispatchQueues(a) \/ DispatchDrops(a)
  \/ WorkerTakes \/ PostArrives \/ PostEnds \/ WorkerExits
  \/ StopSets \/ StopCloses \/ StopReturns

WebhookSpec == WebhookInit /\ [][WebhookNext]_webhookVars

-----------------------------------------------------------------------------
(* Every variable has its type; the queue keeps its capacity. *)
WebhookTypeOK ==
  /\ caller \in [Alerts -> {"new", "checked", "done"}]
  /\ queue \in Seq(Alerts) /\ Len(queue) <= QueueSize
  /\ stopped \in BOOLEAN /\ stopChan \in BOOLEAN
  /\ stopper \in {"no", "flagged", "waiting", "returned"}
  /\ worker \in [pc : {"idle", "sending", "exited"},
                 alert : {<<>>} \cup {<<a>> : a \in Alerts}]
  /\ received \in Seq(Alerts)

(* The dispatcher implements AlertFeed: in order, at most once, nothing    *)
(* after Stop returned, whatever the callers, the receiver and Stop do     *)
(* meanwhile (Dispatch, worker, Stop).                                     *)
Feed == INSTANCE AlertFeed WITH
          pending <- worker.alert \o queue,
          closed <- stopper = "returned"
ImplementsAlertFeed == Feed!FeedSpec
==============================================================================
