----------------------------- MODULE ClusterSync -----------------------------
(***************************************************************************)
(* Configuration synchronization between the Coordinator and one Edge:     *)
(* clusterSyncPayload and SyncNode on the Coordinator, the receiver        *)
(* applyClusterSync on the Edge, HTTP between them, and the durable        *)
(* records both sides keep (cluster_settings, cluster_nodes).              *)
(*                                                                         *)
(* A configuration stands for repositories plus fragments, and for its     *)
(* fingerprint.  Requests sit in slots (Calls): the Coordinator can give   *)
(* up on one while the Edge still has it, so a request may be executed     *)
(* late, after newer ones, or after the Coordinator was rebuilt with a new *)
(* epoch.  Edges share no state, so one of them is enough.  The controller *)
(* inside both nodes is NginxController; here it is reduced to the desired,*)
(* active and last recorded configuration.                                 *)
(***************************************************************************)
EXTENDS Integers, FiniteSets

CONSTANTS
    Configs,     \* configurations, each with its own fingerprint
    Epochs,      \* random Coordinator epochs
    Calls,       \* slots for requests in progress
    None,
    InitConfig, InitEpoch,
    CoordMode,   \* upstream_nginx.mode of the Coordinator
    MaxGen,      \* bound on the Coordinator's configuration versions
    MaxFaults,   \* bound on failures, losses, crashes and early timeouts
    MaxChanges   \* bound on rebuilds, restarts, activations and local edits

ASSUME InitAssumption == InitConfig \in Configs /\ InitEpoch \in Epochs
ASSUME NoneAssumption == None \notin Configs \cup Epochs \cup Calls
ASSUME ModeAssumption == CoordMode \in {"managed", "disabled"}
ASSUME BoundAssumption ==
    MaxGen \in Nat \ {0} /\ MaxFaults \in Nat /\ MaxChanges \in Nat

VARIABLES
    \* Coordinator
    epoch,       \* coordinator_epoch_v2
    version,     \* Controller.status.CurrentConfigVersion
    recorded,    \* highest version in config_versions
    cActive,     \* Controller.active
    cNext,       \* configuration being activated, or None
    node,        \* cluster_nodes row of the Edge: what SyncNode last stored
    client,      \* SyncNode per slot: idle, config or wait
    sent,        \* payload per slot
    \* network
    request,     \* none, sent or running
    reply,       \* none, ok or error
    \* Edge, durable
    sync,        \* edge_sync_state_v2
    eDesired,    \* repository and fragment tables
    eLast,       \* snapshot of the config_versions row marked active
    \* Edge, in memory
    eActive,     \* Controller.active; None while the process is down
    hpc,         \* next step of the receiver
    hk,          \* slot it serves
    saved,       \* previous desired configuration
    \* auxiliary
    faults, changes,
    usedEpochs,  \* every epoch a Coordinator has had
    named,       \* versions the Coordinator activated, with configuration
    accepted,    \* every state the Edge has accepted
    applied,     \* every state the Edge has marked applied
    edited       \* yes: the Edge was edited locally since it last applied

coordinator == <<epoch, version, recorded, cActive, cNext>>
net    == <<client, sent, request, reply>>
tables == <<eDesired, eLast>>
edge   == <<eActive, hpc, hk, saved>>
hist   == <<usedEpochs, named, accepted, applied>>
vars   == <<coordinator, node, net, sync, tables, edge, faults, changes,
            hist, edited>>

Snapshot == [epoch : Epochs, gen : Nat, cfg : Configs]
NoSnapshot == [epoch |-> None, gen |-> 0, cfg |-> None]
SyncState ==
    [epoch : Epochs \cup {None}, gen : Nat, cfg : Configs \cup {None},
     status : {"none", "pending", "applied"}, retired : SUBSET Epochs]

TypeOK ==
    /\ epoch \in Epochs /\ version \in Nat /\ recorded \in Nat
    /\ cActive \in Configs /\ cNext \in Configs \cup {None}
    /\ node \in Snapshot \cup {NoSnapshot}
    /\ client \in [Calls -> {"idle", "config", "wait"}]
    /\ sent \in [Calls -> Snapshot \cup {NoSnapshot}]
    /\ request \in [Calls -> {"none", "sent", "running"}]
    /\ reply \in [Calls -> {"none", "ok", "error"}]
    /\ sync \in SyncState
    /\ eDesired \in Configs /\ eLast \in Configs
    /\ eActive \in Configs \cup {None}
    /\ hpc \in {"idle", "apply", "activate", "undo", "verify"}
    /\ hk \in Calls \cup {None} /\ saved \in Configs
    /\ faults \in Nat /\ changes \in Nat
    /\ usedEpochs \subseteq Epochs /\ named \subseteq Snapshot
    /\ accepted \subseteq Snapshot /\ applied \subseteq Snapshot
    /\ edited \in {"no", "yes"}

Fault == faults > 0 /\ faults' = faults - 1
Change == changes > 0 /\ changes' = changes - 1

-----------------------------------------------------------------------------
(* Coordinator: activation of a new version by reconcileLocked.  The       *)
(* version is published under one lock, the configuration under the next.  *)

Named(e, g, c) == [epoch |-> e, gen |-> IF g = 0 THEN 1 ELSE g, cfg |-> c]

SetStatus ==
    /\ cNext = None /\ recorded < MaxGen /\ Change
    /\ version' = recorded + 1 /\ recorded' = recorded + 1
    /\ cNext' \in Configs
    /\ named' = named \cup {Named(epoch, version', cNext')}
    /\ UNCHANGED <<epoch, cActive, node, net, sync, tables, edge, faults,
                   usedEpochs, accepted, applied, edited>>

SetActiveConfiguration ==
    /\ cNext # None
    /\ cActive' = cNext /\ cNext' = None
    /\ UNCHANGED <<epoch, version, recorded, node, net, sync, tables, edge,
                   faults, changes, hist, edited>>

\* The process restarts: requests in progress lose their client.  The
\* start-up reconcile activates the desired configuration as a new version;
\* in disabled mode there is none, and the version in memory stays 0.
CoordinatorRestart ==
    /\ recorded < MaxGen /\ Change
    /\ recorded' = IF CoordMode = "managed" THEN recorded + 1 ELSE recorded
    /\ version' = IF CoordMode = "managed" THEN recorded + 1 ELSE 0
    /\ cActive' \in Configs /\ cNext' = None
    /\ named' = named \cup {Named(epoch, version', cActive')}
    /\ client' = [k \in Calls |-> "idle"]
    /\ reply' = [k \in Calls |-> "none"]
    /\ UNCHANGED <<epoch, node, sent, request, sync, tables, edge, faults,
                   usedEpochs, accepted, applied, edited>>

\* EnsureCoordinatorEpoch on an empty database: the Coordinator was rebuilt.
EnsureCoordinatorEpoch ==
    /\ Change
    /\ epoch' \in Epochs \ usedEpochs
    /\ usedEpochs' = usedEpochs \cup {epoch'}
    /\ version' = IF CoordMode = "managed" THEN 1 ELSE 0
    /\ recorded' = version'
    /\ cActive' \in Configs /\ cNext' = None
    /\ named' = named \cup {Named(epoch', version', cActive')}
    /\ node' = NoSnapshot
    /\ client' = [k \in Calls |-> "idle"]
    /\ reply' = [k \in Calls |-> "none"]
    /\ UNCHANGED <<sent, request, sync, tables, edge, faults, accepted,
                   applied, edited>>

-----------------------------------------------------------------------------
(* Coordinator: one synchronization call.                                  *)

\* clusterSyncPayload reads the active configuration; mutationMu admits one
\* operator request at a time ...
SyncPayload(k) ==
    /\ request[k] = "none" /\ \A j \in Calls : client[j] = "idle"
    /\ client' = [client EXCEPT ![k] = "config"]
    /\ sent' = [sent EXCEPT ![k] =
                  [epoch |-> epoch, gen |-> 0, cfg |-> cActive]]
    /\ UNCHANGED <<coordinator, node, request, reply, sync, tables, edge,
                   faults, changes, hist, edited>>

\* ... then the version, and SyncNode posts the payload.
SyncNode(k) ==
    /\ client[k] = "config"
    /\ client' = [client EXCEPT ![k] = "wait"]
    /\ sent' = [sent EXCEPT ![k].gen = IF version = 0 THEN 1 ELSE version]
    /\ request' = [request EXCEPT ![k] = "sent"]
    /\ UNCHANGED <<coordinator, node, reply, sync, tables, edge, faults,
                   changes, hist, edited>>

\* The acknowledgement repeats the payload's manifest; SyncNode stores it.
SyncAcknowledged(k) ==
    /\ client[k] = "wait" /\ reply[k] = "ok"
    /\ client' = [client EXCEPT ![k] = "idle"]
    /\ reply' = [reply EXCEPT ![k] = "none"]
    /\ \/ node' = sent[k] /\ UNCHANGED faults
       \/ Fault /\ UNCHANGED node
    /\ UNCHANGED <<coordinator, sent, request, sync, tables, edge, changes,
                   hist, edited>>

SyncFailed(k) ==
    /\ client[k] = "wait" /\ reply[k] = "error"
    /\ client' = [client EXCEPT ![k] = "idle"]
    /\ reply' = [reply EXCEPT ![k] = "none"]
    /\ UNCHANGED <<coordinator, node, sent, request, sync, tables, edge,
                   faults, changes, hist, edited>>

\* The 10 second client timeout, early or because no answer will come.
SyncTimeout(k) ==
    /\ client[k] = "wait"
    /\ \/ request[k] # "none" /\ Fault
       \/ request[k] = "none" /\ reply[k] = "none" /\ UNCHANGED faults
    /\ client' = [client EXCEPT ![k] = "idle"]
    /\ UNCHANGED <<coordinator, node, sent, request, reply, sync, tables,
                   edge, changes, hist, edited>>

\* The connection breaks and takes the request or the reply with it.
Lose(k) ==
    /\ Fault
    /\ \/ /\ request[k] = "sent"
          /\ request' = [request EXCEPT ![k] = "none"] /\ UNCHANGED reply
       \/ /\ reply[k] # "none"
          /\ reply' = [reply EXCEPT ![k] = "none"] /\ UNCHANGED request
    /\ UNCHANGED <<coordinator, node, client, sent, sync, tables, edge,
                   changes, hist, edited>>

-----------------------------------------------------------------------------
(* Edge: the receiver.  mutationMu serves one request at a time.  Once the *)
(* client is gone the request context may be done, and a step that uses it *)
(* may fail at no cost.                                                    *)

CtxError(k) == \/ client[k] # "wait" /\ UNCHANGED faults
               \/ Fault

Answer(k, result) ==
    /\ request' = [request EXCEPT ![k] = "none"]
    /\ reply' = [reply EXCEPT ![k] =
                   IF client[k] = "wait" THEN result ELSE "none"]

Found == sync.status # "none"
SameEpoch(p) == Found /\ sync.epoch = p.epoch

\* Mutants of Stale: no fingerprint comparison for the same generation, and
\* the accepted generation itself refused.
Stale_NoConflict(p) ==
    \/ SameEpoch(p) /\ p.gen < sync.gen
    \/ Found /\ sync.epoch # p.epoch /\ p.epoch \in sync.retired

Stale_NoRetry(p) ==
    \/ SameEpoch(p) /\ p.gen <= sync.gen
    \/ Found /\ sync.epoch # p.epoch /\ p.epoch \in sync.retired

\* The checks of applyClusterSync against the accepted state.
Stale(p) ==
    \/ SameEpoch(p) /\ p.gen < sync.gen
    \/ SameEpoch(p) /\ p.gen = sync.gen /\ p.cfg # sync.cfg
    \/ Found /\ sync.epoch # p.epoch /\ p.epoch \in sync.retired

AlreadyApplied(p) ==
    /\ SameEpoch(p) /\ sync.gen = p.gen /\ sync.cfg = p.cfg
    /\ sync.status = "applied" /\ eActive = p.cfg

\* Mutant of RetiredBy: only the last epoch is kept.
RetiredBy_LastOnly(p) ==
    IF Found /\ sync.epoch # p.epoch THEN {sync.epoch} ELSE sync.retired

RetiredBy(p) ==
    IF Found /\ sync.epoch # p.epoch
      THEN sync.retired \cup {sync.epoch} ELSE sync.retired

\* Mutant of PutEdgeSyncState: applied is persisted before activation.
PutEdgeSyncState_Early(p, status) ==
    sync' = [epoch |-> p.epoch, gen |-> p.gen, cfg |-> p.cfg,
             status |-> "applied", retired |-> RetiredBy(p)]

PutEdgeSyncState(p, status) ==
    sync' = [epoch |-> p.epoch, gen |-> p.gen, cfg |-> p.cfg,
             status |-> status, retired |-> RetiredBy(p)]

Receiving(k) == eActive # None /\ hpc = "idle" /\ request[k] = "sent"

RejectSync(k) ==
    /\ Receiving(k)
    /\ \/ Stale(sent[k]) /\ UNCHANGED faults
       \/ CtxError(k)
    /\ Answer(k, "error")
    /\ UNCHANGED <<coordinator, node, client, sent, sync, tables, edge,
                   changes, hist, edited>>

ReplaySync(k) ==
    /\ Receiving(k)
    /\ ~Stale(sent[k]) /\ AlreadyApplied(sent[k])
    /\ Answer(k, "ok")
    /\ UNCHANGED <<coordinator, node, client, sent, sync, tables, edge,
                   faults, changes, hist, edited>>

AcceptSync(k) ==
    /\ Receiving(k)
    /\ ~Stale(sent[k]) /\ ~AlreadyApplied(sent[k])
    /\ PutEdgeSyncState(sent[k], "pending")
    /\ accepted' = accepted \cup {sent[k]}
    /\ request' = [request EXCEPT ![k] = "running"]
    /\ hpc' = "apply" /\ hk' = k
    /\ UNCHANGED <<coordinator, node, client, sent, reply, tables, eActive,
                   saved, faults, changes, usedEpochs, named, applied, edited>>

\* ApplyConfiguration: validate and replace the tables ...
ReplaceConfiguration ==
    /\ hpc = "apply"
    /\ \/ /\ saved' = eDesired /\ eDesired' = sent[hk].cfg
          /\ hpc' = "activate" /\ UNCHANGED <<hk, request, reply, faults>>
       \/ /\ CtxError(hk) /\ Answer(hk, "error")
          /\ hpc' = "idle" /\ hk' = None /\ UNCHANGED <<saved, eDesired>>
    /\ UNCHANGED <<coordinator, node, client, sent, sync, eLast, eActive,
                   changes, hist, edited>>

\* ... publish, reload and record ...
Activate ==
    /\ hpc = "activate"
    /\ \/ /\ eActive' = sent[hk].cfg /\ eLast' = sent[hk].cfg
          /\ hpc' = "verify" /\ UNCHANGED faults
       \/ CtxError(hk) /\ hpc' = "undo" /\ UNCHANGED <<eActive, eLast>>
    /\ UNCHANGED <<coordinator, node, net, sync, eDesired, hk, saved, changes,
                   hist, edited>>

\* ... or put the tables back, with the same context.
UndoReplace ==
    /\ hpc = "undo"
    /\ \/ eDesired' = saved /\ UNCHANGED faults
       \/ CtxError(hk) /\ UNCHANGED eDesired
    /\ Answer(hk, "error") /\ hpc' = "idle" /\ hk' = None
    /\ UNCHANGED <<coordinator, node, client, sent, sync, eLast, eActive,
                   saved, changes, hist, edited>>

\* Mutant of CommitSync: a failure to persist "applied" is acknowledged.
CommitSync_AckAnyway ==
    /\ hpc = "verify"
    /\ \/ /\ sync' = [sync EXCEPT !.status = "applied"]
          /\ applied' = applied \cup {sent[hk]} /\ edited' = "no"
          /\ UNCHANGED faults
       \/ CtxError(hk) /\ UNCHANGED <<sync, applied, edited>>
    /\ Answer(hk, "ok") /\ hpc' = "idle" /\ hk' = None
    /\ UNCHANGED <<coordinator, node, client, sent, tables, eActive, saved,
                   changes, usedEpochs, named, accepted>>

\* Compare the fingerprint now active, persist "applied", acknowledge.
CommitSync ==
    /\ hpc = "verify"
    /\ \/ /\ eActive = sent[hk].cfg
          /\ sync' = [sync EXCEPT !.status = "applied"]
          /\ applied' = applied \cup {sent[hk]} /\ edited' = "no"
          /\ Answer(hk, "ok") /\ UNCHANGED faults
       \/ /\ IF eActive = sent[hk].cfg THEN CtxError(hk) ELSE UNCHANGED faults
          /\ Answer(hk, "error")
          /\ UNCHANGED <<sync, applied, edited>>
    /\ hpc' = "idle" /\ hk' = None
    /\ UNCHANGED <<coordinator, node, client, sent, tables, eActive, saved,
                   changes, usedEpochs, named, accepted>>

-----------------------------------------------------------------------------
(* Edge: everything else that moves its configuration.                     *)

\* A scheduled refresh reconciles the tables while applyMu is free.
EdgeRefresh ==
    /\ eActive # None /\ hpc \in {"idle", "apply", "verify"}
    /\ eActive # eDesired
    /\ eActive' = eDesired /\ eLast' = eDesired
    /\ UNCHANGED <<coordinator, node, net, sync, eDesired, hpc, hk, saved,
                   faults, changes, hist, edited>>

\* An administrator edits the Edge itself; the reload may fail.
EdgeLocalEdit ==
    /\ eActive # None /\ hpc = "idle" /\ Change
    /\ eDesired' \in Configs /\ edited' = "yes"
    /\ \/ eActive' = eDesired' /\ eLast' = eDesired' /\ UNCHANGED faults
       \/ Fault /\ UNCHANGED <<eActive, eLast>>
    /\ UNCHANGED <<coordinator, node, net, sync, hpc, hk, saved, hist>>

EdgeCrash ==
    /\ eActive # None /\ Fault
    /\ eActive' = None /\ hpc' = "idle" /\ hk' = None
    /\ request' = [k \in Calls |->
                     IF request[k] = "running" THEN "none" ELSE request[k]]
    /\ UNCHANGED <<coordinator, node, client, sent, reply, sync, tables,
                   saved, changes, hist, edited>>

\* Start: reconcile the tables, or fall back to the last active version.
EdgeStart ==
    /\ eActive = None
    /\ \/ eActive' = eDesired /\ eLast' = eDesired /\ UNCHANGED faults
       \/ Fault /\ eActive' = eLast /\ UNCHANGED eLast
    /\ UNCHANGED <<coordinator, node, net, sync, eDesired, hpc, hk, saved,
                   changes, hist, edited>>

-----------------------------------------------------------------------------
Init ==
    /\ epoch = InitEpoch
    /\ version = IF CoordMode = "managed" THEN 1 ELSE 0
    /\ recorded = version
    /\ cActive \in Configs /\ cNext = None
    /\ node = NoSnapshot
    /\ client = [k \in Calls |-> "idle"]
    /\ sent = [k \in Calls |-> NoSnapshot]
    /\ request = [k \in Calls |-> "none"]
    /\ reply = [k \in Calls |-> "none"]
    /\ sync = [epoch |-> None, gen |-> 0, cfg |-> None, status |-> "none",
               retired |-> {}]
    /\ eDesired = InitConfig /\ eLast = InitConfig /\ eActive = InitConfig
    /\ hpc = "idle" /\ hk = None /\ saved = InitConfig
    /\ faults = MaxFaults /\ changes = MaxChanges
    /\ usedEpochs = {InitEpoch}
    /\ named = {Named(InitEpoch, version, cActive)}
    /\ accepted = {} /\ applied = {} /\ edited = "no"

ReceiverStep ==
    \/ ReplaceConfiguration \/ Activate \/ UndoReplace \/ CommitSync
    \/ \E k \in Calls : RejectSync(k) \/ ReplaySync(k) \/ AcceptSync(k)

ClientStep(k) ==
    SyncNode(k) \/ SyncAcknowledged(k) \/ SyncFailed(k) \/ SyncTimeout(k)

Next ==
    \/ SetStatus \/ SetActiveConfiguration
    \/ CoordinatorRestart \/ EnsureCoordinatorEpoch
    \/ \E k \in Calls : SyncPayload(k) \/ ClientStep(k) \/ Lose(k)
    \/ ReceiverStep
    \/ EdgeRefresh \/ EdgeLocalEdit \/ EdgeCrash \/ EdgeStart

Spec == Init /\ [][Next]_vars

-----------------------------------------------------------------------------
(* Properties                                                              *)

\* What applyClusterSync calls applied is what the Edge runs and what its
\* tables hold, through failed and abandoned later attempts, refreshes,
\* crashes and the recovery of the last active version, until somebody edits
\* the Edge itself.
AppliedIsActive ==
    (sync.status = "applied" /\ edited = "no")
        => eDesired = sync.cfg /\ eActive \in {sync.cfg, None}

\* The durable state is the newest the Edge ever accepted of its epoch, and
\* every other epoch it ever accepted is retired: a request delayed across
\* timeouts, crashes and epoch changes cannot take the Edge back.
ReplayDefense ==
    \A a \in accepted :
        \/ a.epoch = sync.epoch /\ a.gen <= sync.gen
        \/ a.epoch # sync.epoch /\ a.epoch \in sync.retired

\* One generation of an epoch never gives the Edge two configurations.
AcceptedOnce ==
    \A a, b \in accepted : a.epoch = b.epoch /\ a.gen = b.gen => a = b

\* A node row stored by SyncNode names a snapshot of the Coordinator's own
\* epoch that the Edge had activated and durably marked applied, whatever
\* timed out, was answered late or crashed in between.
AckWasApplied == node # NoSnapshot => node \in applied /\ node.epoch = epoch

\* The generation SyncNode sends is never behind what the Edge accepted from
\* the Coordinator's epoch, so the next payload is not refused as stale
\* (docs/distributed.md: Edges verify a "monotonic generation").  It holds
\* when every start records a version; in disabled mode it does not.
GenerationMonotonic ==
    Found /\ sync.epoch = epoch
        => sync.gen <= IF version = 0 THEN 1 ELSE version

-----------------------------------------------------------------------------
(* The inductive invariant behind the properties, by theme.                *)

Accepted == [epoch |-> sync.epoch, gen |-> sync.gen, cfg |-> sync.cfg]

\* Slots: who waits, what is on the wire, whom the receiver serves.
SlotInv ==
    /\ hpc = "idle" <=> hk = None
    /\ eActive = None => hpc = "idle"
    /\ Found <=> sync.epoch # None
    /\ hpc # "idle" => Found
    /\ \A k \in Calls :
          /\ request[k] = "running" <=> k = hk
          /\ request[k] # "none" => client[k] # "config"
          /\ reply[k] # "none" => client[k] = "wait" /\ request[k] = "none"
          /\ client[k] # "idle" => sent[k] \in Snapshot /\ sent[k].epoch = epoch
          /\ request[k] # "none" => sent[k] \in Snapshot

\* Any request in progress is the accepted state, still pending, and the
\* tables and the active configuration are as far as the receiver got.
ReceiverInv ==
    /\ hpc # "idle" => Accepted = sent[hk] /\ sync.status = "pending"
    /\ hpc \in {"activate", "verify"} => eDesired = sent[hk].cfg
    /\ hpc = "verify" => eActive = sent[hk].cfg /\ eLast = sent[hk].cfg
    /\ sync.status = "applied" /\ edited = "no"
          => /\ eDesired = sync.cfg /\ eLast = sync.cfg
             /\ eActive \in {sync.cfg, None}

ReplayInv ==
    /\ ReplayDefense
    /\ AcceptedOnce
    /\ Found => Accepted \in accepted
    /\ ~Found => accepted = {} /\ sync.retired = {}
    /\ sync.epoch \notin sync.retired

AckInv ==
    /\ AckWasApplied
    /\ sync.status = "applied" => Accepted \in applied
    /\ \A k \in Calls : reply[k] = "ok" => sent[k] \in applied

\* Nothing of the current epoch is ahead of the Coordinator's version, and
\* whatever is about names an epoch that has been used.
GenerationInv ==
    /\ version = recorded /\ version > 0
    /\ epoch \in usedEpochs
    /\ sync.epoch # None => sync.epoch \in usedEpochs
    /\ sync.epoch = epoch => sync.gen <= version
    /\ \A k \in Calls : request[k] # "none" =>
          /\ sent[k].epoch \in usedEpochs
          /\ sent[k].epoch = epoch => sent[k].gen <= version

-----------------------------------------------------------------------------
(* Liveness                                                                *)

\* Everything a node does by itself goes on: clients, receiver, refresh,
\* restart.  Starting a synchronization is left to the operator.
Fairness ==
    /\ \A k \in Calls : WF_vars(ClientStep(k))
    /\ WF_vars(SetActiveConfiguration)
    /\ WF_vars(ReceiverStep) /\ WF_vars(EdgeStart) /\ WF_vars(EdgeRefresh)

FairSpec == Spec /\ Fairness

InSync == /\ sync.status = "applied" /\ sync.epoch = epoch
          /\ sync.gen = version /\ eActive = cActive

\* If the operator keeps asking, the Edge reaches the Coordinator's version,
\* however many attempts failed half way, timed out or crashed the Edge.
RetriesSucceed == ([]<>\E k \in Calls : client[k] = "config") => <>[]InSync

-----------------------------------------------------------------------------
(* Statements of the repository that the code does not meet.               *)

\* sync.go: "SyncNode pushes one complete, active configuration snapshot".
\* A request on the wire names a configuration by the version it had.
SendsActiveSnapshot ==
    \A k \in Calls : request[k] = "sent" => sent[k] \in named

\* docs/distributed.md: "retired epochs are rejected".  The epoch the
\* Coordinator uses is then never among the ones the Edge has retired.
CurrentEpochNotRetired == epoch \notin sync.retired

=============================================================================
