-------------------------- MODULE ClusterSyncProofs --------------------------
(***************************************************************************)
(* Proofs of the properties of ClusterSync for every set of                *)
(* configurations, epochs and request slots and all bounds.  The inductive *)
(* invariant is proved part by part: types and slots, then the receiver,   *)
(* and from these the replay defence, the acknowledgements and the         *)
(* generations.                                                            *)
(***************************************************************************)
EXTENDS ClusterSync, TLAPS

USE InitAssumption, NoneAssumption, ModeAssumption, BoundAssumption
USE DEF coordinator, net, tables, edge, hist, Fault, Change, CtxError, Answer,
        Receiving

Base == TypeOK /\ SlotInv

\* Types, and who may be where: a slot's request is running exactly when the
\* receiver serves it, and an answer waits only for a client that waits.
THEOREM BaseCorrect == Spec => []Base
<1>1. Init => Base
  BY DEF Init, Base, TypeOK, SlotInv, Snapshot, NoSnapshot, SyncState, Named,
    PutEdgeSyncState, RetiredBy, Found, Accepted, Found, Snapshot, NoSnapshot,
      SyncState, Named
<1>2. Base /\ [Next]_vars => Base'
  <2>. SUFFICES ASSUME Base, [Next]_vars PROVE Base'
    OBVIOUS
  <2>. USE DEF Base, TypeOK, SlotInv, Snapshot, NoSnapshot, SyncState, Named,
    PutEdgeSyncState, RetiredBy, Found
  <2>1. CASE SetStatus
    BY <2>1 DEF SetStatus
  <2>2. CASE SetActiveConfiguration
    BY <2>2 DEF SetActiveConfiguration
  <2>3. CASE CoordinatorRestart
    BY <2>3 DEF CoordinatorRestart
  <2>4. CASE EnsureCoordinatorEpoch
    BY <2>4 DEF EnsureCoordinatorEpoch
  <2>5. CASE ReplaceConfiguration
    BY <2>5 DEF ReplaceConfiguration
  <2>6. CASE Activate
    BY <2>6 DEF Activate
  <2>7. CASE UndoReplace
    BY <2>7 DEF UndoReplace
  <2>8. CASE CommitSync
    BY <2>8 DEF CommitSync
  <2>9. CASE EdgeRefresh
    BY <2>9 DEF EdgeRefresh
  <2>10. CASE EdgeLocalEdit
    BY <2>10 DEF EdgeLocalEdit
  <2>11. CASE EdgeCrash
    BY <2>11 DEF EdgeCrash
  <2>12. CASE EdgeStart
    BY <2>12 DEF EdgeStart
  <2>13. ASSUME NEW k \in Calls, SyncPayload(k) PROVE Base'
    BY <2>13 DEF SyncPayload
  <2>14. ASSUME NEW k \in Calls, SyncNode(k) PROVE Base'
    BY <2>14 DEF SyncNode
  <2>15. ASSUME NEW k \in Calls, SyncAcknowledged(k) PROVE Base'
    BY <2>15 DEF SyncAcknowledged
  <2>16. ASSUME NEW k \in Calls, SyncFailed(k) PROVE Base'
    BY <2>16 DEF SyncFailed
  <2>17. ASSUME NEW k \in Calls, SyncTimeout(k) PROVE Base'
    BY <2>17 DEF SyncTimeout
  <2>18. ASSUME NEW k \in Calls, Lose(k) PROVE Base'
    BY <2>18 DEF Lose
  <2>19. ASSUME NEW k \in Calls, RejectSync(k) PROVE Base'
    BY <2>19 DEF RejectSync
  <2>20. ASSUME NEW k \in Calls, ReplaySync(k) PROVE Base'
    BY <2>20 DEF ReplaySync
  <2>21. ASSUME NEW k \in Calls, AcceptSync(k) PROVE Base'
    BY <2>21 DEF AcceptSync
  <2>22. CASE UNCHANGED vars
    BY <2>22 DEF vars, hist
  <2>. QED
    BY <2>1, <2>2, <2>3, <2>4, <2>5, <2>6, <2>7, <2>8, <2>9, <2>10,
       <2>11, <2>12, <2>13, <2>14, <2>15, <2>16, <2>17, <2>18, <2>19,
       <2>20, <2>21, <2>22
    DEF Next, ReceiverStep, ClientStep
<1>. QED
  BY <1>1, <1>2, PTL DEF Spec

\* Every variable keeps its type.
THEOREM TypeCorrect == Spec => []TypeOK
BY BaseCorrect, PTL DEF Base

\* The receiver's request is the accepted, still pending state, and an
\* applied state is what the tables, the last active version and memory hold.
THEOREM ReceiverCorrect == Spec => []ReceiverInv
<1>1. Init => ReceiverInv
  BY DEF Init, ReceiverInv, Accepted, PutEdgeSyncState, Accepted, Found,
    Snapshot, NoSnapshot, SyncState, Named
<1>2. Base /\ ReceiverInv /\ [Next]_vars => ReceiverInv'
  <2>. SUFFICES ASSUME Base, ReceiverInv, [Next]_vars PROVE ReceiverInv'
    OBVIOUS
  <2>. USE DEF ReceiverInv, Accepted, PutEdgeSyncState, Base, TypeOK, SlotInv,
    Snapshot, NoSnapshot, SyncState, Found
  <2>1. CASE SetStatus
    BY <2>1 DEF SetStatus
  <2>2. CASE SetActiveConfiguration
    BY <2>2 DEF SetActiveConfiguration
  <2>3. CASE CoordinatorRestart
    BY <2>3 DEF CoordinatorRestart
  <2>4. CASE EnsureCoordinatorEpoch
    BY <2>4 DEF EnsureCoordinatorEpoch
  <2>5. CASE ReplaceConfiguration
    BY <2>5 DEF ReplaceConfiguration
  <2>6. CASE Activate
    BY <2>6 DEF Activate
  <2>7. CASE UndoReplace
    BY <2>7 DEF UndoReplace
  <2>8. CASE CommitSync
    BY <2>8 DEF CommitSync
  <2>9. CASE EdgeRefresh
    BY <2>9 DEF EdgeRefresh
  <2>10. CASE EdgeLocalEdit
    BY <2>10 DEF EdgeLocalEdit
  <2>11. CASE EdgeCrash
    BY <2>11 DEF EdgeCrash
  <2>12. CASE EdgeStart
    BY <2>12 DEF EdgeStart
  <2>13. ASSUME NEW k \in Calls, SyncPayload(k) PROVE ReceiverInv'
    BY <2>13 DEF SyncPayload
  <2>14. ASSUME NEW k \in Calls, SyncNode(k) PROVE ReceiverInv'
    BY <2>14 DEF SyncNode
  <2>15. ASSUME NEW k \in Calls, SyncAcknowledged(k) PROVE ReceiverInv'
    BY <2>15 DEF SyncAcknowledged
  <2>16. ASSUME NEW k \in Calls, SyncFailed(k) PROVE ReceiverInv'
    BY <2>16 DEF SyncFailed
  <2>17. ASSUME NEW k \in Calls, SyncTimeout(k) PROVE ReceiverInv'
    BY <2>17 DEF SyncTimeout
  <2>18. ASSUME NEW k \in Calls, Lose(k) PROVE ReceiverInv'
    BY <2>18 DEF Lose
  <2>19. ASSUME NEW k \in Calls, RejectSync(k) PROVE ReceiverInv'
    BY <2>19 DEF RejectSync
  <2>20. ASSUME NEW k \in Calls, ReplaySync(k) PROVE ReceiverInv'
    BY <2>20 DEF ReplaySync
  <2>21. ASSUME NEW k \in Calls, AcceptSync(k) PROVE ReceiverInv'
    BY <2>21 DEF AcceptSync
  <2>22. CASE UNCHANGED vars
    BY <2>22 DEF vars, hist
  <2>. QED
    BY <2>1, <2>2, <2>3, <2>4, <2>5, <2>6, <2>7, <2>8, <2>9, <2>10,
       <2>11, <2>12, <2>13, <2>14, <2>15, <2>16, <2>17, <2>18, <2>19,
       <2>20, <2>21, <2>22
    DEF Next, ReceiverStep, ClientStep
<1>. QED
  BY <1>1, <1>2, BaseCorrect, PTL DEF Spec

\* applyClusterSync's applied state is what the Edge runs (AppliedIsActive),
\* for every interleaving of failures, refreshes, crashes and restarts.
THEOREM AppliedIsActiveHolds == Spec => []AppliedIsActive
<1>1. ReceiverInv => AppliedIsActive
  BY DEF ReceiverInv, AppliedIsActive
<1>. QED
  BY <1>1, ReceiverCorrect, PTL

\* The accepted state is the newest of its epoch and all others are retired.
THEOREM ReplayCorrect == Spec => []ReplayInv
<1>1. Init => ReplayInv
  BY DEF Init, ReplayInv, ReplayDefense, AcceptedOnce, Accepted, Accepted,
    Found, Snapshot, NoSnapshot, SyncState, Named
<1>2. Base /\ ReceiverInv /\ ReplayInv /\ [Next]_vars => ReplayInv'
  <2>. SUFFICES ASSUME Base, ReceiverInv, ReplayInv, [Next]_vars PROVE
    ReplayInv'
    OBVIOUS
  <2>. USE DEF ReplayInv, ReplayDefense, AcceptedOnce, Accepted, Base, TypeOK,
    SlotInv, Snapshot, NoSnapshot, SyncState, Found, ReceiverInv
  <2>1. CASE SetStatus
    BY <2>1 DEF SetStatus
  <2>2. CASE SetActiveConfiguration
    BY <2>2 DEF SetActiveConfiguration
  <2>3. CASE CoordinatorRestart
    BY <2>3 DEF CoordinatorRestart
  <2>4. CASE EnsureCoordinatorEpoch
    BY <2>4 DEF EnsureCoordinatorEpoch
  <2>5. CASE ReplaceConfiguration
    BY <2>5 DEF ReplaceConfiguration
  <2>6. CASE Activate
    BY <2>6 DEF Activate
  <2>7. CASE UndoReplace
    BY <2>7 DEF UndoReplace
  <2>8. CASE CommitSync
    BY <2>8 DEF CommitSync
  <2>9. CASE EdgeRefresh
    BY <2>9 DEF EdgeRefresh
  <2>10. CASE EdgeLocalEdit
    BY <2>10 DEF EdgeLocalEdit
  <2>11. CASE EdgeCrash
    BY <2>11 DEF EdgeCrash
  <2>12. CASE EdgeStart
    BY <2>12 DEF EdgeStart
  <2>13. ASSUME NEW k \in Calls, SyncPayload(k) PROVE ReplayInv'
    BY <2>13 DEF SyncPayload
  <2>14. ASSUME NEW k \in Calls, SyncNode(k) PROVE ReplayInv'
    BY <2>14 DEF SyncNode
  <2>15. ASSUME NEW k \in Calls, SyncAcknowledged(k) PROVE ReplayInv'
    BY <2>15 DEF SyncAcknowledged
  <2>16. ASSUME NEW k \in Calls, SyncFailed(k) PROVE ReplayInv'
    BY <2>16 DEF SyncFailed
  <2>17. ASSUME NEW k \in Calls, SyncTimeout(k) PROVE ReplayInv'
    BY <2>17 DEF SyncTimeout
  <2>18. ASSUME NEW k \in Calls, Lose(k) PROVE ReplayInv'
    BY <2>18 DEF Lose
  <2>19. ASSUME NEW k \in Calls, RejectSync(k) PROVE ReplayInv'
    BY <2>19 DEF RejectSync
  <2>20. ASSUME NEW k \in Calls, ReplaySync(k) PROVE ReplayInv'
    BY <2>20 DEF ReplaySync
  <2>21. ASSUME NEW k \in Calls, AcceptSync(k) PROVE ReplayInv'
    <3>. DEFINE p == sent[k]
    <3>1. p \in Snapshot /\ accepted' = accepted \cup {p}
      BY <2>21 DEF AcceptSync
    <3>2. /\ sync'.epoch = p.epoch /\ sync'.gen = p.gen /\ sync'.cfg = p.cfg
          /\ sync'.status = "pending" /\ sync'.retired = RetiredBy(p)
      BY <2>21 DEF AcceptSync, PutEdgeSyncState
    <3>3. ~Stale(p)
      BY <2>21 DEF AcceptSync
    <3>4. ReplayDefense'
      BY <3>1, <3>2, <3>3 DEF Stale, SameEpoch, RetiredBy
    <3>5. \A a \in accepted : a.epoch = p.epoch /\ a.gen = p.gen => a = p
      BY <3>1, <3>3 DEF Stale, SameEpoch
    <3>6. AcceptedOnce'
      BY <3>1, <3>5
    <3>7. sync'.epoch \notin sync'.retired
      BY <3>1, <3>2, <3>3 DEF Stale, RetiredBy
    <3>8. Accepted' = p /\ Found'
      BY <3>1, <3>2
    <3>. QED
      BY <3>1, <3>2, <3>4, <3>6, <3>7, <3>8
  <2>22. CASE UNCHANGED vars
    BY <2>22 DEF vars, hist
  <2>. QED
    BY <2>1, <2>2, <2>3, <2>4, <2>5, <2>6, <2>7, <2>8, <2>9, <2>10,
       <2>11, <2>12, <2>13, <2>14, <2>15, <2>16, <2>17, <2>18, <2>19,
       <2>20, <2>21, <2>22
    DEF Next, ReceiverStep, ClientStep
<1>. QED
  BY <1>1, <1>2, BaseCorrect, ReceiverCorrect, PTL DEF Spec

\* A delayed or repeated request never takes the Edge back (ReplayDefense).
THEOREM ReplayDefenseHolds == Spec => []ReplayDefense
<1>1. ReplayInv => ReplayDefense
  BY DEF ReplayInv
<1>. QED
  BY <1>1, ReplayCorrect, PTL

\* A generation of an epoch is accepted with one configuration only.
THEOREM AcceptedOnceHolds == Spec => []AcceptedOnce
<1>1. ReplayInv => AcceptedOnce
  BY DEF ReplayInv
<1>. QED
  BY <1>1, ReplayCorrect, PTL

\* An "ok" on its way, and a stored node row, name an applied state.
THEOREM AckCorrect == Spec => []AckInv
<1>1. Init => AckInv
  BY DEF Init, AckInv, AckWasApplied, Accepted, PutEdgeSyncState,
    AlreadyApplied, SameEpoch, Accepted, Found, Snapshot, NoSnapshot,
      SyncState, Named
<1>2. Base /\ ReceiverInv /\ AckInv /\ [Next]_vars => AckInv'
  <2>. SUFFICES ASSUME Base, ReceiverInv, AckInv, [Next]_vars PROVE AckInv'
    OBVIOUS
  <2>. USE DEF AckInv, AckWasApplied, Accepted, PutEdgeSyncState,
    AlreadyApplied, SameEpoch, Base, TypeOK, SlotInv, Snapshot, NoSnapshot,
      SyncState, Found, ReceiverInv
  <2>1. CASE SetStatus
    BY <2>1 DEF SetStatus
  <2>2. CASE SetActiveConfiguration
    BY <2>2 DEF SetActiveConfiguration
  <2>3. CASE CoordinatorRestart
    BY <2>3 DEF CoordinatorRestart
  <2>4. CASE EnsureCoordinatorEpoch
    BY <2>4 DEF EnsureCoordinatorEpoch
  <2>5. CASE ReplaceConfiguration
    BY <2>5 DEF ReplaceConfiguration
  <2>6. CASE Activate
    BY <2>6 DEF Activate
  <2>7. CASE UndoReplace
    BY <2>7 DEF UndoReplace
  <2>8. CASE CommitSync
    BY <2>8 DEF CommitSync
  <2>9. CASE EdgeRefresh
    BY <2>9 DEF EdgeRefresh
  <2>10. CASE EdgeLocalEdit
    BY <2>10 DEF EdgeLocalEdit
  <2>11. CASE EdgeCrash
    BY <2>11 DEF EdgeCrash
  <2>12. CASE EdgeStart
    BY <2>12 DEF EdgeStart
  <2>13. ASSUME NEW k \in Calls, SyncPayload(k) PROVE AckInv'
    BY <2>13 DEF SyncPayload
  <2>14. ASSUME NEW k \in Calls, SyncNode(k) PROVE AckInv'
    BY <2>14 DEF SyncNode
  <2>15. ASSUME NEW k \in Calls, SyncAcknowledged(k) PROVE AckInv'
    BY <2>15 DEF SyncAcknowledged
  <2>16. ASSUME NEW k \in Calls, SyncFailed(k) PROVE AckInv'
    BY <2>16 DEF SyncFailed
  <2>17. ASSUME NEW k \in Calls, SyncTimeout(k) PROVE AckInv'
    BY <2>17 DEF SyncTimeout
  <2>18. ASSUME NEW k \in Calls, Lose(k) PROVE AckInv'
    BY <2>18 DEF Lose
  <2>19. ASSUME NEW k \in Calls, RejectSync(k) PROVE AckInv'
    BY <2>19 DEF RejectSync
  <2>20. ASSUME NEW k \in Calls, ReplaySync(k) PROVE AckInv'
    BY <2>20 DEF ReplaySync
  <2>21. ASSUME NEW k \in Calls, AcceptSync(k) PROVE AckInv'
    BY <2>21 DEF AcceptSync
  <2>22. CASE UNCHANGED vars
    BY <2>22 DEF vars, hist
  <2>. QED
    BY <2>1, <2>2, <2>3, <2>4, <2>5, <2>6, <2>7, <2>8, <2>9, <2>10,
       <2>11, <2>12, <2>13, <2>14, <2>15, <2>16, <2>17, <2>18, <2>19,
       <2>20, <2>21, <2>22
    DEF Next, ReceiverStep, ClientStep
<1>. QED
  BY <1>1, <1>2, BaseCorrect, ReceiverCorrect, PTL DEF Spec

\* What SyncNode stores as synchronized was durably applied by the Edge.
THEOREM AckWasAppliedHolds == Spec => []AckWasApplied
<1>1. AckInv => AckWasApplied
  BY DEF AckInv
<1>. QED
  BY <1>1, AckCorrect, PTL

\* With a version recorded at every start, nothing sent or accepted in the
\* Coordinator's epoch is ahead of its version.
THEOREM GenerationCorrect ==
    ASSUME CoordMode = "managed"
    PROVE  Spec => []GenerationInv
<1>1. Init => GenerationInv
  BY DEF Init, GenerationInv, PutEdgeSyncState, Accepted, Found, Snapshot,
    NoSnapshot, SyncState, Named
<1>2. Base /\ GenerationInv /\ [Next]_vars => GenerationInv'
  <2>. SUFFICES ASSUME Base, GenerationInv, [Next]_vars PROVE GenerationInv'
    OBVIOUS
  <2>. USE DEF GenerationInv, PutEdgeSyncState, Base, TypeOK, SlotInv,
    Snapshot, NoSnapshot, SyncState, Found
  <2>1. CASE SetStatus
    BY <2>1 DEF SetStatus
  <2>2. CASE SetActiveConfiguration
    BY <2>2 DEF SetActiveConfiguration
  <2>3. CASE CoordinatorRestart
    BY <2>3 DEF CoordinatorRestart
  <2>4. CASE EnsureCoordinatorEpoch
    BY <2>4 DEF EnsureCoordinatorEpoch
  <2>5. CASE ReplaceConfiguration
    BY <2>5 DEF ReplaceConfiguration
  <2>6. CASE Activate
    BY <2>6 DEF Activate
  <2>7. CASE UndoReplace
    BY <2>7 DEF UndoReplace
  <2>8. CASE CommitSync
    BY <2>8 DEF CommitSync
  <2>9. CASE EdgeRefresh
    BY <2>9 DEF EdgeRefresh
  <2>10. CASE EdgeLocalEdit
    BY <2>10 DEF EdgeLocalEdit
  <2>11. CASE EdgeCrash
    BY <2>11 DEF EdgeCrash
  <2>12. CASE EdgeStart
    BY <2>12 DEF EdgeStart
  <2>13. ASSUME NEW k \in Calls, SyncPayload(k) PROVE GenerationInv'
    BY <2>13 DEF SyncPayload
  <2>14. ASSUME NEW k \in Calls, SyncNode(k) PROVE GenerationInv'
    BY <2>14 DEF SyncNode
  <2>15. ASSUME NEW k \in Calls, SyncAcknowledged(k) PROVE GenerationInv'
    BY <2>15 DEF SyncAcknowledged
  <2>16. ASSUME NEW k \in Calls, SyncFailed(k) PROVE GenerationInv'
    BY <2>16 DEF SyncFailed
  <2>17. ASSUME NEW k \in Calls, SyncTimeout(k) PROVE GenerationInv'
    BY <2>17 DEF SyncTimeout
  <2>18. ASSUME NEW k \in Calls, Lose(k) PROVE GenerationInv'
    BY <2>18 DEF Lose
  <2>19. ASSUME NEW k \in Calls, RejectSync(k) PROVE GenerationInv'
    BY <2>19 DEF RejectSync
  <2>20. ASSUME NEW k \in Calls, ReplaySync(k) PROVE GenerationInv'
    BY <2>20 DEF ReplaySync
  <2>21. ASSUME NEW k \in Calls, AcceptSync(k) PROVE GenerationInv'
    BY <2>21 DEF AcceptSync
  <2>22. CASE UNCHANGED vars
    BY <2>22 DEF vars, hist
  <2>. QED
    BY <2>1, <2>2, <2>3, <2>4, <2>5, <2>6, <2>7, <2>8, <2>9, <2>10,
       <2>11, <2>12, <2>13, <2>14, <2>15, <2>16, <2>17, <2>18, <2>19,
       <2>20, <2>21, <2>22
    DEF Next, ReceiverStep, ClientStep
<1>. QED
  BY <1>1, <1>2, BaseCorrect, PTL DEF Spec

\* A managed Coordinator's next generation is never stale for the Edge.
THEOREM GenerationMonotonicHolds ==
    ASSUME CoordMode = "managed"
    PROVE  Spec => []GenerationMonotonic
<1>1. TypeOK /\ GenerationInv => GenerationMonotonic
  BY DEF GenerationInv, GenerationMonotonic, TypeOK
<1>. QED
  BY <1>1, TypeCorrect, GenerationCorrect, PTL

=============================================================================
