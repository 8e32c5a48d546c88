----------------------- MODULE NginxControllerProofs -----------------------
(***************************************************************************)
(* Proofs about the configuration lifecycle, for any contents of the       *)
(* tables, any mode and any bounds.  Base is the type invariant with the   *)
(* lock discipline; TestedInv, RecordInv, ServeInv, StatusInv, DesiredInv  *)
(* and RoutingInv are layers on top of it, and ImplementsActive-           *)
(* ConfigurationHolds draws on them for its refinement mapping.            *)
(***************************************************************************)
EXTENDS NginxController, FiniteSetTheorems, TLAPS

USE ConfigAssumption, ModeAssumption, BoundsAssumption
USE DEF Config, Row, Manifest, Owners, Ops, Steps, ReqSteps, ReqOps,
        NoManifest, Enabled, CtxDone, Fault, CtxError, Acquire, ReturnError,
        ToFailed, ValidateOK, CanStart, StartMaster, SignalReload, ActivateOK,
        ActivateError, StoreExpected, Spend, LoseMemory,
        alive, hup, cancelled, degraded,
        db, disk, nginx, mem, job, req, aux

Base == TypeOK /\ LockDiscipline

\* The mirrors of one moment with the upstreams of another are repositories.
LEMMA MixedRepos ==
    ASSUME NEW a \in Repos, NEW b \in Repos
    PROVE  /\ <<a[1], b[2]>> \in Repos
           /\ <<a[1], b[2]>>[1] = a[1] /\ <<a[1], b[2]>>[2] = b[2]
           /\ a = <<a[1], a[2]>>
  BY DEF Repos

\* Mirrors and upstreams of one moment are the repositories of that moment.
LEMMA WholeRepos ==
    ASSUME NEW d \in Config
    PROVE  /\ d.m \in Repos /\ <<d.m[1], d.m[2]>> = d.m
           /\ [d EXCEPT !.m = <<d.m[1], d.m[2]>>] = d
<1>1. d.m \in Repos
  OBVIOUS
<1>2. <<d.m[1], d.m[2]>> = d.m
  BY <1>1, MixedRepos
<1>3. [d EXCEPT !.m = d.m] = d
  OBVIOUS
<1>. QED
  BY <1>1, <1>2, <1>3

\* What AddConfigVersion leaves in config_versions: rows it had, plus the new
\* row, which is above all of them; the newest row and the active row survive
\* the pruning.
Recorded ==
    \E v \in Nat \ {0} :
        LET new == [version |-> v, cfg |-> cand] IN
        /\ ver' = v /\ new \in Row
        /\ new \in rows' /\ rows' \subseteq rows \cup {new}
        /\ \A r \in rows : r.version < v
        /\ \A r \in rows : r.version = dbActive => r \in rows'

\* AddConfigVersion either fails and writes nothing, or records the candidate.
LEMMA RecordedRow ==
    ASSUME TypeOK, AddConfigVersion
    PROVE  \/ rows' = rows /\ ver' = ver /\ pc' = "failed"
           \/ Recorded /\ pc' \in {"publish", "commit"}
<1>1. CASE rows' = rows /\ ver' = ver /\ pc' = "failed"
  BY <1>1
<1>2. ASSUME NEW v \in 1..MaxVersion, IsNextVersion(v), ver' = v,
             rows' = Pruned(rows \cup {[version |-> v, cfg |-> cand]})
      PROVE  Recorded
  <2>. DEFINE new == [version |-> v, cfg |-> cand]
              table == rows \cup {new}
              above == {s \in table : s.version > new.version}
  <2>1. v \in Nat \ {0} /\ new \in Row /\ new.version = v
    BY DEF TypeOK
  <2>2. \A r \in rows : r.version < v
    BY <1>2 DEF IsNextVersion, TypeOK
  <2>3. above = {}
    BY <2>1, <2>2 DEF TypeOK
  <2>4. Cardinality(above) < HistoryLimit
    <3>. HIDE DEF above
    <3>. QED  BY <2>3, FS_EmptySet
  <2>5. new \in rows' /\ rows' \subseteq table
    BY <1>2, <2>4 DEF Pruned
  <2>6. \A r \in rows : r.version = dbActive => r \in rows'
    BY <1>2 DEF Pruned
  <2>. QED
    BY <1>2, <2>1, <2>2, <2>5, <2>6 DEF Recorded
<1>. QED
  BY <1>1, <1>2 DEF AddConfigVersion

\* Type correctness, and the lock discipline it needs: a request that has read
\* the active configuration holds mutationMu while MirrorRelay serves, so what
\* it read is a configuration.
THEOREM BaseCorrect == Spec => []Base
<1>1. Init => Base
  BY DEF Init, Base, TypeOK, LockDiscipline
<1>2. Base /\ [Next]_vars => Base'
  <2>. SUFFICES ASSUME Base, [Next]_vars PROVE Base'
    OBVIOUS
  <2>. USE DEF Base, TypeOK, LockDiscipline
  <2>1. CASE AddConfigVersion
    <3>1. rows' \subseteq Row /\ ver' \in Nat
      BY <2>1, RecordedRow DEF Recorded
    <3>. QED
      BY <2>1, <3>1 DEF AddConfigVersion
  <2>2. CASE ListCustomConfigs \/ Validate \/ Publish \/ Activate
    BY <2>2 DEF ListCustomConfigs, Validate, Publish, Activate
  <2>12. CASE ListMirrors \/ ListUpstreams
    <3>1. cand' \in Config
      BY <2>12, MixedRepos DEF ListMirrors, ListUpstreams
    <3>. QED
      BY <2>12, <3>1 DEF ListMirrors, ListUpstreams
  <2>13. CASE AdminRepository
    <3>1. \A m \in Repos : ReadAround(m) \in Config
      BY MixedRepos DEF ReadAround
    <3>2. torn' \subseteq Config
      BY <2>13, <3>1 DEF AdminRepository
    <3>. QED
      BY <2>13, <3>2 DEF AdminRepository
  <2>3. CASE RestorePublished \/ ReloadRestored \/
                 SetActiveConfigVersion \/ SetStatus
    BY <2>3 DEF RestorePublished, ReloadRestored, SetActiveConfigVersion,
      SetStatus
  <2>4. CASE SetActiveConfiguration \/ PublisherCallback \/
                 ReconcileFailed \/ UndoReplace \/ Abort
    BY <2>4 DEF SetActiveConfiguration, PublisherCallback, ReconcileFailed,
      UndoReplace, Abort
  <2>5. CASE ApplyValidate \/ RollbackLoad \/ RollbackTest \/
                 ReplaceConfiguration
    BY <2>5 DEF ApplyValidate, RollbackLoad, RollbackTest,
      ReplaceConfiguration
  <2>6. CASE RecoverPublish \/ RecoverActivate
    BY <2>6 DEF RecoverPublish, RecoverActivate
  <2>7. CASE AdminAcquire \/ PublishActiveRouting \/
                 PublishActiveRepositories \/ SetExpectedConfiguration \/
                 SyncReadVersion
    BY <2>7 DEF AdminAcquire, PublishActiveRouting,
      PublishActiveRepositories, SetExpectedConfiguration, SyncReadVersion
  <2>8. CASE AdminCustomConfig \/ AdminRequest \/ ClientCancel \/
                 SyncReadActive
    BY <2>8 DEF AdminCustomConfig, AdminRequest, ClientCancel, SyncReadActive
  <2>9. CASE Refresh \/ SuperviseRestart \/ NginxReloads \/
                 NginxExits \/ ExternalStart
    BY <2>9 DEF Refresh, SuperviseRestart, NginxReloads, NginxExits,
      ExternalStart
  <2>10. CASE Boot \/ Crash
    BY <2>10 DEF Boot, Crash
  <2>11. CASE UNCHANGED vars
    BY <2>11 DEF vars
  <2>. QED
    BY <2>1, <2>2, <2>3, <2>4, <2>5, <2>6, <2>7, <2>8, <2>9, <2>10, <2>11,
       <2>12, <2>13
       DEF Next, HolderStep, RequestStep
<1>. QED
  BY <1>1, <1>2, PTL DEF Spec

\* Every variable of the controller keeps its type, whatever the tables, the
\* mode and the bounds are.
THEOREM TypeCorrect == Spec => []TypeOK
<1>1. Base => TypeOK
  BY DEF Base
<1>. QED
  BY <1>1, BaseCorrect, PTL

\* The symlink, and the way back that a failing reconcile keeps, only ever
\* name configurations that passed nginx -t.
THEOREM TestedCorrect == Spec => []TestedInv
<1>1. Init => TestedInv
  BY DEF Init, TestedInv, PublishedTested
<1>2. Base /\ Base' /\ TestedInv /\ [Next]_vars
      => TestedInv'
  <2>. SUFFICES ASSUME Base, Base', TestedInv,
                       [Next]_vars
                PROVE  TestedInv'
    OBVIOUS
  <2>. USE DEF Base, TypeOK, LockDiscipline, TestedInv,
               PublishedTested
  <2>1. CASE Validate
    BY <2>1 DEF Validate
  <2>2. CASE Publish
    BY <2>2 DEF Publish
  <2>3. CASE RestorePublished
    BY <2>3 DEF RestorePublished
  <2>4. CASE RollbackTest
    BY <2>4 DEF RollbackTest
  <2>5. CASE RecoverPublish
    BY <2>5 DEF RecoverPublish
  <2>6. CASE ListMirrors \/ ListUpstreams \/ ListCustomConfigs \/
                 AddConfigVersion \/ Activate \/ ReloadRestored \/
                 SetActiveConfigVersion \/ SetStatus \/ SetActiveConfiguration
                 \/ PublisherCallback \/ ReconcileFailed \/ UndoReplace \/
                 Abort \/ ApplyValidate \/ RollbackLoad \/
                 ReplaceConfiguration \/ RecoverActivate
    BY <2>6 DEF ListMirrors, ListUpstreams, ListCustomConfigs, AddConfigVersion, Activate,
      ReloadRestored, SetActiveConfigVersion, SetStatus,
      SetActiveConfiguration, PublisherCallback, ReconcileFailed, UndoReplace,
      Abort, ApplyValidate, RollbackLoad, ReplaceConfiguration,
      RecoverActivate
  <2>7. CASE AdminAcquire \/ PublishActiveRouting \/
                 PublishActiveRepositories \/ SetExpectedConfiguration \/
                 SyncReadVersion \/ AdminRepository \/ AdminCustomConfig \/
                 AdminRequest \/ ClientCancel \/ SyncReadActive \/ Refresh \/
                 SuperviseRestart \/ NginxReloads \/ NginxExits \/
                 ExternalStart \/ Boot \/ Crash
    BY <2>7 DEF AdminAcquire, PublishActiveRouting,
      PublishActiveRepositories, SetExpectedConfiguration, SyncReadVersion,
      AdminRepository, AdminCustomConfig, AdminRequest, ClientCancel,
      SyncReadActive, Refresh, SuperviseRestart, NginxReloads, NginxExits,
      ExternalStart, Boot, Crash
  <2>8. CASE UNCHANGED vars
    BY <2>8 DEF vars
  <2>. QED
    BY <2>1, <2>2, <2>3, <2>4, <2>5, <2>6, <2>7, <2>8
       DEF Next, HolderStep, RequestStep
<1>. QED
  BY <1>1, <1>2, BaseCorrect, PTL DEF Spec

\* Nothing untested is ever published.
THEOREM PublishedTestedHolds == Spec => []PublishedTested
<1>1. TestedInv => PublishedTested
  BY DEF TestedInv
<1>. QED
  BY <1>1, TestedCorrect, PTL

\* config_versions is a function of the version number that always holds the
\* active row and the row of the reconcile in progress.
THEOREM RecordCorrect == Spec => []RecordInv
<1>1. Init => RecordInv
  BY DEF Init, RecordInv, ActiveRecoverable, JobRow
<1>2. Base /\ Base' /\ RecordInv /\ [Next]_vars
      => RecordInv'
  <2>. SUFFICES ASSUME Base, Base', RecordInv,
                       [Next]_vars
                PROVE  RecordInv'
    OBVIOUS
  <2>. USE DEF Base, TypeOK, LockDiscipline, RecordInv,
               ActiveRecoverable, JobRow
  <2>1. CASE Validate
    BY <2>1 DEF Validate
  <2>2. CASE AddConfigVersion
    <3>1. UNCHANGED <<cand, dbActive, dirs>> /\ pc = "record"
      BY <2>2 DEF AddConfigVersion
    <3>2. CASE rows' = rows /\ ver' = ver /\ pc' = "failed"
      BY <3>1, <3>2
    <3>3. CASE Recorded /\ pc' \in {"publish", "commit"}
      BY <3>1, <3>3 DEF Recorded
    <3>. QED
      BY <2>2, <3>2, <3>3, RecordedRow
  <2>3. CASE SetActiveConfigVersion
    BY <2>3 DEF SetActiveConfigVersion
  <2>4. CASE RollbackLoad
    BY <2>4 DEF RollbackLoad
  <2>5. CASE RecoverPublish
    BY <2>5 DEF RecoverPublish
  <2>6. CASE RecoverActivate
    BY <2>6 DEF RecoverActivate
  <2>7. CASE ListMirrors \/ ListUpstreams \/ ListCustomConfigs \/ Publish \/
                 Activate \/ RestorePublished \/ ReloadRestored \/ SetStatus
                 \/ SetActiveConfiguration \/ PublisherCallback \/
                 ReconcileFailed \/ UndoReplace \/ Abort \/ ApplyValidate \/
                 RollbackTest \/ ReplaceConfiguration
    BY <2>7 DEF ListMirrors, ListUpstreams, ListCustomConfigs, Publish, Activate,
      RestorePublished, ReloadRestored, SetStatus, SetActiveConfiguration,
      PublisherCallback, ReconcileFailed, UndoReplace, Abort, ApplyValidate,
      RollbackTest, ReplaceConfiguration
  <2>8. CASE AdminAcquire \/ PublishActiveRouting \/
                 PublishActiveRepositories \/ SetExpectedConfiguration \/
                 SyncReadVersion \/ AdminRepository \/ AdminCustomConfig \/
                 AdminRequest \/ ClientCancel \/ SyncReadActive \/ Refresh \/
                 SuperviseRestart \/ NginxReloads \/ NginxExits \/
                 ExternalStart \/ Boot \/ Crash
    BY <2>8 DEF AdminAcquire, PublishActiveRouting,
      PublishActiveRepositories, SetExpectedConfiguration, SyncReadVersion,
      AdminRepository, AdminCustomConfig, AdminRequest, ClientCancel,
      SyncReadActive, Refresh, SuperviseRestart, NginxReloads, NginxExits,
      ExternalStart, Boot, Crash
  <2>9. CASE UNCHANGED vars
    BY <2>9 DEF vars
  <2>. QED
    BY <2>1, <2>2, <2>3, <2>4, <2>5, <2>6, <2>7, <2>8, <2>9
       DEF Next, HolderStep, RequestStep
<1>. QED
  BY <1>1, <1>2, BaseCorrect, PTL DEF Spec

\* Pruning never removes what recoverLastActive needs after a crash.
THEOREM ActiveRecoverableHolds == Spec => []ActiveRecoverable
<1>1. RecordInv => ActiveRecoverable
  BY DEF RecordInv
<1>. QED
  BY <1>1, RecordCorrect, PTL

\* Where the symlink and Nginx stand at every step of a reconcile and of its
\* failure paths.
THEOREM ServeCorrect == Spec => []ServeInv
<1>1. Init => ServeInv
  BY DEF Init, ServeInv, Synced, Ahead
<1>2. Base /\ Base' /\ ServeInv /\ [Next]_vars
      => ServeInv'
  <2>. SUFFICES ASSUME Base, Base', ServeInv,
                       [Next]_vars
                PROVE  ServeInv'
    OBVIOUS
  <2>. USE DEF Base, TypeOK, LockDiscipline, ServeInv, Synced,
               Ahead
  <2>1. CASE Publish
    BY <2>1 DEF Publish
  <2>2. CASE Activate
    BY <2>2 DEF Activate
  <2>3. CASE RestorePublished
    BY <2>3 DEF RestorePublished
  <2>4. CASE ReloadRestored
    BY <2>4 DEF ReloadRestored
  <2>5. CASE SetActiveConfigVersion
    BY <2>5 DEF SetActiveConfigVersion
  <2>6. CASE SetStatus
    BY <2>6 DEF SetStatus
  <2>7. CASE SetActiveConfiguration
    BY <2>7 DEF SetActiveConfiguration
  <2>8. CASE PublisherCallback
    BY <2>8 DEF PublisherCallback
  <2>9. CASE ReconcileFailed
    BY <2>9 DEF ReconcileFailed
  <2>10. CASE RecoverPublish
    BY <2>10 DEF RecoverPublish
  <2>11. CASE RecoverActivate
    BY <2>11 DEF RecoverActivate
  <2>12. CASE ListMirrors \/ ListUpstreams \/ ListCustomConfigs \/ Validate \/
                 AddConfigVersion \/ UndoReplace \/ Abort \/ ApplyValidate \/
                 RollbackLoad \/ RollbackTest \/ ReplaceConfiguration
    BY <2>12 DEF ListMirrors, ListUpstreams, ListCustomConfigs, Validate, AddConfigVersion,
      UndoReplace, Abort, ApplyValidate, RollbackLoad, RollbackTest,
      ReplaceConfiguration
  <2>13. CASE AdminAcquire \/ PublishActiveRouting \/
                 PublishActiveRepositories \/ SetExpectedConfiguration \/
                 SyncReadVersion \/ AdminRepository \/ AdminCustomConfig \/
                 AdminRequest \/ ClientCancel \/ SyncReadActive \/ Refresh \/
                 SuperviseRestart \/ NginxReloads \/ NginxExits \/
                 ExternalStart \/ Boot \/ Crash
    BY <2>13 DEF AdminAcquire, PublishActiveRouting,
      PublishActiveRepositories, SetExpectedConfiguration, SyncReadVersion,
      AdminRepository, AdminCustomConfig, AdminRequest, ClientCancel,
      SyncReadActive, Refresh, SuperviseRestart, NginxReloads, NginxExits,
      ExternalStart, Boot, Crash
  <2>14. CASE UNCHANGED vars
    BY <2>14 DEF vars
  <2>. QED
    BY <2>1, <2>2, <2>3, <2>4, <2>5, <2>6, <2>7, <2>8, <2>9, <2>10, <2>11,
      <2>12, <2>13, <2>14
       DEF Next, HolderStep, RequestStep
<1>. QED
  BY <1>1, <1>2, BaseCorrect, PTL DEF Spec

\* At rest Nginx serves, or is about to load, the active configuration.
THEOREM ServesActiveHolds == Spec => []ServesActive
<1>1. Base /\ ServeInv => ServesActive
  BY DEF Base, LockDiscipline, ServeInv, ServesActive, Synced, Ahead
<1>. QED
  BY <1>1, BaseCorrect, ServeCorrect, PTL

\* The status version names the active row and the active configuration,
\* except between the commit and the end of the same reconcile.
THEOREM StatusCorrect == Spec => []StatusInv
<1>1. Init => StatusInv
  BY DEF Init, StatusInv, RecordInv, JobRow, ActiveRecoverable
<1>2. (Base /\ RecordInv) /\ (Base /\ RecordInv)' /\ StatusInv /\ [Next]_vars
      => StatusInv'
  <2>. SUFFICES ASSUME (Base /\ RecordInv), (Base /\ RecordInv)', StatusInv,
                       [Next]_vars
                PROVE  StatusInv'
    OBVIOUS
  <2>. USE DEF Base, TypeOK, LockDiscipline, StatusInv,
               RecordInv, JobRow, ActiveRecoverable
  <2>1. CASE AddConfigVersion
    <3>1. pc = "record" /\ UNCHANGED <<dbActive, curVersion, active, phase>>
      BY <2>1 DEF AddConfigVersion, mem
    <3>2. CASE rows' = rows /\ ver' = ver /\ pc' = "failed"
      BY <3>1, <3>2
    <3>3. CASE Recorded /\ pc' \in {"publish", "commit"}
      <4>1. \A r \in rows : r.version = dbActive => r \in rows'
        BY <3>3 DEF Recorded
      <4>. QED
        BY <3>1, <3>3, <4>1
    <3>. QED
      BY <2>1, <3>2, <3>3, RecordedRow
  <2>2. CASE SetActiveConfigVersion
    BY <2>2 DEF SetActiveConfigVersion
  <2>3. CASE SetStatus
    BY <2>3 DEF SetStatus
  <2>4. CASE SetActiveConfiguration
    BY <2>4 DEF SetActiveConfiguration
  <2>5. CASE PublisherCallback
    BY <2>5 DEF PublisherCallback
  <2>6. CASE ListMirrors \/ ListUpstreams \/ ListCustomConfigs \/ Validate \/
                 Publish \/ Activate \/ RestorePublished \/ ReloadRestored \/
                 ReconcileFailed \/ UndoReplace \/ Abort \/ ApplyValidate \/
                 RollbackLoad \/ RollbackTest \/ ReplaceConfiguration \/
                 RecoverPublish \/ RecoverActivate
    BY <2>6 DEF ListMirrors, ListUpstreams, ListCustomConfigs, Validate, Publish, Activate,
      RestorePublished, ReloadRestored, ReconcileFailed, UndoReplace, Abort,
      ApplyValidate, RollbackLoad, RollbackTest, ReplaceConfiguration,
      RecoverPublish, RecoverActivate
  <2>7. CASE AdminAcquire \/ PublishActiveRouting \/
                 PublishActiveRepositories \/ SetExpectedConfiguration \/
                 SyncReadVersion \/ AdminRepository \/ AdminCustomConfig \/
                 AdminRequest \/ ClientCancel \/ SyncReadActive \/ Refresh \/
                 SuperviseRestart \/ NginxReloads \/ NginxExits \/
                 ExternalStart \/ Boot \/ Crash
    BY <2>7 DEF AdminAcquire, PublishActiveRouting,
      PublishActiveRepositories, SetExpectedConfiguration, SyncReadVersion,
      AdminRepository, AdminCustomConfig, AdminRequest, ClientCancel,
      SyncReadActive, Refresh, SuperviseRestart, NginxReloads, NginxExits,
      ExternalStart, Boot, Crash
  <2>8. CASE UNCHANGED vars
    BY <2>8 DEF vars
  <2>. QED
    BY <2>1, <2>2, <2>3, <2>4, <2>5, <2>6, <2>7, <2>8
       DEF Next, HolderStep, RequestStep
<1>. QED
  BY <1>1, <1>2, BaseCorrect, RecordCorrect, PTL DEF Spec

\* At rest status, database and memory agree on what is active.
THEOREM StatusNamesActiveHolds == Spec => []StatusNamesActive
<1>1. Base /\ StatusInv => StatusNamesActive
  BY DEF Base, LockDiscipline, StatusInv, StatusNamesActive
<1>. QED
  BY <1>1, BaseCorrect, StatusCorrect, PTL

\* The two table reads of a reconcile straddle at most one write.
THEOREM DesiredCorrect == Spec => []DesiredInv
<1>1. Init => DesiredInv
  BY DEF Init, DesiredInv, SnapshotRead
<1>2. Base /\ Base' /\ DesiredInv /\ [Next]_vars
      => DesiredInv'
  <2>. SUFFICES ASSUME Base, Base', DesiredInv,
                       [Next]_vars
                PROVE  DesiredInv'
    OBVIOUS
  <2>. USE DEF Base, TypeOK, LockDiscipline, DesiredInv,
               SnapshotRead
  <2>1. CASE ListMirrors
    <3>1. [desired EXCEPT !.m = <<desired.m[1], desired.m[2]>>] = desired
      <4>1. desired \in Config
        OBVIOUS
      <4>. QED
        BY <4>1, WholeRepos
    <3>2. pc' = "upstreams" => cand'.m[1] = desired.m[1]
      BY <2>1, MixedRepos DEF ListMirrors
    <3>. QED
      BY <2>1, <3>1, <3>2 DEF ListMirrors
  <2>13. CASE ListUpstreams
    <3>1. pc' = "custom" => cand'.m = <<cand.m[1], desired.m[2]>>
      BY <2>13 DEF ListUpstreams
    <3>2. [desired EXCEPT !.m = <<cand.m[1], desired.m[2]>>]
            = [m |-> <<cand.m[1], desired.m[2]>>, c |-> desired.c]
      OBVIOUS
    <3>3. cand.m[1] = desired.m[1] => <<cand.m[1], desired.m[2]>> = desired.m
      <4>1. desired \in Config
        OBVIOUS
      <4>. QED
        BY <4>1, WholeRepos
    <3>. QED
      BY <2>13, <3>1, <3>2, <3>3 DEF ListUpstreams
  <2>2. CASE ListCustomConfigs
    BY <2>2 DEF ListCustomConfigs
  <2>3. CASE AddConfigVersion
    <3>1. UNCHANGED <<cand, desired, saved, wasDesired, torn>> /\ pc = "record"
      BY <2>3 DEF AddConfigVersion
    <3>2. CASE rows' = rows /\ ver' = ver /\ pc' = "failed"
      BY <3>1, <3>2
    <3>3. CASE Recorded /\ pc' \in {"publish", "commit"}
      BY <3>1, <3>3 DEF Recorded
    <3>. QED
      BY <2>3, <3>2, <3>3, RecordedRow
  <2>4. CASE UndoReplace
    BY <2>4 DEF UndoReplace
  <2>5. CASE ApplyValidate
    BY <2>5 DEF ApplyValidate
  <2>6. CASE ReplaceConfiguration
    BY <2>6 DEF ReplaceConfiguration
  <2>7. CASE AdminAcquire
    BY <2>7 DEF AdminAcquire
  <2>8. CASE AdminRepository
    <3>. PICK m \in Repos :
              /\ desired' = [desired EXCEPT !.m = m]
              /\ wasDesired' = wasDesired \cup {[desired EXCEPT !.m = m]}
              /\ torn' = torn \cup {ReadAround(m)}
      BY <2>8 DEF AdminRepository
    <3>1. UNCHANGED <<pc, cand, saved, rows>> /\ reqPc = "idle" /\ reqPc' = "wait"
      BY <2>8 DEF AdminRepository
    <3>2. desired'.m = m /\ desired'.c = desired.c
      OBVIOUS
    <3>3. [desired' EXCEPT !.m = <<desired.m[1], desired'.m[2]>>] \in torn'
      <4>1. [desired' EXCEPT !.m = <<desired.m[1], desired'.m[2]>>]
              = ReadAround(m)
        BY <3>2 DEF ReadAround
      <4>. QED
        BY <4>1
    <3>4. [m |-> desired.m, c |-> desired.c] = desired
      OBVIOUS
    <3>. QED
      BY <3>1, <3>2, <3>3, <3>4
  <2>9. CASE AdminCustomConfig
    <3>1. \E c \in Customs :
            /\ desired' = [desired EXCEPT !.c = c]
            /\ wasDesired' = wasDesired \cup {desired'}
      BY <2>9 DEF AdminCustomConfig
    <3>2. /\ UNCHANGED <<pc, cand, saved, rows, torn>>
          /\ reqPc = "idle" /\ reqPc' = "wait"
      BY <2>9 DEF AdminCustomConfig
    <3>3. desired'.m = desired.m /\ desired' = [m |-> desired.m, c |-> desired'.c]
      BY <3>1
    <3>4. pc = "upstreams" =>
            [desired' EXCEPT !.m = <<cand.m[1], desired'.m[2]>>] = desired'
      BY <3>2, <3>3, MixedRepos
    <3>. QED
      BY <3>1, <3>2, <3>3, <3>4
  <2>10. CASE Validate \/ Publish \/ Activate \/
                 RestorePublished \/ ReloadRestored \/ SetActiveConfigVersion
                 \/ SetStatus \/ SetActiveConfiguration \/ PublisherCallback
                 \/ ReconcileFailed \/ Abort \/ RollbackLoad \/ RollbackTest
                 \/ RecoverPublish \/ RecoverActivate
    BY <2>10 DEF Validate, Publish, Activate, RestorePublished,
      ReloadRestored, SetActiveConfigVersion, SetStatus,
      SetActiveConfiguration, PublisherCallback, ReconcileFailed, Abort,
      RollbackLoad, RollbackTest, RecoverPublish, RecoverActivate
  <2>11. CASE PublishActiveRouting \/ PublishActiveRepositories
                 \/ SetExpectedConfiguration \/ SyncReadVersion \/
                 AdminRequest \/ ClientCancel \/ SyncReadActive \/ Refresh \/
                 SuperviseRestart \/ NginxReloads \/ NginxExits \/
                 ExternalStart \/ Boot \/ Crash
    BY <2>11 DEF PublishActiveRouting, PublishActiveRepositories,
      SetExpectedConfiguration, SyncReadVersion, AdminRequest, ClientCancel,
      SyncReadActive, Refresh, SuperviseRestart, NginxReloads, NginxExits,
      ExternalStart, Boot, Crash
  <2>12. CASE UNCHANGED vars
    BY <2>12 DEF vars
  <2>. QED
    BY <2>1, <2>2, <2>3, <2>4, <2>5, <2>6, <2>7, <2>8, <2>9, <2>10, <2>11,
      <2>12, <2>13
       DEF Next, HolderStep, RequestStep
<1>. QED
  BY <1>1, <1>2, BaseCorrect, PTL DEF Spec

\* No recorded snapshot mixes more than the reads of one repository request.
THEOREM SnapshotReadHolds == Spec => []SnapshotRead
<1>1. DesiredInv => SnapshotRead
  BY DEF DesiredInv
<1>. QED
  BY <1>1, DesiredCorrect, PTL

\* A handler that publishes routing publishes what is active, because the
\* tables cannot change under it.
THEOREM RoutingCorrect == Spec => []RoutingInv
<1>1. Init => RoutingInv
  BY DEF Init, RoutingInv
<1>2. Base /\ Base' /\ RoutingInv /\ [Next]_vars
      => RoutingInv'
  <2>. SUFFICES ASSUME Base, Base', RoutingInv,
                       [Next]_vars
                PROVE  RoutingInv'
    OBVIOUS
  <2>. USE DEF Base, TypeOK, LockDiscipline, RoutingInv
  <2>1. CASE ListMirrors
    <3>1. pc' = "upstreams" => cand'.m[1] = desired.m[1]
      BY <2>1, MixedRepos DEF ListMirrors
    <3>. QED
      BY <2>1, <3>1 DEF ListMirrors
  <2>16. CASE ListUpstreams
    <3>1. cand.m[1] = desired.m[1] => <<cand.m[1], desired.m[2]>> = desired.m
      <4>1. desired \in Config
        OBVIOUS
      <4>. QED
        BY <4>1, WholeRepos
    <3>. QED
      BY <2>16, <3>1 DEF ListUpstreams
  <2>2. CASE ListCustomConfigs
    BY <2>2 DEF ListCustomConfigs
  <2>3. CASE SetActiveConfiguration
    BY <2>3 DEF SetActiveConfiguration
  <2>4. CASE PublisherCallback
    BY <2>4 DEF PublisherCallback
  <2>5. CASE UndoReplace
    BY <2>5 DEF UndoReplace
  <2>6. CASE ReplaceConfiguration
    BY <2>6 DEF ReplaceConfiguration
  <2>7. CASE AdminAcquire
    BY <2>7 DEF AdminAcquire
  <2>8. CASE PublishActiveRouting
    BY <2>8 DEF PublishActiveRouting
  <2>9. CASE PublishActiveRepositories
    BY <2>9 DEF PublishActiveRepositories
  <2>10. CASE AdminRepository
    BY <2>10 DEF AdminRepository
  <2>11. CASE AdminCustomConfig
    BY <2>11 DEF AdminCustomConfig
  <2>12. CASE SyncReadActive
    BY <2>12 DEF SyncReadActive
  <2>13. CASE Validate \/ AddConfigVersion \/ Publish \/
                 Activate \/ RestorePublished \/ ReloadRestored \/
                 SetActiveConfigVersion \/ SetStatus \/ ReconcileFailed \/
                 Abort \/ ApplyValidate \/ RollbackLoad \/ RollbackTest \/
                 RecoverPublish \/ RecoverActivate
    BY <2>13 DEF Validate, AddConfigVersion, Publish, Activate,
      RestorePublished, ReloadRestored, SetActiveConfigVersion, SetStatus,
      ReconcileFailed, Abort, ApplyValidate, RollbackLoad, RollbackTest,
      RecoverPublish, RecoverActivate
  <2>14. CASE SetExpectedConfiguration \/ SyncReadVersion \/
                 AdminRequest \/ ClientCancel \/ Refresh \/ SuperviseRestart
                 \/ NginxReloads \/ NginxExits \/ ExternalStart \/ Boot \/
                 Crash
    BY <2>14 DEF SetExpectedConfiguration, SyncReadVersion, AdminRequest,
      ClientCancel, Refresh, SuperviseRestart, NginxReloads, NginxExits,
      ExternalStart, Boot, Crash
  <2>15. CASE UNCHANGED vars
    BY <2>15 DEF vars
  <2>. QED
    BY <2>1, <2>2, <2>3, <2>4, <2>5, <2>6, <2>7, <2>8, <2>9, <2>10, <2>11,
      <2>12, <2>13, <2>14, <2>15, <2>16
       DEF Next, HolderStep, RequestStep
<1>. QED
  BY <1>1, <1>2, BaseCorrect, PTL DEF Spec

\* At rest the router serves the active repository table.
THEOREM RoutingFollowsActiveHolds == Spec => []RoutingFollowsActive
<1>1. Base /\ RoutingInv => RoutingFollowsActive
  BY DEF Base, LockDiscipline, RoutingInv, RoutingFollowsActive
<1>. QED
  BY <1>1, BaseCorrect, RoutingCorrect, PTL

\* Status, version table, active configuration and router agree.
THEOREM MemoryFollowsActiveHolds == Spec => []MemoryFollowsActive
  BY StatusNamesActiveHolds, RoutingFollowsActiveHolds, PTL
     DEF MemoryFollowsActive

\* Only AddConfigVersion writes config_versions.
LEMMA RowsWriter ==
    ASSUME Next PROVE AddConfigVersion \/ rows' = rows
  BY DEF Next, HolderStep, RequestStep, ListMirrors, ListUpstreams, ListCustomConfigs,
         Validate, Publish, Activate, RestorePublished, ReloadRestored,
         SetActiveConfigVersion, SetStatus, SetActiveConfiguration,
         PublisherCallback, ReconcileFailed, UndoReplace, Abort,
         ApplyValidate, RollbackLoad, RollbackTest, ReplaceConfiguration,
         RecoverPublish, RecoverActivate, AdminAcquire, PublishActiveRouting,
         PublishActiveRepositories, SetExpectedConfiguration, SyncReadVersion,
         AdminRepository, AdminCustomConfig, AdminRequest, ClientCancel,
         SyncReadActive, Refresh, SuperviseRestart, NginxReloads, NginxExits,
         ExternalStart, Boot, Crash

\* Version numbers are never given twice.
THEOREM VersionsOnlyGrowHolds == Spec => VersionsOnlyGrow
<1>. DEFINE Grows ==
        /\ \A r \in rows' \ rows : \A s \in rows : r.version > s.version
        /\ \A r \in rows : \E s \in rows' : s.version >= r.version
<1>1. Base /\ [Next]_vars => [Grows]_rows
  <2>. SUFFICES ASSUME Base, Next, rows' # rows PROVE Grows
    BY DEF vars
  <2>1. Recorded
    BY RowsWriter, RecordedRow DEF Base
  <2>. QED
    BY <2>1 DEF Recorded, Base, TypeOK
<1>. QED
  BY <1>1, BaseCorrect, PTL DEF Spec, VersionsOnlyGrow

\* The active version, hence the generation sent to Edges, never moves back.
THEOREM ActiveVersionMonotonicHolds == Spec => ActiveVersionMonotonic
<1>1. Base /\ RecordInv /\ [Next]_vars => [dbActive' >= dbActive]_dbActive
  <2>. SUFFICES ASSUME Base, RecordInv, Next, dbActive' # dbActive
                PROVE  dbActive' >= dbActive
    BY DEF vars
  <2>1. SetActiveConfigVersion
    BY DEF Next, HolderStep, RequestStep, ListMirrors,
           ListUpstreams, ListCustomConfigs, Validate, AddConfigVersion, Publish, Activate,
           RestorePublished, ReloadRestored, SetStatus,
           SetActiveConfiguration, PublisherCallback, ReconcileFailed,
           UndoReplace, Abort, ApplyValidate, RollbackLoad, RollbackTest,
           ReplaceConfiguration, RecoverPublish, RecoverActivate,
           AdminAcquire, PublishActiveRouting, PublishActiveRepositories,
           SetExpectedConfiguration, SyncReadVersion, AdminRepository,
           AdminCustomConfig, AdminRequest, ClientCancel, SyncReadActive,
           Refresh, SuperviseRestart, NginxReloads, NginxExits, ExternalStart,
           Boot, Crash
  <2>. QED
    BY <2>1 DEF SetActiveConfigVersion, RecordInv, ActiveRecoverable, Base,
                TypeOK
<1>. QED
  BY <1>1, BaseCorrect, RecordCorrect, PTL DEF Spec, ActiveVersionMonotonic

\* Rows of config_versions hold what the reads of the tables account for, and
\* the active one can be recovered.
THEOREM VersionTableSoundHolds == Spec => []VersionTableSound
  BY ActiveRecoverableHolds, SnapshotReadHolds, PTL DEF VersionTableSound

-----------------------------------------------------------------------------
(* The controller implements ActiveConfiguration.                          *)

\* Version numbers are unique, so the row marked active is what is committed.
LEMMA CommittedIs ==
    ASSUME RecordInv, NEW r \in rows, r.version = dbActive
    PROVE  Committed = r.cfg
<1>1. \A s \in rows : s.version = dbActive => s = r
  BY DEF RecordInv
<1>2. (CHOOSE s \in rows : s.version = dbActive) = r
  BY <1>1
<1>. QED
  BY <1>2 DEF Committed

\* Recording a version and pruning leave the committed configuration alone.
LEMMA CommittedStays ==
    ASSUME Base, Base', RecordInv, RecordInv', dbActive' = dbActive,
           \/ rows' = rows
           \/ \A r \in rows : r.version = dbActive => r \in rows'
    PROVE  Committed' = Committed
<1>1. CASE dbActive = 0
  <2>1. /\ \A r \in rows : r.version # 0
        /\ \A r \in rows' : r.version # 0
    BY DEF Base, TypeOK
  <2>. QED
    BY <1>1, <2>1 DEF Committed
<1>2. CASE dbActive # 0
  <2>1. PICK r \in rows : r.version = dbActive
    BY <1>2 DEF RecordInv, ActiveRecoverable
  <2>2. r \in rows' /\ r.version = dbActive'
    BY <2>1
  <2>3. Committed = r.cfg
    BY <2>1, CommittedIs
  <2>4. \A s \in rows' : s.version = dbActive' => s = r
    BY <2>2 DEF RecordInv
  <2>5. (CHOOSE s \in rows' : s.version = dbActive') = r
    BY <2>2, <2>4
  <2>6. Committed' = r.cfg
    BY <2>2, <2>5 DEF Committed
  <2>. QED
    BY <2>3, <2>6
<1>. QED
  BY <1>1, <1>2

\* The steps that change none of what others see of the configuration.
Quiet == UNCHANGED <<rows, dbActive, wasDesired, torn, active, registry>>
LEMMA QuietSteps ==
    ASSUME \/ ListMirrors \/ ListUpstreams \/ ListCustomConfigs \/ Validate \/ Publish
           \/ Activate \/ RestorePublished \/ ReloadRestored \/ SetStatus
           \/ ReconcileFailed \/ UndoReplace \/ Abort \/ ApplyValidate
           \/ RollbackLoad \/ RollbackTest
           \/ AdminAcquire \/ PublishActiveRouting \/ SetExpectedConfiguration
           \/ SyncReadVersion \/ AdminRequest \/ ClientCancel \/ SyncReadActive
           \/ Refresh \/ SuperviseRestart \/ NginxReloads \/ NginxExits
           \/ ExternalStart \/ UNCHANGED vars
    PROVE  Quiet
  BY DEF Quiet, ListMirrors, ListUpstreams, ListCustomConfigs, Validate, Publish, Activate,
         RestorePublished, ReloadRestored, SetStatus, ReconcileFailed,
         UndoReplace, Abort, ApplyValidate, RollbackLoad, RollbackTest,
         AdminAcquire, PublishActiveRouting, SetExpectedConfiguration,
         SyncReadVersion, AdminRequest, ClientCancel, SyncReadActive, Refresh,
         SuperviseRestart, NginxReloads, NginxExits, ExternalStart, vars

\* A crash, or a recovery that fails, forgets what memory held.
LEMMA Forgets ==
    ASSUME Crash \/ RecoverPublish \/ RecoverActivate
    PROVE  /\ UNCHANGED <<rows, dbActive, wasDesired, torn>>
           /\ \/ active' = None /\ registry' = None
              \/ UNCHANGED <<active, registry>>
  BY DEF Crash, RecoverPublish, RecoverActivate

\* A change of the tables.
LEMMA Proposes ==
    ASSUME Base, ReplaceConfiguration \/ AdminCustomConfig
    PROVE  /\ UNCHANGED <<rows, dbActive, active, registry, torn>>
           /\ wasDesired' = wasDesired
              \/ \E c \in Config : wasDesired' = wasDesired \cup {c}
<1>1. CASE ReplaceConfiguration
  BY <1>1 DEF ReplaceConfiguration, Base, TypeOK
<1>2. CASE AdminCustomConfig
  BY <1>2 DEF AdminCustomConfig, Base, TypeOK
<1>. QED
  BY <1>1, <1>2

\* A change of the repositories, and what a reader around it may see.
LEMMA ProposesUnderReader ==
    ASSUME Base, DesiredInv, AdminRepository
    PROVE  /\ UNCHANGED <<rows, dbActive, active, registry>>
           /\ \E old \in wasDesired \cup torn, c \in Config :
                /\ c.c = old.c
                /\ wasDesired' \cup torn' = (wasDesired \cup torn)
                     \cup {c, [c EXCEPT !.m = <<old.m[1], c.m[2]>>]}
<1>1. UNCHANGED <<rows, dbActive, active, registry>>
  BY DEF AdminRepository
<1>2. PICK m \in Repos :
        LET c == [desired EXCEPT !.m = m] IN
        /\ wasDesired' = wasDesired \cup {c}
        /\ torn' = torn \cup {ReadAround(m)}
  BY DEF AdminRepository
<1>. DEFINE c == [desired EXCEPT !.m = m]
<1>3. c \in Config /\ c.c = desired.c /\ c.m = m
  BY DEF Base, TypeOK
<1>4. desired \in wasDesired \cup torn
  BY DEF DesiredInv
<1>5. wasDesired' \cup torn' = (wasDesired \cup torn)
        \cup {c, [c EXCEPT !.m = <<desired.m[1], c.m[2]>>]}
  BY <1>2, <1>3 DEF ReadAround, Base, TypeOK
<1>. HIDE DEF c
<1>. QED
  BY <1>1, <1>3, <1>4, <1>5

\* For every table content and bound: unless the data plane is disabled, every
\* step of the controller, its callers, Nginx and a crash is a step of
\* ActiveConfiguration or invisible to it.
THEOREM ImplementsActiveConfigurationHolds ==
    ASSUME Mode # "disabled"
    PROVE  Spec => ImplementsActiveConfiguration
<1>. DEFINE Inv == Base /\ RecordInv /\ DesiredInv /\ RoutingInv
            Seen == Abstract!configurationVars
<1>1. Init => Abstract!ConfigurationInit
  <2>. SUFFICES ASSUME Init PROVE Abstract!ConfigurationInit
    OBVIOUS
  <2>1. Committed = None
    BY DEF Init, Committed
  <2>. QED
    BY <2>1 DEF Init, Abstract!ConfigurationInit
<1>2. Inv /\ Inv' /\ [Next]_vars
        => [Abstract!ConfigurationNext]_(Abstract!configurationVars)
  <2>. SUFFICES ASSUME Inv, Inv', [Next]_vars
                PROVE  Abstract!ConfigurationNext \/ UNCHANGED Seen
    OBVIOUS
  <2>1. dbActive' = dbActive /\ rows' = rows => Committed' = Committed
    BY CommittedStays
  <2>2. Quiet => UNCHANGED Seen
    BY <2>1 DEF Quiet, Abstract!configurationVars
  <2>3. CASE AddConfigVersion
    <3>1. UNCHANGED <<dbActive, wasDesired, torn, active, registry>>
      BY <2>3 DEF AddConfigVersion
    <3>2. rows' = rows \/ \A r \in rows : r.version = dbActive => r \in rows'
      BY <2>3, RecordedRow DEF Base, Recorded
    <3>3. Committed' = Committed
      BY <3>1, <3>2, CommittedStays
    <3>. QED
      BY <3>1, <3>3 DEF Abstract!configurationVars
  <2>4. CASE SetActiveConfigVersion
    <3>1. UNCHANGED <<rows, wasDesired, torn, active, registry>> /\ pc = "commit"
      BY <2>4 DEF SetActiveConfigVersion
    <3>2. CASE dbActive' = dbActive
      BY <2>1, <3>1, <3>2 DEF Abstract!configurationVars
    <3>3. CASE dbActive' = ver /\ ver # dbActive
      <4>1. PICK r \in rows : r.version = ver /\ r.cfg = cand
        BY <3>1 DEF RecordInv, JobRow
      <4>2. r.cfg \in wasDesired \cup torn
        BY <4>1 DEF DesiredInv, SnapshotRead
      <4>3. Committed' = r.cfg
        <5>1. \A s \in rows' : s.version = dbActive' => s = r
          BY <3>1, <3>3, <4>1 DEF RecordInv
        <5>2. (CHOOSE s \in rows' : s.version = dbActive') = r
          BY <3>1, <3>3, <4>1, <5>1
        <5>. QED
          BY <3>1, <3>3, <4>1, <5>2 DEF Committed
      <4>4. dbActive' > dbActive /\ dbActive' \in Nat
        <5>1. dbActive \in Nat /\ ver \in Nat /\ \A s \in rows : s.version <= ver
          BY <3>1 DEF Base, TypeOK, RecordInv
        <5>2. dbActive = 0 \/ \E s \in rows : s.version = dbActive
          BY DEF RecordInv, ActiveRecoverable
        <5>. QED
          BY <3>3, <5>1, <5>2
      <4>. QED
        BY <3>1, <4>2, <4>3, <4>4
           DEF Abstract!ConfigurationNext, Abstract!Commit
    <3>. QED
      BY <2>4, <3>2, <3>3 DEF SetActiveConfigVersion
  <2>5. CASE SetActiveConfiguration
    <3>1. UNCHANGED <<rows, dbActive, wasDesired, torn, registry>> /\ pc = "memory"
          /\ active' = cand
      BY <2>5 DEF SetActiveConfiguration
    <3>2. PICK r \in rows : r.version = dbActive /\ r.cfg = cand
      BY <3>1 DEF RecordInv, JobRow
    <3>3. Committed = cand
      BY <3>2, CommittedIs
    <3>4. cand # None
      BY DEF Base, TypeOK
    <3>. QED
      BY <2>1, <3>1, <3>3, <3>4 DEF Abstract!ConfigurationNext, Abstract!Show
  <2>6. CASE PublisherCallback
    <3>1. UNCHANGED <<rows, dbActive, wasDesired, torn, active>> /\ pc = "callback"
          /\ registry' = cand.m
      BY <2>6 DEF PublisherCallback
    <3>2. active = cand /\ cand # None
      BY <3>1 DEF RoutingInv, Base, TypeOK
    <3>. QED
      BY <2>1, <3>1, <3>2 DEF Abstract!ConfigurationNext, Abstract!Route
  <2>7. CASE PublishActiveRepositories
    <3>1. UNCHANGED <<rows, dbActive, wasDesired, torn, active>> /\ reqPc = "routes"
          /\ registry' = reqCfg.m
      BY <2>7 DEF PublishActiveRepositories
    <3>2. reqCfg = active /\ active # None
      BY <3>1 DEF RoutingInv, Base, LockDiscipline
    <3>. QED
      BY <2>1, <3>1, <3>2 DEF Abstract!ConfigurationNext, Abstract!Route
  <2>8. CASE Crash \/ RecoverPublish \/ RecoverActivate
    BY <2>1, <2>8, Forgets
       DEF Abstract!ConfigurationNext, Abstract!Forget, Abstract!configurationVars
  <2>9. CASE ReplaceConfiguration \/ AdminCustomConfig
    <3>1. \/ wasDesired' \cup torn' = wasDesired \cup torn
          \/ \E c \in Config :
                wasDesired' \cup torn' = (wasDesired \cup torn) \cup {c}
      BY <2>9, Proposes
    <3>. QED
      BY <2>1, <2>9, <3>1, Proposes
         DEF Abstract!ConfigurationNext, Abstract!Propose, Abstract!configurationVars
  <2>12. CASE AdminRepository
    BY <2>1, <2>12, ProposesUnderReader
       DEF Abstract!ConfigurationNext, Abstract!ProposeUnderReader
  <2>10. CASE Boot
    <3>1. Quiet
      BY <2>10 DEF Boot, Quiet
    <3>. QED
      BY <2>2, <3>1
  <2>11. CASE Quiet
    BY <2>2, <2>11
  <2>. QED
    BY <2>3, <2>4, <2>5, <2>6, <2>7, <2>8, <2>9, <2>10, <2>11, <2>12, QuietSteps
       DEF Next, HolderStep, RequestStep
<1>. QED
  BY <1>1, <1>2, BaseCorrect, RecordCorrect, DesiredCorrect, RoutingCorrect, PTL
     DEF Spec, ImplementsActiveConfiguration, Abstract!ConfigurationSpec

=============================================================================
