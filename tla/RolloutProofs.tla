--------------------------- MODULE RolloutProofs ----------------------------
(***************************************************************************)
(* Proofs about MachineConfigRollout, for all sets of pools and rendered   *)
(* specs and any number of disturbances.  The invariant of Patcher (IInv   *)
(* of PatcherProofs) carries over to the steps around the staging store.   *)
(***************************************************************************)
EXTENDS MachineConfigRollout, PatcherProofs

Dated(e) == e = NotStaged \/ (e \in Stage /\ e.stagedAt <= stamp)

StoreOK ==
    /\ mco \in BOOLEAN /\ selected \subseteq Pools /\ releasing \subseteq Pools
    /\ bypass \in BOOLEAN /\ bypassSeen \in BOOLEAN /\ loaded \in BOOLEAN
    /\ answerLost \in BOOLEAN /\ stamp \in Nat
    /\ Dated(configMap) /\ Dated(mirror) /\ Dated(staged) /\ Dated(first)

SameUpdate(e) == e # NotStaged /\ e.desiredHash = first.desiredHash /\ e.stagedAt = first.stagedAt

\* The entry at hand is the one first reported for the pending update: this is
\* what NewStage goes by when the update is staged again.
FirstInv ==
    /\ first # NotStaged => SameUpdate(Entry)
    /\ StagedSinceKept

StoreInv == StoreOK /\ MirrorIsConfigMap /\ FirstInv

-----------------------------------------------------------------------------
(* The steps around the store keep the invariant of Patcher *)

LEMMA StoreStepsIInv ==
    ASSUME IInv,
           ReleaseUnstaged \/ Release \/ Defer \/ CoalesceFailed \/ Clear \/ ClearFailed \/ MCCleanup \/ PoolsChange
    PROVE  IInv'
<1>1. CASE ReleaseUnstaged \/ Release
  <2> USE DEF IInv, TypeOK, cluster, gate, gauges, history
  <2>1. /\ UNCHANGED <<cluster, gate, gauges, history, live, desired, conflict>>
        /\ pc = "coalesce" /\ pc' = "namespace"
    BY <1>1 DEF ReleaseUnstaged, Release, Goto
  <2>2. ClusterOK' /\ GateOK' /\ GaugesOK' /\ HistoryOK'
    BY <2>1 DEF ClusterOK, GateOK, GaugesOK, HistoryOK
  <2>3. LocalsOK'
    BY <2>1 DEF LocalsOK
  <2>4. LiveInv' /\ WindowInv'
    BY <2>1 DEF LiveInv, WindowInv
  <2>5. EmitInv' /\ AlarmInv'
    BY <2>1 DEF EmitInv, AlarmInv, LiveInv
  <2>6. ResumeInv'
    BY <2>1 DEF ResumeInv
  <2> QED
    BY <2>2, <2>3, <2>4, <2>5, <2>6
<1>2. CASE Defer \/ CoalesceFailed
  <2>1. Return /\ UNCHANGED <<cluster, gate, alarms, pauses, held, resumed, foreign>>
    BY <1>2 DEF Defer, CoalesceFailed, history
  <2>2. GaugesOK'
    BY <1>2, ZenonT(30) DEF Defer, CoalesceFailed, IInv, TypeOK, GaugesOK, gauges
  <2>3. moves' \in 0 .. MaxMoves
    BY <1>2, PatcherAssumption, SMTT(30) DEF Defer, CoalesceFailed, IInv, TypeOK, HistoryOK, history, Disturb
  <2> QED
    BY <2>1, <2>2, <2>3, AbandonIInv
<1>3. CASE Clear \/ ClearFailed
  <2> USE DEF IInv, TypeOK, cluster
  <2>1. /\ UNCHANGED <<cluster, level, compliance, customization, alarms, pauses, resumed>>
        /\ DetectorCleared /\ pausedGauge' = "active" /\ foreign' = FALSE /\ Return /\ pc = "clear"
    BY <1>3 DEF Clear, ClearFailed, Succeed
  <2>2. moves' \in 0 .. MaxMoves
    BY <1>3, PatcherAssumption DEF Clear, ClearFailed, HistoryOK, Disturb
  <2>3. ClusterOK' /\ GaugesOK'
    BY <2>1 DEF ClusterOK, GaugesOK
  <2>4. LocalsOK'
    BY <2>1, NoneFacts DEF LocalsOK, Return
  <2>5. GateOK' /\ HistoryOK'
    <3>1. attempts' = 0 /\ emitted' = FALSE /\ held' = FALSE /\ foreign' = FALSE
      BY <2>1 DEF DetectorCleared
    <3>2. attempts' \in 0 .. Threshold /\ level' \in 0 .. Capacity
      BY <2>1, <3>1, PatcherAssumption DEF GateOK
    <3>3. GateOK'
      BY <3>1, <3>2 DEF GateOK
    <3> QED
      BY <2>1, <2>2, <3>1, <3>3 DEF HistoryOK
  <2>6. LiveInv' /\ WindowInv'
    BY <2>1 DEF LiveInv, WindowInv, Return
  <2>7. EmitInv' /\ AlarmInv'
    BY <2>1 DEF EmitInv, AlarmInv, Return, DetectorCleared
  <2>8. ResumeInv'
    BY <2>1 DEF ResumeInv, WindowInv, Return, DetectorCleared
  <2> QED
    BY <2>3, <2>4, <2>5, <2>6, <2>7, <2>8
<1>4. CASE PoolsChange
  <2> USE DEF IInv, TypeOK, cluster, locals, gate, gauges
  <2>1. UNCHANGED <<cluster, locals, gate, gauges, alarms, pauses, held, resumed, foreign>>
    BY <1>4 DEF PoolsChange
  <2>2. moves' \in 0 .. MaxMoves
    BY <1>4, PatcherAssumption DEF PoolsChange, HistoryOK, Disturb
  <2>3. ClusterOK' /\ LocalsOK' /\ GateOK' /\ GaugesOK' /\ HistoryOK'
    BY <2>1, <2>2 DEF ClusterOK, LocalsOK, GateOK, GaugesOK, HistoryOK
  <2>4. LiveInv' /\ WindowInv' /\ EmitInv' /\ AlarmInv' /\ ResumeInv'
    BY <2>1 DEF LiveInv, WindowInv, EmitInv, AlarmInv, ResumeInv
  <2> QED
    BY <2>3, <2>4
<1>5. CASE MCCleanup
  BY <1>5, CleanupIInv DEF MCCleanup
<1> QED
  BY <1>1, <1>2, <1>3, <1>4, <1>5

LEMMA RolloutIInv == ASSUME IInv, [MCNext]_mcVars PROVE IInv'
<1>1. CASE OtherStep \/ MCRestart \/ MCEnvironment
  BY <1>1, NextIInv DEF OtherStep, MCRestart, MCEnvironment, Next
<1>2. CASE UNCHANGED mcVars
  BY <1>2, NextIInv DEF mcVars
<1> QED
  BY <1>1, <1>2, StoreStepsIInv DEF MCNext, MCReconcileStep

-----------------------------------------------------------------------------
(* The store *)

LEMMA StageFacts ==
    ASSUME IInv, StoreOK
    PROVE  /\ NewStage \in Stage /\ NewStage # NotStaged
           /\ NewStage.desiredHash = desired.hash
           /\ NewStage.stagedAt = (IF Entry # NotStaged /\ Entry.desiredHash = desired.hash
                                   THEN Entry.stagedAt ELSE stamp + 1)
           /\ LastStamp \in Nat /\ stamp <= LastStamp /\ NewStage.stagedAt <= LastStamp
           /\ Dated(Entry)
<1>1. Dated(Entry)
  BY DEF StoreOK, Entry, Dated
<1>2. desired.hash \in Specs \cup {NotRendered}
  BY DEF IInv, TypeOK, LocalsOK, Desired
<1>3. Entry # NotStaged => Entry.stagedAt \in Nat
  BY <1>1 DEF Dated, Stage
<1>4. NewStage \in Stage
  BY <1>2, <1>3 DEF NewStage, Stage, StoreOK
<1>5. NewStage # NotStaged
  BY <1>4, RolloutAssumption DEF Stage
<1>6. /\ NewStage.desiredHash = desired.hash
      /\ NewStage.stagedAt = (IF Entry # NotStaged /\ Entry.desiredHash = desired.hash
                              THEN Entry.stagedAt ELSE stamp + 1)
  BY DEF NewStage
<1>7. NewStage.stagedAt \in Nat
  BY <1>4 DEF Stage
<1>8. LastStamp \in Nat /\ stamp <= LastStamp /\ NewStage.stagedAt <= LastStamp
  BY <1>7 DEF LastStamp, StoreOK
<1> QED
  BY <1>1, <1>4, <1>5, <1>6, <1>8

Surroundings == /\ mco \in BOOLEAN /\ selected \subseteq Pools /\ releasing \subseteq Pools
                /\ bypass \in BOOLEAN /\ bypassSeen \in BOOLEAN

LEMMA StoreKept ==
    ASSUME StoreInv, UNCHANGED staging, first' = first \/ first' = NotStaged, Surroundings' PROVE StoreInv'
<1> USE DEF staging
<1>1. StoreOK'
  BY DEF StoreInv, StoreOK, Surroundings, Dated
<1>2. MirrorIsConfigMap'
  BY DEF StoreInv, MirrorIsConfigMap
<1>3. FirstInv'
  BY DEF StoreInv, FirstInv, SameUpdate, Entry, StagedSinceKept
<1> QED
  BY <1>1, <1>2, <1>3 DEF StoreInv

LEMMA UnstageKeeps == ASSUME StoreInv, Unstage, first' = NotStaged, Surroundings' PROVE StoreInv'
<1>1. StoreOK'
  BY DEF StoreInv, StoreOK, Surroundings, Dated, Unstage
<1>2. MirrorIsConfigMap'
  BY DEF StoreInv, MirrorIsConfigMap, Unstage, Entry
<1>3. FirstInv'
  BY DEF FirstInv, StagedSinceKept
<1> QED
  BY <1>1, <1>2, <1>3 DEF StoreInv

LEMMA FailWriteKeeps ==
    ASSUME StoreInv, NEW e, FailWrite(e), first' = first \/ first' = NotStaged, Surroundings',
           stamp' \in Nat, stamp <= stamp', e = NotStaged \/ (e \in Stage /\ e.stagedAt <= stamp')
    PROVE  StoreInv'
<1>1. /\ loaded' = TRUE /\ mirror' = Entry /\ staged' = staged
      /\ UNCHANGED <<configMap, answerLost>> \/ (configMap' = e /\ answerLost' = TRUE)
  BY DEF FailWrite
<1>2. \A f : Dated(f) => f = NotStaged \/ (f \in Stage /\ f.stagedAt <= stamp')
  BY DEF StoreInv, StoreOK, Dated, Stage
<1>3. Dated(Entry)
  BY DEF StoreInv, StoreOK, Entry, Dated
<1>4. Dated(mirror)' /\ Dated(configMap)' /\ Dated(staged)' /\ Dated(first)'
  BY <1>1, <1>2, <1>3 DEF StoreInv, StoreOK, Dated
<1>5. loaded' \in BOOLEAN /\ answerLost' \in BOOLEAN
  BY <1>1 DEF StoreInv, StoreOK
<1>6. StoreOK'
  BY <1>4, <1>5 DEF StoreOK, Surroundings
<1>7. MirrorIsConfigMap'
  BY <1>1 DEF StoreInv, MirrorIsConfigMap, Entry
<1>8. Entry' = Entry
  BY <1>1 DEF Entry
<1>9. FirstInv'
  BY <1>1, <1>8 DEF StoreInv, FirstInv, SameUpdate, StagedSinceKept
<1> QED
  BY <1>6, <1>7, <1>9 DEF StoreInv

\* Staging an update again keeps its time because the entry at hand has it.
LEMMA DeferKeeps == ASSUME IInv, StoreInv, Defer PROVE StoreInv'
<1>1. /\ loaded' = TRUE /\ mirror' = NewStage /\ staged' = NewStage /\ stamp' = LastStamp
      /\ configMap' = IF Entry = NewStage THEN configMap ELSE NewStage
      /\ answerLost' = (answerLost /\ Entry = NewStage)
      /\ first' = IF first # NotStaged /\ first.desiredHash = desired.hash THEN first ELSE NewStage
      /\ UNCHANGED pools /\ bypassSeen' = FALSE
  BY DEF Defer
<1>2. /\ NewStage \in Stage /\ NewStage # NotStaged /\ NewStage.desiredHash = desired.hash
      /\ NewStage.stagedAt = (IF Entry # NotStaged /\ Entry.desiredHash = desired.hash
                              THEN Entry.stagedAt ELSE stamp + 1)
      /\ stamp' \in Nat /\ stamp <= stamp' /\ NewStage.stagedAt <= stamp'
  BY <1>1, StageFacts DEF StoreInv
<1>3. \A f : Dated(f) => f = NotStaged \/ (f \in Stage /\ f.stagedAt <= stamp')
  BY <1>2 DEF StoreInv, StoreOK, Dated, Stage
<1>4. Dated(mirror)' /\ Dated(configMap)' /\ Dated(staged)' /\ Dated(first)'
  BY <1>1, <1>2, <1>3 DEF StoreInv, StoreOK, Dated
<1>5. StoreOK'
  BY <1>1, <1>2, <1>4 DEF StoreInv, StoreOK, pools
<1>6. MirrorIsConfigMap'
  BY <1>1 DEF StoreInv, MirrorIsConfigMap, Entry
<1>7. Entry' = NewStage
  BY <1>1 DEF Entry
<1>8. CASE first # NotStaged /\ first.desiredHash = desired.hash
  <2>1. first' = first /\ SameUpdate(Entry)
    BY <1>1, <1>8 DEF StoreInv, FirstInv
  <2>2. NewStage.stagedAt = first.stagedAt /\ NewStage.desiredHash = first.desiredHash
    BY <1>2, <1>8, <2>1 DEF SameUpdate
  <2> QED
    BY <1>1, <1>2, <1>5, <1>6, <1>7, <2>1, <2>2 DEF StoreInv, FirstInv, SameUpdate, StagedSinceKept
<1>9. CASE ~(first # NotStaged /\ first.desiredHash = desired.hash)
  BY <1>1, <1>2, <1>5, <1>6, <1>7, <1>9 DEF StoreInv, FirstInv, SameUpdate, StagedSinceKept
<1> QED
  BY <1>8, <1>9

LEMMA MCRestartKeeps == ASSUME StoreInv, MCRestart PROVE StoreInv'
<1>1. /\ loaded' = FALSE /\ mirror' = NotStaged /\ staged' = NotStaged
      /\ bypassSeen' = FALSE /\ answerLost' = FALSE
      /\ first' = IF answerLost THEN NotStaged ELSE first
      /\ UNCHANGED <<pools, configMap, stamp>>
  BY DEF MCRestart
<1>2. StoreOK'
  BY <1>1 DEF StoreInv, StoreOK, Dated, pools
<1>3. MirrorIsConfigMap'
  BY <1>1 DEF MirrorIsConfigMap
<1>4. first' # NotStaged => Entry' = Entry /\ first' = first
  BY <1>1 DEF StoreInv, MirrorIsConfigMap, Entry
<1>5. FirstInv'
  BY <1>1, <1>4 DEF StoreInv, FirstInv, SameUpdate, StagedSinceKept
<1> QED
  BY <1>2, <1>3, <1>5 DEF StoreInv

LEMMA CoalesceFailedKeeps == ASSUME IInv, StoreInv, CoalesceFailed PROVE StoreInv'
<1>1. Surroundings'
  BY DEF CoalesceFailed, StoreInv, StoreOK, Surroundings, pools
<1>2. stamp \in Nat
  BY DEF StoreInv, StoreOK
<1>3. CASE UNCHANGED <<staging, first>>
  BY <1>1, <1>3, StoreKept
<1>4. CASE FailWrite(NotStaged) /\ first' = NotStaged /\ stamp' = stamp
  BY <1>1, <1>2, <1>4, FailWriteKeeps
<1>5. CASE FailWrite(NewStage) /\ first' = first /\ stamp' = LastStamp
  BY <1>1, <1>5, StageFacts, FailWriteKeeps DEF StoreInv
<1> QED
  BY <1>3, <1>4, <1>5 DEF CoalesceFailed

LEMMA ClearKeeps == ASSUME StoreInv, Clear \/ ClearFailed \/ MCCleanup PROVE StoreInv'
<1>1. Surroundings' /\ first' = NotStaged
  BY DEF Clear, ClearFailed, MCCleanup, StoreInv, StoreOK, Surroundings, pools
<1>2. CASE Unstage
  BY <1>1, <1>2, UnstageKeeps
<1>3. CASE UNCHANGED staging
  BY <1>1, <1>3, StoreKept
<1>4. CASE FailWrite(NotStaged) /\ stamp' = stamp
  BY <1>1, <1>4, FailWriteKeeps DEF StoreInv, StoreOK
<1>5. CASE Entry = NotStaged /\ loaded' = TRUE /\ mirror' = Entry /\ UNCHANGED <<configMap, staged, stamp, answerLost>>
  <2>1. StoreOK'
    BY <1>1, <1>5 DEF StoreInv, StoreOK, Surroundings, Dated
  <2>2. MirrorIsConfigMap'
    BY <1>5 DEF StoreInv, MirrorIsConfigMap, Entry
  <2>3. FirstInv'
    BY <1>1 DEF FirstInv, StagedSinceKept
  <2> QED
    BY <2>1, <2>2, <2>3 DEF StoreInv
<1> QED
  BY <1>2, <1>3, <1>4, <1>5 DEF Clear, ClearFailed, MCCleanup, ClearMachineConfigStaging, ClearingFails

LEMMA RolloutInvariant == MCSpec => [](IInv /\ StoreInv)
<1>1. MCInit => IInv /\ StoreInv
  <2> SUFFICES ASSUME MCInit PROVE IInv /\ StoreInv
    OBVIOUS
  <2>1. IInv
    BY InitIInv DEF MCInit
  <2>2. StoreInv
    BY DEF MCInit, StoreInv, StoreOK, Dated, MirrorIsConfigMap, FirstInv, StagedSinceKept
  <2> QED
    BY <2>1, <2>2
<1>2. IInv /\ StoreInv /\ [MCNext]_mcVars => (IInv /\ StoreInv)'
  <2> SUFFICES ASSUME IInv, StoreInv, [MCNext]_mcVars PROVE StoreInv'
    BY RolloutIInv
  <2> USE DEF pools, Surroundings
  <2>1. CASE OtherStep
    <3>1. UNCHANGED <<pools, staging, first>> /\ bypassSeen' \in BOOLEAN
      BY <2>1 DEF OtherStep, StoreInv, StoreOK
    <3> QED
      BY <3>1, StoreKept DEF StoreInv, StoreOK
  <2>2. CASE Release \/ MCEnvironment \/ UNCHANGED mcVars
    <3>1. UNCHANGED <<pools, staging, bypassSeen, first>>
      BY <2>2 DEF Release, MCEnvironment, mcVars, staging
    <3> QED
      BY <3>1, StoreKept DEF StoreInv, StoreOK
  <2>3. CASE ReleaseUnstaged
    <3>1. Unstage /\ first' = NotStaged /\ UNCHANGED <<pools, bypassSeen>>
      BY <2>3 DEF ReleaseUnstaged
    <3> QED
      BY <3>1, UnstageKeeps DEF StoreInv, StoreOK
  <2>4. CASE PoolsChange
    <3>1. UNCHANGED <<staging, bypassSeen, first>>
      BY <2>4 DEF PoolsChange
    <3>2. Surroundings'
      BY <2>4, <3>1 DEF PoolsChange, StoreInv, StoreOK
    <3> QED
      BY <3>1, <3>2, StoreKept
  <2> QED
    BY <2>1, <2>2, <2>3, <2>4, DeferKeeps, MCRestartKeeps, CoalesceFailedKeeps, ClearKeeps DEF MCNext, MCReconcileStep
<1> QED
  BY <1>1, <1>2, PTL DEF MCSpec

-----------------------------------------------------------------------------
(* Theorems *)

\* The staging store and the state of ReconcileAsset around it keep their ranges.
THEOREM RolloutTypeCorrect == MCSpec => []MCTypeOK
<1>1. IInv /\ StoreInv => MCTypeOK
  BY DEF IInv, StoreInv, StoreOK, Dated, MCTypeOK
<1> QED
  BY <1>1, RolloutInvariant, PTL

\* Only a write whose answer was lost separates the mirror from the ConfigMap.
THEOREM MirrorFollowsConfigMap == MCSpec => []MirrorIsConfigMap
<1>1. IInv /\ StoreInv => MirrorIsConfigMap
  BY DEF StoreInv
<1> QED
  BY <1>1, RolloutInvariant, PTL

\* A pending update keeps the time since which it is staged.
THEOREM StagedSinceIsKept == MCSpec => []StagedSinceKept
<1>1. IInv /\ StoreInv => StagedSinceKept
  BY DEF StoreInv, FirstInv
<1> QED
  BY <1>1, RolloutInvariant, PTL
-----------------------------------------------------------------------------
(* The pause protocol of Patcher, with the steps around the staging store *)

\* The steps around the store write neither the object nor a pause.
LEMMA StoreStepsWriteNothing ==
    ASSUME ReleaseUnstaged \/ Release \/ Defer \/ CoalesceFailed \/ Clear \/ ClearFailed \/ MCCleanup
    PROVE  obj' = obj /\ pauses' = pauses
<1> USE DEF cluster, history
<1>1. CASE ReleaseUnstaged \/ Release \/ Defer \/ CoalesceFailed
  BY <1>1 DEF ReleaseUnstaged, Release, Defer, CoalesceFailed
<1>2. CASE Clear \/ ClearFailed
  BY <1>2 DEF Clear, ClearFailed
<1>3. CASE MCCleanup
  BY <1>3 DEF MCCleanup, CleanupExcludedAsset
<1> QED
  BY <1>1, <1>2, <1>3

\* Every pause of a MachineConfig was announced on thrashing_total, also when the
\* update was held back and released in between (patcher.go, lines 476-490).
THEOREM RolloutPausesAnnounced == MCSpec => []EveryPauseAnnounced
<1>1. IInv /\ StoreInv => EveryPauseAnnounced
  BY DEF IInv, AlarmInv, EveryPauseAnnounced
<1> QED
  BY <1>1, RolloutInvariant, PTL

\* While the operator's pause is on a MachineConfig, no step of a reconcile writes
\* it: neither a released update nor one that bypasses staging (patcher.go, Step
\* 1.5, lines 223-236, is before coalesceMachineConfigUpdate).
RolloutHandsOff == [][MCReconcileStep /\ obj.paused = "operator" => obj' = obj]_mcVars

\* Staging and releasing an update never reach into a pause (lines 223-236).
THEOREM RolloutPauseRespected == MCSpec => RolloutHandsOff
<1>1. IInv /\ StoreInv /\ [MCNext]_mcVars
        => [MCReconcileStep /\ obj.paused = "operator" => obj' = obj]_mcVars
  <2> SUFFICES ASSUME IInv, MCReconcileStep, obj.paused = "operator" PROVE obj' = obj
    OBVIOUS
  <2>1. CASE OtherStep
    BY <2>1, WritersAreLate DEF OtherStep
  <2> QED
    BY <2>1, StoreStepsWriteNothing DEF MCReconcileStep
<1> QED
  BY <1>1, RolloutInvariant, PTL DEF MCSpec, RolloutHandsOff

\* After the user lifted the pause of a MachineConfig, an apply is tried before the
\* next pause, although the update may be staged first (lines 238-257).
THEOREM RolloutResumeHonoured == MCSpec => ResumeIsHonoured
<1>1. IInv /\ StoreInv /\ [MCNext]_mcVars => [pauses' > pauses => ~resumed]_vars
  <2> SUFFICES ASSUME IInv, [MCNext]_mcVars, pauses' > pauses PROVE ~resumed
    OBVIOUS
  <2>1. pauses \in Nat /\ pauses' # pauses
    <3>1. pauses \in Nat /\ pauses' \in Nat
      BY RolloutIInv DEF IInv, TypeOK, HistoryOK
    <3> QED
      BY <3>1
  <2>2. ~UNCHANGED mcVars /\ ~PoolsChange
    BY <2>1 DEF mcVars, vars, PoolsChange
  <2>3. ReconcileStep \/ Restart \/ Environment
    BY <2>1, <2>2, StoreStepsWriteNothing
       DEF MCNext, MCReconcileStep, OtherStep, MCRestart, MCEnvironment
  <2>4. pc = "annotate"
    BY <2>1, <2>3, PausesAtAnnotate DEF Next
  <2> QED
    BY <2>4 DEF IInv, ResumeInv
<1> QED
  BY <1>1, RolloutInvariant, PTL DEF MCSpec, ResumeIsHonoured

-----------------------------------------------------------------------------
(* The MachineConfig at rest: settled (AtRest of PatcherProofs), or with an     *)
(* update that is held back and reported                                        *)

\* There is an update to apply, and nothing but the pools in its way.
Drifting ==
    /\ golden # NotRendered /\ excluded = "no" /\ (Namespaced => nsExists)
    /\ obj.exists /\ ~IsPaused(obj) /\ ~obj.unmanaged /\ obj.override # "badIgnore"
    /\ Merge(obj, Effective(golden, obj)) # obj

Waiting == ~bypass /\ mco /\ selected # {} /\ selected \cap releasing = {}

\* The entry of the update is in the mirror and in the metric.
Reported ==
    /\ loaded /\ mirror = staged /\ staged # NotStaged /\ compliance = "deferred"
    /\ staged.desiredHash = Effective(golden, obj).hash /\ staged.matchingPools = selected

HeldAtRest ==
    /\ Drifting /\ Waiting /\ Reported
    /\ \/ pc = "idle"
       \/ pc = "get" /\ desired.spec = golden
       \/ pc \in {"drift", "coalesce"} /\ live = obj /\ UpToDate /\ ~bypassSeen

\* As Undisturbed, for the bypass annotation and the pools as well.
MCUndisturbed ==
    /\ Undisturbed /\ golden # NotRendered /\ excluded = "no"
    /\ pc \in {"drift", "coalesce"} =>
         /\ live = obj /\ bypassSeen = bypass
         /\ ~IsPaused(obj) /\ ~obj.unmanaged /\ obj.override # "badIgnore"
    /\ pc = "coalesce" => Drifting

\* A settled MachineConfig is not written again by itself, and stays settled
\* (RestIsKept, with the steps of machineconfig_coalescing.go).
RolloutRestIsKept ==
    [][AtRest /\ moves' = moves => AtRest' /\ obj' = obj /\ pauses' = pauses]_mcVars

\* While the pools stay as they are, every reconcile of an update that is held
\* back finds the same entry again: nothing is written, neither the object nor
\* the ConfigMap, and the update stays reported with the time since which it is
\* staged (machineconfig_coalescing.go 97-168).
HeldIsKept ==
    [][HeldAtRest /\ moves' = moves
         => HeldAtRest' /\ UNCHANGED <<obj, pauses, configMap, staged>>]_mcVars

\* From its start, a reconcile of a MachineConfig that nothing disturbs goes on, or
\* ends with the MachineConfig settled, or with its update held back and reported,
\* or was refused by an empty token bucket.
RolloutReconcileSettles ==
    [][(Begin \/ MCUndisturbed) /\ moves' = moves
         => \/ MCUndisturbed'
            \/ pc' = "idle" /\ (Settled' \/ HeldAtRest' \/ (pc = "namespace" /\ level = 0))]_mcVars

\* Without a disturbance, the operator takes a step or time passes.
LEMMA CalmMCNext ==
    ASSUME IInv, MCNext, moves' = moves
    PROVE  MCReconcileStep \/ (Refill /\ UNCHANGED <<pools, staging, bypassSeen, first>>)
<1>1. CASE MCEnvironment
  BY <1>1, CalmNext, CalmStep DEF MCEnvironment, Next, Environment, ForeignEdit, ForeignDelete, ForeignCreate,
     UserPause, UserResume, UserCustomize, UserExclude, Rerender, NamespaceToggled, WriteObject
<1> QED
  BY <1>1, CalmStep DEF MCNext, MCRestart, Restart, PoolsChange

\* The steps around the store leave the cluster alone, and end at the token bucket
\* or in the reconcile's return.
LEMMA StoreSteps ==
    ASSUME IInv, moves' = moves, MCReconcileStep
    PROVE  \/ OtherStep
           \/ pc = "coalesce" /\ UNCHANGED <<cluster, live, desired, conflict>> /\ pc' = "namespace"
              /\ ~Held
           \/ pc = "coalesce" /\ UNCHANGED cluster /\ pc' = "idle" /\ Defer
           \/ pc \in {"clear", "idle"} /\ UNCHANGED cluster /\ pc' = "idle" /\ (Clear \/ MCCleanup)
<1>1. ~CoalesceFailed /\ ~ClearFailed
  BY CalmStep DEF CoalesceFailed, ClearFailed
<1>2. CASE ReleaseUnstaged \/ Release
  BY <1>2 DEF ReleaseUnstaged, Release, Goto, Held
<1>3. CASE Defer
  BY <1>3 DEF Defer, Held, Return
<1>4. CASE Clear
  BY <1>4 DEF Clear, Succeed, Return
<1>5. CASE MCCleanup
  BY <1>5 DEF MCCleanup, CleanupExcludedAsset, locals
<1> QED
  BY <1>1, <1>2, <1>3, <1>4, <1>5 DEF MCReconcileStep

LEMMA MCReconcileAtRest ==
    ASSUME IInv, MCReconcileStep, moves' = moves, AtRest
    PROVE  AtRest' /\ obj' = obj /\ pauses' = pauses
<1>1. CASE OtherStep
  BY <1>1, ReconcileAtRest DEF OtherStep
<1>2. CASE ~OtherStep
  <2>1. /\ UNCHANGED cluster
        /\ pc' = "idle" \/ (pc = "coalesce" /\ pc' = "namespace")
    BY <1>2, StoreSteps
  <2>2. Settled'
    BY <2>1, RestIsSettled DEF Settled, InSync, cluster
  <2>3. pc = "coalesce" => Namespaced /\ ~nsExists
    BY DEF AtRest
  <2>4. AtRest'
    BY <2>1, <2>2, <2>3 DEF AtRest, cluster
  <2> QED
    BY <1>2, <2>4, StoreStepsWriteNothing DEF MCReconcileStep
<1> QED
  BY <1>1, <1>2

\* What is staged again while nothing changes is the entry at hand.
LEMMA SameStage ==
    ASSUME IInv, StoreInv, Reported, UpToDate
    PROVE  Entry = staged /\ NewStage = staged
<1>1. Entry = staged /\ staged \in Stage /\ staged # NotStaged
  BY DEF Reported, Entry, StoreInv, StoreOK, Dated
<1>2. NewStage = [stagedAt |-> staged.stagedAt, desiredHash |-> staged.desiredHash,
                  matchingPools |-> staged.matchingPools]
  BY <1>1 DEF NewStage, Reported, UpToDate
<1> QED
  BY <1>1, <1>2 DEF Stage

\* The cluster and the report of a held update, from one state to the next.
LEMMA HeldCarries ==
    ASSUME Drifting, Waiting, Reported,
           UNCHANGED <<cluster, pools, loaded, mirror, staged, compliance>>
    PROVE  Drifting' /\ Waiting' /\ Reported'
  BY DEF Drifting, Waiting, Reported, cluster, pools

\* The steps of a reconcile while the update is held back.
LEMMA MCReconcileHeld ==
    ASSUME IInv, StoreInv, MCReconcileStep, moves' = moves, HeldAtRest
    PROVE  HeldAtRest' /\ UNCHANGED <<obj, pauses, configMap, staged>>
<1> USE CalmStep
<1>0. Drifting /\ Waiting /\ Reported
  BY DEF HeldAtRest
<1>1. CASE OtherStep
  <2>1. /\ ReconcileStep /\ UNCHANGED <<pools, staging>>
        /\ bypassSeen' = (pc' # "idle" /\ IF pc = "get" THEN bypass ELSE bypassSeen)
    BY <1>1 DEF OtherStep
  <2>2. CASE pc = "idle"
    <3>1. Begin
      BY <1>0, <2>1, <2>2, StepsAt DEF Drifting, SkipNotRendered, SkipExcluded, Cleanup, CleanupExcludedAsset
    <3>2. UNCHANGED <<cluster, gauges, pauses>> /\ pc' = "get" /\ desired'.spec = golden
      BY <3>1 DEF Begin, history
    <3>3. Drifting' /\ Waiting' /\ Reported'
      BY <1>0, <2>1, <3>2, HeldCarries DEF staging, gauges
    <3> QED
      BY <2>1, <3>2, <3>3 DEF HeldAtRest, cluster, staging
  <2>3. CASE pc = "get"
    <3>1. GetManaged
      BY <1>0, <2>1, <2>3, StepsAt DEF Drifting, GetFailed, GetPaused, GetUnmanaged, GetUnmaskable, GetMissing
    <3>2. /\ UNCHANGED <<cluster, compliance, pauses>> /\ pc' = "drift" /\ live' = obj
          /\ desired' = Effective(desired.spec, obj)
      BY <3>1 DEF GetManaged
    <3>3. Drifting' /\ Waiting' /\ Reported'
      BY <1>0, <2>1, <3>2, HeldCarries DEF staging
    <3>4. ~bypassSeen' /\ desired.spec = golden
      BY <1>0, <2>1, <2>3 DEF HeldAtRest, Waiting
    <3> QED
      BY <2>1, <3>2, <3>3, <3>4 DEF HeldAtRest, UpToDate, cluster, staging
  <2>4. CASE pc = "drift"
    <3>1. live = obj /\ UpToDate /\ ~bypassSeen
      BY <2>4 DEF HeldAtRest
    <3>2. Drifted
      BY <1>0, <2>1, <2>4, <3>1, StepsAt DEF Drifting, DryRunFailed, NoDrift, DriftDetected, UpToDate
    <3>3. /\ UNCHANGED <<cluster, gauges, pauses, live, desired>> /\ pc' = "coalesce"
      BY <3>2, RolloutAssumption DEF Drifted, Goto, history
    <3>4. Drifting' /\ Waiting' /\ Reported'
      BY <1>0, <2>1, <3>3, HeldCarries DEF staging, gauges
    <3> QED
      BY <2>1, <2>4, <3>1, <3>3, <3>4 DEF HeldAtRest, UpToDate, cluster, staging
  <2> QED
    BY <2>1, <2>2, <2>3, <2>4, StepsAt DEF HeldAtRest
<1>2. CASE pc = "coalesce" /\ ~OtherStep
  <2>1. UpToDate /\ ~bypassSeen
    BY <1>2 DEF HeldAtRest
  <2>2. Held
    BY <1>0, <1>2, <2>1 DEF Held, Bypassed, Waiting, PoolReleases
  <2>3. Defer
    BY <1>2, <2>2, StoreSteps
  <2>4. Entry = staged /\ NewStage = staged
    BY <1>0, <2>1, SameStage
  <2>5. /\ UNCHANGED <<cluster, pools, configMap, staged, pauses, loaded, mirror, compliance>>
        /\ pc' = "idle"
    BY <1>0, <2>3, <2>4 DEF Defer, Return, Reported, history
  <2> QED
    BY <1>0, <2>5, HeldCarries DEF HeldAtRest, cluster
<1>3. CASE pc # "coalesce" /\ ~OtherStep
  <2>1. MCCleanup
    BY <1>3, StoreSteps DEF HeldAtRest, Clear
  <2> QED
    BY <1>0, <2>1 DEF MCCleanup, CleanupExcludedAsset, Drifting
<1> QED
  BY <1>1, <1>2, <1>3

\* No step of ReconcileAsset changes what is rendered, excluded or served.
LEMMA ReconcileKeepsWorld == ReconcileStep => UNCHANGED <<golden, excluded, nsExists>>
  BY DEF ReconcileStep, SkipNotRendered, SkipExcluded, Cleanup, CleanupExcludedAsset, Begin, GetFailed,
     GetPaused, GetUnmanaged, GetUnmaskable, GetManaged, GetMissing, DryRunFailed, NoDrift, Drifted,
     NamespaceUnknown, NamespaceMissing, Admitted, Throttled, WarDetected, Applied, ApplyFailed,
     ApplyNoNamespace, FreshCopyRead, FreshCopyFailed, Annotated, AnnotateFailed, AnnotateConflict,
     vars, cluster

\* The steps of a reconcile that nothing disturbs.
LEMMA MCReconcileUndisturbed ==
    ASSUME IInv, StoreInv, MCReconcileStep, moves' = moves, MCUndisturbed
    PROVE  \/ MCUndisturbed'
           \/ pc' = "idle" /\ (Settled' \/ HeldAtRest' \/ (pc = "namespace" /\ level = 0))
<1>0. Undisturbed /\ golden # NotRendered /\ excluded = "no"
  BY DEF MCUndisturbed
<1>1. CASE OtherStep
  <2>1. /\ ReconcileStep /\ UNCHANGED pools
        /\ bypassSeen' = (pc' # "idle" /\ IF pc = "get" THEN bypass ELSE bypassSeen)
    BY <1>1 DEF OtherStep
  <2>2. Undisturbed' \/ (pc' = "idle" /\ (Settled' \/ (pc = "namespace" /\ level = 0)))
    BY <1>0, <2>1, ReconcileUndisturbed
  <2>3. golden' # NotRendered /\ excluded' = "no"
    BY <1>0, <2>1, ReconcileKeepsWorld
  <2>4. CASE pc' = "drift" /\ Undisturbed'
    <3>1. GetManaged
      BY <2>1, <2>4, StepsAt, CalmStep
         DEF SkipNotRendered, SkipExcluded, Cleanup, CleanupExcludedAsset, Begin, GetFailed, GetPaused,
             GetUnmanaged, GetUnmaskable, GetMissing, DryRunFailed, NoDrift, Drifted, NamespaceUnknown,
             NamespaceMissing, Admitted, Throttled, WarDetected, Applied, Succeed, ApplyFailed, ApplyNoNamespace,
             FreshCopyRead, FreshCopyFailed, Annotated, AnnotateFailed, AnnotateConflict, Return, Goto, locals, vars
    <3>2. bypassSeen' = bypass' /\ live' = obj' /\ obj' = obj
      BY <2>1, <2>4, <3>1 DEF GetManaged, pools, cluster, StoreInv, StoreOK
    <3>3. (~IsPaused(obj) /\ ~obj.unmanaged /\ obj.override # "badIgnore")'
      BY <3>1, <3>2 DEF GetManaged
    <3> QED
      BY <2>3, <2>4, <3>2, <3>3 DEF MCUndisturbed
  <2>5. CASE pc' = "coalesce" /\ Undisturbed'
    <3>1. Drifted
      BY <2>1, <2>5, StepsAt, CalmStep
         DEF SkipNotRendered, SkipExcluded, Cleanup, CleanupExcludedAsset, Begin, GetFailed, GetPaused,
             GetUnmanaged, GetUnmaskable, GetManaged, GetMissing, DryRunFailed, NoDrift, NamespaceUnknown,
             NamespaceMissing, Admitted, Throttled, WarDetected, Applied, Succeed, ApplyFailed, ApplyNoNamespace,
             FreshCopyRead, FreshCopyFailed, Annotated, AnnotateFailed, AnnotateConflict, Return, Goto, locals, vars
    <3>2. /\ live = obj /\ obj.exists /\ UpToDate /\ bypassSeen = bypass
          /\ ~IsPaused(obj) /\ ~obj.unmanaged /\ obj.override # "badIgnore"
      BY <1>0, <3>1 DEF MCUndisturbed, Undisturbed, Drifted
    <3>3. Drifting
      BY <1>0, <3>1, <3>2 DEF Drifting, Drifted, DriftDetected, UpToDate
    <3>4. UNCHANGED <<cluster, live>> /\ bypassSeen' = bypass'
      BY <2>1, <2>5, <3>1, <3>2 DEF Drifted, Goto, pools, StoreInv, StoreOK
    <3>5. Drifting' /\ live' = obj' /\ (~IsPaused(obj) /\ ~obj.unmanaged /\ obj.override # "badIgnore")'
      BY <3>2, <3>3, <3>4 DEF Drifting, cluster
    <3> QED
      BY <2>3, <2>5, <3>4, <3>5 DEF MCUndisturbed
  <2> QED
    BY <2>2, <2>3, <2>4, <2>5 DEF MCUndisturbed
<1>2. CASE pc = "coalesce" /\ ~OtherStep
  <2>1. /\ live = obj /\ bypassSeen = bypass /\ Drifting
        /\ UpToDate /\ (live.exists => obj.exists)
    BY <1>0, <1>2 DEF MCUndisturbed, Undisturbed
  <2>2. CASE UNCHANGED <<cluster, live, desired, conflict>> /\ pc' = "namespace"
    <3>1. Undisturbed'
      BY <2>1, <2>2 DEF Undisturbed, UpToDate, cluster
    <3> QED
      BY <1>0, <2>2, <3>1 DEF MCUndisturbed, cluster
  <2>3. CASE Defer
    <3>1. /\ UNCHANGED <<cluster, pools>> /\ pc' = "idle" /\ compliance' = "deferred"
          /\ loaded' = TRUE /\ mirror' = NewStage /\ staged' = NewStage /\ Held
      BY <2>3 DEF Defer, Return
    <3>2. NewStage # NotStaged /\ NewStage.desiredHash = desired.hash /\ NewStage.matchingPools = selected
      BY StageFacts DEF StoreInv, NewStage
    <3>3. Waiting
      BY <2>1, <3>1 DEF Held, Bypassed, Waiting, PoolReleases
    <3>4. Drifting' /\ Waiting'
      BY <2>1, <3>1, <3>3 DEF Drifting, Waiting, cluster, pools
    <3>5. Reported'
      BY <2>1, <3>1, <3>2 DEF Reported, UpToDate, cluster, pools
    <3> QED
      BY <3>1, <3>4, <3>5 DEF HeldAtRest
  <2> QED
    BY <1>2, <2>2, <2>3, StoreSteps
<1>3. CASE pc # "coalesce" /\ ~OtherStep
  <2>1. pc = "clear" /\ UNCHANGED cluster /\ pc' = "idle"
    BY <1>0, <1>3, StoreSteps DEF Undisturbed
  <2>2. InSync'
    BY <1>0, <2>1 DEF Undisturbed, InSync, cluster
  <2> QED
    BY <2>1, <2>2 DEF Settled
<1> QED
  BY <1>1, <1>2, <1>3

\* Time matters to none of these.
LEMMA MCRefillIsHarmless ==
    ASSUME \/ Refill /\ UNCHANGED <<pools, staging, bypassSeen, first>>
           \/ UNCHANGED mcVars
    PROVE  /\ AtRest => AtRest' /\ obj' = obj /\ pauses' = pauses
           /\ HeldAtRest => HeldAtRest' /\ UNCHANGED <<obj, pauses, configMap, staged>>
           /\ MCUndisturbed => MCUndisturbed'
<1>1. Refill \/ UNCHANGED vars
  BY DEF mcVars
<1>2. UNCHANGED <<cluster, locals, pauses, compliance, pools, bypassSeen, loaded, mirror, staged, configMap>>
  BY DEF Refill, mcVars, vars, cluster, locals, gauges, history, pools, staging
<1>3. Drifting => Drifting'
  BY <1>2 DEF Drifting, cluster
<1>4. HeldAtRest => HeldAtRest'
  BY <1>2, <1>3, HeldCarries DEF HeldAtRest, UpToDate, cluster, locals
<1>5. MCUndisturbed => MCUndisturbed'
  BY <1>1, <1>2, <1>3, RefillIsHarmless DEF MCUndisturbed, cluster, locals, pools
<1> QED
  BY <1>1, <1>2, <1>4, <1>5, RefillIsHarmless DEF cluster

\* RolloutRestIsKept for all pools: staging, releasing and unstaging never reopen
\* a MachineConfig that is settled.
THEOREM RolloutRestKept == MCSpec => RolloutRestIsKept
<1>1. IInv /\ StoreInv /\ [MCNext]_mcVars
        => [AtRest /\ moves' = moves => AtRest' /\ obj' = obj /\ pauses' = pauses]_mcVars
  BY CalmMCNext, MCReconcileAtRest, MCRefillIsHarmless
<1> QED
  BY <1>1, RolloutInvariant, PTL DEF MCSpec, RolloutRestIsKept

\* HeldIsKept: an update that is held back costs no write, keeps its StagedAt and
\* stays reported until something else happens.
THEOREM HeldKept == MCSpec => HeldIsKept
<1>1. IInv /\ StoreInv /\ [MCNext]_mcVars
        => [HeldAtRest /\ moves' = moves
              => HeldAtRest' /\ UNCHANGED <<obj, pauses, configMap, staged>>]_mcVars
  BY CalmMCNext, MCReconcileHeld, MCRefillIsHarmless
<1> QED
  BY <1>1, RolloutInvariant, PTL DEF MCSpec, HeldIsKept

LEMMA MCBeginsUndisturbed == ASSUME Begin PROVE MCUndisturbed'
<1>1. Undisturbed'
  BY BeginsUndisturbed
<1> QED
  BY <1>1 DEF Begin, MCUndisturbed, cluster

\* RolloutReconcileSettles: what one undisturbed run of ReconcileAsset achieves for
\* a MachineConfig.
THEOREM RolloutReconcileIsEffective == MCSpec => RolloutReconcileSettles
<1>1. IInv /\ StoreInv /\ [MCNext]_mcVars
        => [(Begin \/ MCUndisturbed) /\ moves' = moves
              => \/ MCUndisturbed'
                 \/ pc' = "idle" /\ (Settled' \/ HeldAtRest' \/ (pc = "namespace" /\ level = 0))]_mcVars
  BY CalmMCNext, MCBeginsUndisturbed, MCReconcileUndisturbed, MCRefillIsHarmless
<1> QED
  BY <1>1, RolloutInvariant, PTL DEF MCSpec, RolloutReconcileSettles

LEMMA RestIsReported == AtRest \/ HeldAtRest => Settled \/ (staged # NotStaged /\ compliance = "deferred")
  BY RestIsSettled DEF HeldAtRest, Reported

\* What is left of HeldMeansStaged for the model checker is only that, once the
\* disturbances have ended, the MachineConfig is settled or its update held back.
THEOREM RestIsReportedForGood ==
    MCSpec /\ <>((AtRest \/ HeldAtRest) /\ [][moves' = moves]_mcVars) => HeldMeansStaged
<1>1. /\ AtRest \/ HeldAtRest
      /\ [moves' = moves]_mcVars
      /\ [AtRest /\ moves' = moves => AtRest' /\ obj' = obj /\ pauses' = pauses]_mcVars
      /\ [HeldAtRest /\ moves' = moves => HeldAtRest' /\ UNCHANGED <<obj, pauses, configMap, staged>>]_mcVars
      => (AtRest \/ HeldAtRest)'
  BY MCRefillIsHarmless
<1> QED
  BY RolloutRestKept, HeldKept, RestIsReported, <1>1, PTL DEF RolloutRestIsKept, HeldIsKept, HeldMeansStaged

\* What is left of RolloutReleases for the model checker is only that an update that
\* may go is applied once: after that the MachineConfig is settled for good.
THEOREM ReleasedForGood == MCSpec /\ <>(AtRest /\ [][moves' = moves]_mcVars) => RolloutReleases
<1>1. /\ AtRest /\ [moves' = moves]_mcVars
      /\ [AtRest /\ moves' = moves => AtRest' /\ obj' = obj /\ pauses' = pauses]_mcVars
      => AtRest'
  BY MCRefillIsHarmless
<1> QED
  BY RolloutRestKept, RestIsSettled, <1>1, PTL DEF RolloutRestIsKept, RolloutReleases
=============================================================================
