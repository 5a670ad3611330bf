------------------------ MODULE MachineConfigRollout ------------------------
(***************************************************************************)
(* pkg/engine/machineconfig_coalescing.go around ReconcileAsset, for one   *)
(* MachineConfig: an update of an existing MachineConfig is staged until a *)
(* matching pool is rolling out anyway.  What is staged is kept in a       *)
(* ConfigMap and mirrored in memory; the mirror is filled from the         *)
(* ConfigMap once, on first use after a start.                             *)
(***************************************************************************)
EXTENDS Patcher

CONSTANTS Pools,      \* MachineConfigPools
          NotStaged   \* no entry

ASSUME RolloutAssumption ==
    /\ IsMachineConfig
    /\ NotStaged \notin [stagedAt : Nat, desiredHash : Specs \cup {NotRendered}, matchingPools : SUBSET Pools]

VARIABLES
    \* the cluster
    mco,            \* the MachineConfigPool kind is served
    selected,       \* pools whose selector matches the live or the desired labels
    releasing,      \* pools with Updating or RenderDegraded
    bypass,         \* machineConfigCoalescingBypassed, from the annotations
    configMap,      \* the entry in the staging ConfigMap
    \* the operator's memory
    mirror, loaded, \* machineConfigStagingStore
    bypassSeen,     \* bypass as read with the live object
    staged,         \* the machineconfig_update_staged series, or NotStaged
    \* history
    stamp,          \* the last StagedAt handed out
    answerLost,     \* a write to the ConfigMap since the start has an unknown fate
    first           \* the entry first reported for the update now pending

pools   == <<mco, selected, releasing, bypass>>
staging == <<configMap, mirror, loaded, staged, stamp, answerLost>>
mcVars == <<vars, mco, selected, releasing, bypass, configMap, mirror, loaded, bypassSeen,
            staged, stamp, answerLost, first>>

Stage == [stagedAt : Nat, desiredHash : Specs \cup {NotRendered}, matchingPools : SUBSET Pools]

MCInit ==
    /\ Init
    /\ mco = TRUE /\ selected \in SUBSET Pools /\ releasing = {} /\ bypass = FALSE
    /\ configMap = NotStaged /\ mirror = NotStaged /\ loaded = FALSE
    /\ bypassSeen = FALSE /\ staged = NotStaged
    /\ stamp = 0 /\ answerLost = FALSE /\ first = NotStaged

-----------------------------------------------------------------------------
(* The staging store *)

\* loadMachineConfigStaging: the entry the operator works with.
Entry == IF loaded THEN mirror ELSE configMap

\* unstageMachineConfigUpdate; the ConfigMap is only written if an entry is known.
Unstage ==
    /\ loaded' = TRUE /\ mirror' = NotStaged /\ staged' = NotStaged
    /\ configMap' = IF Entry = NotStaged THEN configMap ELSE NotStaged
    /\ answerLost' = (answerLost /\ Entry = NotStaged)
    /\ stamp' = stamp

\* The mirror changes with the request rather than with its answer.
FailWrite_MirrorFirst(e) ==
    /\ loaded' = TRUE /\ mirror' = e
    /\ \/ UNCHANGED <<configMap, answerLost>>
       \/ configMap' = e /\ answerLost' = TRUE
    /\ staged' = staged

\* The ConfigMap was loaded, but writing the entry e failed, or seemed to.
FailWrite(e) ==
    /\ loaded' = TRUE /\ mirror' = Entry
    /\ \/ UNCHANGED <<configMap, answerLost>>
       \/ configMap' = e /\ answerLost' = TRUE
    /\ staged' = staged

-----------------------------------------------------------------------------
(* coalesceMachineConfigUpdate *)

\* The administrator's or the HCO's annotation says so, or no pool matches.
Bypassed == bypassSeen \/ (mco /\ selected = {})

\* Waiting for every matching pool.
PoolReleases_All == selected \subseteq releasing

\* The first matching pool that is rolling out, or cannot render, wins.
PoolReleases == selected \cap releasing # {}

\* Bypass, or no pool cares: unstage and go on.
ReleaseUnstaged ==
    /\ pc = "coalesce" /\ Bypassed
    /\ Unstage
    /\ first' = NotStaged
    /\ Goto("namespace")
    /\ UNCHANGED <<cluster, gate, gauges, history, pools, bypassSeen>>

\* A release that drops the entry before the update has been applied.
Release_Unstages ==
    /\ pc = "coalesce" /\ ~Bypassed
    /\ mco => PoolReleases
    /\ Unstage
    /\ Goto("namespace")
    /\ UNCHANGED <<cluster, gate, gauges, history, pools, bypassSeen, first>>

\* No MCO, or a matching pool lets the update through: the entry is kept.
Release ==
    /\ pc = "coalesce" /\ ~Bypassed
    /\ mco => PoolReleases
    /\ Goto("namespace")
    /\ UNCHANGED <<cluster, gate, gauges, history, pools, bypassSeen, staging, first>>

\* The entry that staging this update writes: a known update keeps its StagedAt.
NewStage ==
    [stagedAt      |-> IF Entry # NotStaged /\ Entry.desiredHash = desired.hash
                       THEN Entry.stagedAt ELSE stamp + 1,
     desiredHash   |-> desired.hash,
     matchingPools |-> selected]

LastStamp == IF NewStage.stagedAt > stamp THEN NewStage.stagedAt ELSE stamp

Held == pc = "coalesce" /\ ~Bypassed /\ mco /\ ~PoolReleases

\* An entry that is already known is not reported again.
Defer_KnownSilently ==
    /\ Held
    /\ loaded' = TRUE /\ mirror' = NewStage
    /\ staged' = IF Entry = NewStage THEN staged ELSE NewStage
    /\ configMap' = IF Entry = NewStage THEN configMap ELSE NewStage
    /\ answerLost' = (answerLost /\ Entry = NewStage)
    /\ stamp' = LastStamp
    /\ first' = IF first # NotStaged /\ first.desiredHash = desired.hash THEN first ELSE NewStage
    /\ compliance' = "deferred"
    /\ Return
    /\ UNCHANGED <<cluster, gate, pausedGauge, customization, history, pools>>
    /\ bypassSeen' = FALSE

\* The update is staged; an unchanged entry is not written again.
Defer ==
    /\ Held
    /\ loaded' = TRUE /\ mirror' = NewStage /\ staged' = NewStage
    /\ configMap' = IF Entry = NewStage THEN configMap ELSE NewStage
    /\ answerLost' = (answerLost /\ Entry = NewStage)
    /\ stamp' = LastStamp
    /\ first' = IF first # NotStaged /\ first.desiredHash = desired.hash THEN first ELSE NewStage
    /\ compliance' = "deferred"
    /\ Return
    /\ UNCHANGED <<cluster, gate, pausedGauge, customization, history, pools>>
    /\ bypassSeen' = FALSE

\* Listing the pools, loading the ConfigMap or writing it fails.
CoalesceFailed ==
    /\ pc = "coalesce" /\ Disturb
    /\ \/ UNCHANGED <<staging, first>>
       \/ Bypassed /\ Entry # NotStaged /\ FailWrite(NotStaged)
            /\ first' = NotStaged /\ stamp' = stamp
       \/ Held /\ Entry # NewStage /\ FailWrite(NewStage)
            /\ first' = first /\ stamp' = LastStamp
    /\ Return
    /\ bypassSeen' = FALSE
    /\ UNCHANGED <<cluster, gate, gauges, alarms, pauses, held, resumed, foreign, pools>>

-----------------------------------------------------------------------------
(* clearMachineConfigStaging, after the apply or in CleanupExcludedAsset *)

ClearMachineConfigStaging ==
    IF Entry = NotStaged
    THEN loaded' = TRUE /\ mirror' = Entry /\ UNCHANGED <<configMap, staged, stamp, answerLost>>
    ELSE Unstage

ClearingFails == UNCHANGED staging \/ (Entry # NotStaged /\ FailWrite(NotStaged) /\ stamp' = stamp)

Clear ==
    /\ pc = "clear"
    /\ ClearMachineConfigStaging
    /\ Succeed
    /\ first' = NotStaged
    /\ bypassSeen' = FALSE
    /\ UNCHANGED <<cluster, level, compliance, customization, alarms, pauses, resumed, moves, pools>>

\* The failure is logged, and the reconcile succeeds all the same.
ClearFailed ==
    /\ pc = "clear" /\ Disturb
    /\ ClearingFails
    /\ Succeed
    /\ first' = NotStaged
    /\ bypassSeen' = FALSE
    /\ UNCHANGED <<cluster, level, compliance, customization, alarms, pauses, resumed, pools>>

\* CleanupExcludedAsset drops the entry as well; a failure is logged.
MCCleanup ==
    /\ CleanupExcludedAsset
    /\ \/ ClearMachineConfigStaging /\ moves' = moves
       \/ ClearingFails /\ Disturb
    /\ first' = NotStaged
    /\ UNCHANGED <<pools, bypassSeen>>

-----------------------------------------------------------------------------
(* The rest of ReconcileAsset, restarts and the environment *)

\* The bypass annotation is read with the live object (and the HCO).
OtherStep ==
    /\ ReconcileStep
    /\ bypassSeen' = (pc' # "idle" /\ IF pc = "get" THEN bypass ELSE bypassSeen)
    /\ UNCHANGED <<pools, staging, first>>

\* What is staged is then what the ConfigMap holds.
MCRestart ==
    /\ Restart
    /\ loaded' = FALSE /\ mirror' = NotStaged /\ staged' = NotStaged
    /\ bypassSeen' = FALSE /\ answerLost' = FALSE
    /\ first' = IF answerLost THEN NotStaged ELSE first
    /\ UNCHANGED <<pools, configMap, stamp>>

MCEnvironment == Environment /\ UNCHANGED <<pools, staging, bypassSeen, first>>

\* Pools start or end rollouts, are relabelled, the MCO comes or goes, or the
\* administrator sets or removes the bypass annotation.
PoolsChange ==
    /\ Disturb
    /\ \/ \E p \in Pools : releasing' = (IF p \in releasing THEN releasing \ {p} ELSE releasing \cup {p})
                          /\ UNCHANGED <<mco, selected, bypass>>
       \/ \E p \in Pools : selected' = (IF p \in selected THEN selected \ {p} ELSE selected \cup {p})
                          /\ UNCHANGED <<mco, releasing, bypass>>
       \/ mco' = ~mco /\ UNCHANGED <<selected, releasing, bypass>>
       \/ bypass' = ~bypass /\ UNCHANGED <<mco, selected, releasing>>
    /\ UNCHANGED <<cluster, locals, gate, gauges, alarms, pauses, held, resumed, foreign,
                   staging, bypassSeen, first>>

MCReconcileStep ==
    \/ OtherStep
    \/ ReleaseUnstaged \/ Release \/ Defer \/ CoalesceFailed
    \/ Clear \/ ClearFailed \/ MCCleanup

MCNext == MCReconcileStep \/ MCRestart \/ MCEnvironment \/ PoolsChange

\* As for Patcher: reconciles keep coming, and time refills the bucket.
MCSpec ==
    /\ MCInit /\ [][MCNext]_mcVars
    /\ WF_mcVars(MCReconcileStep)
    /\ WF_mcVars(Refill /\ UNCHANGED <<pools, staging, bypassSeen, first>>)

-----------------------------------------------------------------------------
(* Properties *)

\* Values of the variables; StagedAt is never later than the present.
MCTypeOK ==
    /\ TypeOK
    /\ mco \in BOOLEAN /\ selected \subseteq Pools /\ releasing \subseteq Pools
    /\ bypass \in BOOLEAN /\ bypassSeen \in BOOLEAN /\ loaded \in BOOLEAN
    /\ answerLost \in BOOLEAN /\ stamp \in Nat
    /\ \A e \in {configMap, mirror, staged, first} :
         e = NotStaged \/ (e \in Stage /\ e.stagedAt <= stamp)

\* The mirror is authoritative once loaded (lines 72-76), unless the answer to a
\* write was lost: no failed write and no restart separates it from the ConfigMap.
MirrorIsConfigMap == loaded /\ ~answerLost => mirror = configMap

\* The time since which an update is reported as staged stays the same until the
\* update is applied or staging is bypassed: it survives failed writes, a release
\* that the token bucket refuses, and restarts, but for one after a write whose
\* answer was lost (lines 127-131).
StagedSinceKept ==
    staged # NotStaged /\ first # NotStaged /\ staged.desiredHash = first.desiredHash
      => staged.stagedAt = first.stagedAt

\* An update is let through when a matching pool keeps rolling out, when staging
\* is bypassed, and where there is no pool to wait for.
RolloutReleases ==
    <>[](bypass \/ ~mco \/ selected = {} \/ selected \cap releasing # {}) => <>[]Settled

\* Once disturbances end, a MachineConfig that is not as it should be is one
\* whose update is reported as staged: nothing is held back silently.
HeldMeansStaged == <>[](Settled \/ (staged # NotStaged /\ compliance = "deferred"))

\* docs/machineconfig-rollout-coalescing.md line 164: "While an update is staged,
\* compliance_status for that MachineConfig reports 2 (Staged) rather than 1".
StagedMeansDeferred == <>[](staged # NotStaged => compliance # "synced")
=============================================================================
