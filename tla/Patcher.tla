------------------------------ MODULE Patcher ------------------------------
(***************************************************************************)
(* pkg/engine/patcher.go: ReconcileAsset for one asset, one action per     *)
(* request to the API server, with the local work around it.  Reconciles   *)
(* of one operator never overlap (a single worker behind leader election), *)
(* but anything may happen to the cluster between two requests, requests   *)
(* fail, answers get lost, and the operator restarts.                      *)
(*                                                                         *)
(* The asset is one spec value.  Of the annotations only those that the    *)
(* patcher reads are kept.  Reads are reads of the API server: the manager *)
(* client does not serve unstructured objects from its cache.              *)
(***************************************************************************)
EXTENDS Integers

CONSTANTS Capacity,      \* DefaultCapacity of the token bucket
          Threshold,     \* ThrashingThreshold of the detector
          Goldens,       \* specs the template can render
          Overrides,     \* user customizations that occur (see AllOverrides)
          NotRendered,   \* the template renders nothing (desired == nil)
          Applicable,    \* FALSE if the template may also render nothing
          Namespaced,    \* the asset lives in a namespace
          IsMachineConfig,  \* the asset is a MachineConfig (see MachineConfigRollout)
          MaxMoves       \* bound on disturbances: foreign writes, faults, restarts

(***************************************************************************)
(* Customization annotations of a live object.  "patch": a JSON patch that *)
(* applies; "rejectedPatch": one that ValidateAnnotations refuses;         *)
(* "misfitPatch": one that passes but does not apply; "ignore": the spec   *)
(* is an ignored field; "badIgnore": a pointer that cannot be followed.    *)
(***************************************************************************)
AllOverrides == {"none", "patch", "rejectedPatch", "misfitPatch", "ignore", "badIgnore"}

ASSUME PatcherAssumption ==
    /\ Capacity \in Nat \ {0} /\ Threshold \in Nat \ {0} /\ MaxMoves \in Nat
    /\ "none" \in Overrides /\ Overrides \subseteq AllOverrides
    /\ {NotRendered, "edited", "custom"} \cap Goldens = {} /\ Goldens # {}
    /\ NotRendered \notin {"edited", "custom"}
    /\ Applicable \in BOOLEAN /\ Namespaced \in BOOLEAN /\ IsMachineConfig \in BOOLEAN

Specs == Goldens \cup {"edited", "custom"}

\* An object of the API server.  paused records who set the reconcile-paused
\* annotation; the code only sees whether it is there.
Object == [exists : BOOLEAN, spec : Specs \cup {NotRendered},
           paused : {"no", "operator", "user"}, unmanaged : BOOLEAN, override : AllOverrides]

NoObject == [exists |-> FALSE, spec |-> NotRendered,
             paused |-> "no", unmanaged |-> FALSE, override |-> "none"]

\* The desired object of one reconcile: its spec, the patch annotation copied
\* onto it from the live object, and the spec before masking, which identifies
\* a MachineConfig update (machineConfigDesiredHash).
Desired == [spec : Specs \cup {NotRendered}, carries : {"none", "patch", "misfitPatch"},
            hash : Specs \cup {NotRendered}]

NoDesired == [spec |-> NotRendered, carries |-> "none", hash |-> NotRendered]

VARIABLES
    \* the cluster
    obj,            \* the asset's object
    golden,         \* what the template renders at present
    excluded,       \* "disabled": the HCO's disabled-resources annotation names the asset;
                    \* "inactive": its conditions do not hold, or a CRD is missing
    nsExists,       \* the target namespace exists
    \* the operator's memory
    pc,             \* the next request of ReconcileAsset, or "idle"
    live, desired,  \* its local variables
    conflict,       \* the object was written since setPauseAnnotation read it
    level,          \* TokenBucket: updates left (see RateLimiter)
    attempts,       \* ThrashingDetector: consecutiveThrottles, up to Threshold
    emitted,        \* ThrashingDetector: metricEmitted
    \* metrics
    compliance, pausedGauge, customization,
    \* history
    alarms,         \* increments of thrashing_total
    pauses,         \* pause annotations written by the operator
    held,           \* one of them since the detector's state was last cleared
    resumed,        \* the user lifted such a pause, and no apply was tried since
    foreign,        \* someone else wrote the object since the last success
    moves           \* disturbances so far

cluster == <<obj, golden, excluded, nsExists>>
locals  == <<pc, live, desired, conflict>>
gate    == <<level, attempts, emitted>>
gauges  == <<compliance, pausedGauge, customization>>
history == <<alarms, pauses, held, resumed, foreign, moves>>
vars == <<obj, golden, excluded, nsExists, pc, live, desired, conflict, level, attempts,
          emitted, compliance, pausedGauge, customization, alarms, pauses, held, resumed, foreign, moves>>

Init ==
    /\ obj = NoObject
    /\ golden \in Goldens
    /\ excluded = "no"
    /\ nsExists = TRUE
    /\ pc = "idle" /\ live = NoObject /\ desired = NoDesired /\ conflict = FALSE
    /\ level = Capacity /\ attempts = 0 /\ emitted = FALSE
    /\ compliance = "absent" /\ pausedGauge = "absent" /\ customization = {}
    /\ alarms = 0 /\ pauses = 0 /\ held = FALSE /\ resumed = FALSE /\ foreign = FALSE /\ moves = 0

-----------------------------------------------------------------------------
(* Helpers *)

IsPaused(o) == o.paused # "no"

\* The customization series set while the live object o is evaluated.
CustomizationOf(o) ==
    (IF o.override \in {"patch", "rejectedPatch", "misfitPatch"} THEN {"patch"} ELSE {})
      \cup (IF o.override \in {"ignore", "badIgnore"} THEN {"ignore"} ELSE {})

\* Steps 3 and 4: the rendered spec s after the user's patch and ignore-fields
\* on the live object o.  A patch that is refused or does not apply is dropped.
Effective(s, o) ==
    [spec    |-> CASE o.override = "patch" -> "custom"
                   [] o.override = "ignore" -> o.spec
                   [] OTHER -> s,
     carries |-> IF o.override \in {"patch", "misfitPatch"} THEN o.override ELSE "none",
     hash    |-> IF o.override = "patch" THEN "custom" ELSE s]

\* What server-side apply of d makes of o: d's fields win, others are kept.
Merge(o, d) ==
    [o EXCEPT !.exists = TRUE, !.spec = d.spec,
              !.override = IF d.carries = "none" THEN @ ELSE d.carries]

\* ReconcileAsset returns; its local variables are gone.
Return == pc' = "idle" /\ live' = NoObject /\ desired' = NoDesired /\ conflict' = FALSE

Goto(label) == pc' = label /\ UNCHANGED <<live, desired, conflict>>

\* One of the disturbances: a request fails or its answer is lost, the operator
\* restarts, or the cluster changes.
Disturb == moves < MaxMoves /\ moves' = moves + 1

\* A detector that forgets the count but not that it announced the edit war.
DetectorCleared_KeepsEmitted == attempts' = 0 /\ emitted' = emitted /\ held' = FALSE

\* ThrashingDetector.Reset and RecordSuccess both delete the key's state.
DetectorCleared == attempts' = 0 /\ emitted' = FALSE /\ held' = FALSE

-----------------------------------------------------------------------------
(* Step 1: render the template, honour the root exclusion *)

\* Nothing rendered (or rendering failed): return without touching anything.
SkipNotRendered ==
    /\ pc = "idle" /\ golden = NotRendered
    /\ UNCHANGED vars

SkipExcluded ==
    /\ pc = "idle" /\ golden # NotRendered /\ excluded = "disabled"
    /\ compliance' = "absent" /\ pausedGauge' = "active"
    /\ UNCHANGED <<cluster, locals, gate, customization, history>>

\* CleanupExcludedAsset, called by reconcileAssets instead of ReconcileAsset: the
\* series of an asset that is no longer taken up are deleted.
CleanupExcludedAsset ==
    /\ pc = "idle" /\ golden # NotRendered /\ excluded = "inactive"
    /\ compliance' = "absent" /\ pausedGauge' = "absent" /\ customization' = {}
    /\ UNCHANGED <<cluster, locals, gate, alarms, pauses, held, resumed, foreign>>

\* A MachineConfig's staging entry is dropped too (see MachineConfigRollout).
Cleanup == ~IsMachineConfig /\ CleanupExcludedAsset /\ moves' = moves

Begin ==
    /\ pc = "idle" /\ golden # NotRendered /\ excluded = "no"
    /\ pc' = "get"
    /\ desired' = [spec |-> golden, carries |-> "none", hash |-> golden]
    /\ UNCHANGED <<cluster, live, conflict, gate, gauges, history>>

-----------------------------------------------------------------------------
(* Get the live object, and steps 1.5 to 4 on what was read *)

\* A resume that leaves the exhausted token bucket as it is.
ClearAfterResume_KeepsBucket ==
    /\ IF attempts >= Threshold THEN DetectorCleared ELSE UNCHANGED <<attempts, emitted, held>>
    /\ level' = level

\* Step 1.6: a detector at the threshold on an object without the annotation
\* is taken to mean that the user resumed reconciliation.
ClearAfterResume ==
    IF attempts >= Threshold
    THEN DetectorCleared /\ level' = Capacity
    ELSE UNCHANGED <<gate, held>>

GetFailed ==
    /\ pc = "get" /\ Disturb /\ Return
    /\ UNCHANGED <<cluster, gate, gauges, alarms, pauses, held, resumed, foreign>>

GetPaused ==
    /\ pc = "get" /\ obj.exists /\ IsPaused(obj)
    /\ pausedGauge' = "paused"
    /\ Return
    /\ UNCHANGED <<cluster, gate, compliance, customization, history>>

GetUnmanaged ==
    /\ pc = "get" /\ obj.exists /\ ~IsPaused(obj) /\ obj.unmanaged
    /\ ClearAfterResume
    /\ customization' = {"unmanaged"} /\ compliance' = "absent" /\ pausedGauge' = "active"
    /\ Return
    /\ UNCHANGED <<cluster, alarms, pauses, resumed, foreign, moves>>

\* MaskIgnoredFields fails.
GetUnmaskable ==
    /\ pc = "get" /\ obj.exists /\ ~IsPaused(obj) /\ ~obj.unmanaged /\ obj.override = "badIgnore"
    /\ ClearAfterResume
    /\ customization' = CustomizationOf(obj)
    /\ Return
    /\ UNCHANGED <<cluster, compliance, pausedGauge, alarms, pauses, resumed, foreign, moves>>

\* Step 1.5 forgotten.
GetManaged_IgnoresPause ==
    /\ pc = "get" /\ obj.exists /\ ~obj.unmanaged /\ obj.override # "badIgnore"
    /\ ClearAfterResume
    /\ customization' = CustomizationOf(obj)
    /\ live' = obj
    /\ desired' = Effective(desired.spec, obj)
    /\ pc' = "drift"
    /\ UNCHANGED <<cluster, conflict, compliance, pausedGauge, alarms, pauses, resumed, foreign, moves>>

\* Customization series are only ever added.
GetManaged_KeepsSeries ==
    /\ pc = "get" /\ obj.exists /\ ~IsPaused(obj) /\ ~obj.unmanaged /\ obj.override # "badIgnore"
    /\ ClearAfterResume
    /\ customization' = customization \cup CustomizationOf(obj)
    /\ live' = obj
    /\ desired' = Effective(desired.spec, obj)
    /\ pc' = "drift"
    /\ UNCHANGED <<cluster, conflict, compliance, pausedGauge, alarms, pauses, resumed, foreign, moves>>

GetManaged ==
    /\ pc = "get" /\ obj.exists /\ ~IsPaused(obj) /\ ~obj.unmanaged /\ obj.override # "badIgnore"
    /\ ClearAfterResume
    /\ customization' = CustomizationOf(obj)
    /\ live' = obj
    /\ desired' = Effective(desired.spec, obj)
    /\ pc' = "drift"
    /\ UNCHANGED <<cluster, conflict, compliance, pausedGauge, alarms, pauses, resumed, foreign, moves>>

\* No live object: straight to its creation.
GetMissing ==
    /\ pc = "get" /\ ~obj.exists
    /\ Goto("namespace")
    /\ UNCHANGED <<cluster, gate, gauges, history>>

-----------------------------------------------------------------------------
(* Step 5: DetectDrift, a dry run compared with the copy read before *)

\* The dry run fails; it has to when object and namespace vanished meanwhile.
DryRunFailed ==
    /\ pc = "drift"
    /\ Disturb \/ (Namespaced /\ ~nsExists /\ moves' = moves)
    /\ compliance' = "failed"
    /\ Return
    /\ UNCHANGED <<cluster, gate, pausedGauge, customization, alarms, pauses, held, resumed, foreign>>

\* The dry run compared with the desired object instead of the live one.
DriftDetected_OfDesired == Merge(obj, desired).spec # desired.spec

DriftDetected == Merge(obj, desired) # live

NoDrift ==
    /\ pc = "drift" /\ (Namespaced => nsExists) /\ ~DriftDetected
    /\ compliance' = "synced" /\ pausedGauge' = "active"
    /\ Return
    /\ UNCHANGED <<cluster, gate, customization, history>>

Drifted ==
    /\ pc = "drift" /\ (Namespaced => nsExists) /\ DriftDetected
    /\ Goto(IF IsMachineConfig THEN "coalesce" ELSE "namespace")
    /\ UNCHANGED <<cluster, gate, gauges, history>>

-----------------------------------------------------------------------------
(* Step 6: namespace guard, token bucket and thrashing detector *)

NamespaceUnknown ==
    /\ pc = "namespace" /\ Namespaced /\ Disturb /\ Return
    /\ UNCHANGED <<cluster, gate, gauges, alarms, pauses, held, resumed, foreign>>

NamespaceMissing ==
    /\ pc = "namespace" /\ Namespaced /\ ~nsExists
    /\ Return
    /\ UNCHANGED <<cluster, gate, gauges, history>>

\* The bucket is not consulted.
Admitted_Unchecked ==
    /\ pc = "namespace" /\ (Namespaced => nsExists)
    /\ level' = level - 1
    /\ Goto("apply")
    /\ resumed' = FALSE
    /\ UNCHANGED <<cluster, attempts, emitted, gauges, alarms, pauses, held, foreign, moves>>

Admitted ==
    /\ pc = "namespace" /\ (Namespaced => nsExists)
    /\ level > 0
    /\ level' = level - 1
    /\ Goto("apply")
    /\ resumed' = FALSE
    /\ UNCHANGED <<cluster, attempts, emitted, gauges, alarms, pauses, held, foreign, moves>>

Throttled ==
    /\ pc = "namespace" /\ (Namespaced => nsExists)
    /\ level = 0 /\ attempts + 1 < Threshold
    /\ attempts' = attempts + 1
    /\ Return
    /\ UNCHANGED <<cluster, level, emitted, gauges, history>>

\* RecordThrottle reports an edit war; it is announced once (ShouldEmitMetric),
\* and an existing object is going to be paused.
WarDetected ==
    /\ pc = "namespace" /\ (Namespaced => nsExists)
    /\ level = 0 /\ attempts + 1 >= Threshold
    /\ attempts' = Threshold
    /\ emitted' = TRUE
    /\ alarms' = IF emitted THEN alarms ELSE alarms + 1
    /\ IF live.exists THEN Goto("freshCopy") ELSE Return
    /\ UNCHANGED <<cluster, level, gauges, pauses, held, resumed, foreign, moves>>

-----------------------------------------------------------------------------
(* Step 7: apply *)

\* The end of a successful reconcile: RecordSuccess and SetPaused(false).
Succeed ==
    /\ DetectorCleared
    /\ pausedGauge' = "active"
    /\ foreign' = FALSE
    /\ Return

\* A MachineConfig's staging entry is retired before RecordSuccess.
Applied ==
    /\ pc = "apply" /\ (Namespaced => nsExists)
    /\ obj' = Merge(obj, desired)
    /\ compliance' = "synced"
    /\ IF IsMachineConfig
       THEN Goto("clear") /\ UNCHANGED <<attempts, emitted, held, pausedGauge, foreign>>
       ELSE Succeed
    /\ UNCHANGED <<golden, excluded, nsExists, level, customization, alarms, pauses, resumed, moves>>

\* An error although the object may have been written.
ApplyFailed ==
    /\ pc = "apply" /\ Disturb
    /\ obj' \in {obj} \cup (IF Namespaced => nsExists THEN {Merge(obj, desired)} ELSE {})
    /\ compliance' = "failed"
    /\ Return
    /\ UNCHANGED <<golden, excluded, nsExists, gate, pausedGauge, customization,
                   alarms, pauses, held, resumed, foreign>>

\* isNamespaceNotFound: a soft skip.
ApplyNoNamespace ==
    /\ pc = "apply" /\ Namespaced /\ ~nsExists
    /\ Return
    /\ UNCHANGED <<cluster, gate, gauges, history>>

-----------------------------------------------------------------------------
(* setPauseAnnotation: read a fresh copy, then update it *)

FreshCopyRead ==
    /\ pc = "freshCopy" /\ obj.exists
    /\ pc' = "annotate" /\ conflict' = FALSE
    /\ UNCHANGED <<cluster, live, desired, gate, gauges, history>>

FreshCopyFailed ==
    /\ pc = "freshCopy"
    /\ Disturb \/ (~obj.exists /\ moves' = moves)
    /\ Return
    /\ UNCHANGED <<cluster, gate, gauges, alarms, pauses, held, resumed, foreign>>

\* The update the API server makes if the copy is still the current version.
PauseWritten ==
    /\ ~conflict
    /\ obj' = [obj EXCEPT !.paused = IF @ = "no" THEN "operator" ELSE @]
    /\ pauses' = pauses + 1
    /\ held' = TRUE

Annotated ==
    /\ pc = "annotate" /\ PauseWritten
    /\ pausedGauge' = "paused"
    /\ Return
    /\ UNCHANGED <<golden, excluded, nsExists, gate, compliance, customization,
                   alarms, resumed, foreign, moves>>

\* The error is logged: "operator will retry".
AnnotateFailed ==
    /\ pc = "annotate" /\ Disturb
    /\ PauseWritten \/ UNCHANGED <<obj, pauses, held>>
    /\ Return
    /\ UNCHANGED <<golden, excluded, nsExists, gate, gauges, alarms, resumed, foreign>>

AnnotateConflict ==
    /\ pc = "annotate" /\ conflict
    /\ Return
    /\ UNCHANGED <<cluster, gate, gauges, history>>

-----------------------------------------------------------------------------
(* The environment *)

\* The operator restarts: memory and metrics are lost.
Restart ==
    /\ Disturb
    /\ Return
    /\ level' = Capacity /\ DetectorCleared
    /\ compliance' = "absent" /\ pausedGauge' = "absent" /\ customization' = {}
    /\ UNCHANGED <<cluster, alarms, pauses, resumed, foreign>>

\* Time gives one update back.
Refill ==
    /\ level < Capacity
    /\ level' = level + 1
    /\ UNCHANGED <<cluster, locals, attempts, emitted, gauges, history>>

\* Someone else writes the object: o is its new state.
WriteObject(o) ==
    /\ Disturb
    /\ obj' = o
    /\ conflict' = (pc = "annotate")
    /\ UNCHANGED <<golden, excluded, nsExists, pc, live, desired, gate, gauges, alarms, pauses, held>>

ForeignEdit ==
    /\ obj.exists
    /\ \E s \in Specs \ {obj.spec} : WriteObject([obj EXCEPT !.spec = s])
    /\ foreign' = TRUE /\ resumed' = resumed

ForeignDelete ==
    /\ obj.exists /\ WriteObject(NoObject)
    /\ foreign' = TRUE /\ resumed' = resumed

ForeignCreate ==
    /\ ~obj.exists /\ (Namespaced => nsExists)
    /\ WriteObject([NoObject EXCEPT !.exists = TRUE, !.spec = "edited"])
    /\ foreign' = TRUE /\ resumed' = resumed

UserPause ==
    /\ obj.exists /\ ~IsPaused(obj)
    /\ WriteObject([obj EXCEPT !.paused = "user"])
    /\ UNCHANGED <<foreign, resumed>>

UserResume ==
    /\ obj.exists /\ IsPaused(obj)
    /\ WriteObject([obj EXCEPT !.paused = "no"])
    /\ resumed' = (resumed \/ obj.paused = "operator")
    /\ foreign' = foreign

UserCustomize ==
    /\ obj.exists
    /\ \/ \E v \in Overrides \ {obj.override} : WriteObject([obj EXCEPT !.override = v])
       \/ WriteObject([obj EXCEPT !.unmanaged = ~@])
    /\ UNCHANGED <<foreign, resumed>>

\* The template renders something else, e.g. after a change of the HCO.
Rerender ==
    /\ Disturb
    /\ \E g \in (Goldens \cup IF Applicable THEN {} ELSE {NotRendered}) \ {golden} : golden' = g
    /\ UNCHANGED <<obj, excluded, nsExists, locals, gate, gauges, alarms, pauses, held, resumed, foreign>>

\* The HCO's annotations change, or a CRD comes or goes.
UserExclude ==
    /\ Disturb
    /\ excluded' \in {"no", "disabled", "inactive"} \ {excluded}
    /\ UNCHANGED <<obj, golden, nsExists, locals, gate, gauges, alarms, pauses, held, resumed, foreign>>

\* The namespace goes, and the object with it, or comes back.
NamespaceToggled ==
    /\ Disturb /\ Namespaced
    /\ nsExists' = ~nsExists
    /\ obj' = IF nsExists THEN NoObject ELSE obj
    /\ conflict' = (pc = "annotate")
    /\ foreign' = TRUE
    /\ UNCHANGED <<golden, excluded, pc, live, desired, gate, gauges, alarms, pauses, held, resumed>>

-----------------------------------------------------------------------------
(* Specification *)

ReconcileStep ==
    \/ SkipNotRendered \/ SkipExcluded \/ Cleanup \/ Begin
    \/ GetFailed \/ GetPaused \/ GetUnmanaged \/ GetUnmaskable \/ GetManaged \/ GetMissing
    \/ DryRunFailed \/ NoDrift \/ Drifted
    \/ NamespaceUnknown \/ NamespaceMissing \/ Admitted \/ Throttled \/ WarDetected
    \/ Applied \/ ApplyFailed \/ ApplyNoNamespace
    \/ FreshCopyRead \/ FreshCopyFailed \/ Annotated \/ AnnotateFailed \/ AnnotateConflict

Environment ==
    \/ Refill
    \/ ForeignEdit \/ ForeignDelete \/ ForeignCreate
    \/ UserPause \/ UserResume \/ UserCustomize \/ UserExclude
    \/ Rerender \/ NamespaceToggled

Next == ReconcileStep \/ Restart \/ Environment

\* The controller requeues itself every few minutes and every request returns;
\* time refills the bucket.  Nothing is assumed of the users or of restarts.
Spec == Init /\ [][Next]_vars /\ WF_vars(ReconcileStep) /\ WF_vars(Refill)

-----------------------------------------------------------------------------
(* Properties *)

ClusterOK ==
    /\ obj \in Object /\ (~obj.exists => obj = NoObject)
    /\ golden \in Goldens \cup {NotRendered}
    /\ excluded \in {"no", "disabled", "inactive"} /\ nsExists \in BOOLEAN
    /\ (Namespaced /\ obj.exists) => nsExists

LocalsOK ==
    /\ pc \in {"idle", "get", "drift", "coalesce", "namespace", "apply", "clear",
               "freshCopy", "annotate"}
    /\ live \in Object /\ desired \in Desired /\ conflict \in BOOLEAN

GateOK == level \in 0 .. Capacity /\ attempts \in 0 .. Threshold /\ emitted \in BOOLEAN

GaugesOK ==
    /\ compliance \in {"absent", "synced", "failed", "deferred"}
    /\ pausedGauge \in {"absent", "active", "paused"}
    /\ customization \subseteq {"patch", "ignore", "unmanaged"}

HistoryOK ==
    /\ alarms \in Nat /\ pauses \in Nat /\ held \in BOOLEAN /\ resumed \in BOOLEAN
    /\ foreign \in BOOLEAN /\ moves \in 0 .. MaxMoves

\* Values of the variables; an object exists only in an existing namespace, and
\* the bucket and the detector stay within their limits: the operator never
\* takes a token that is not there.
TypeOK == ClusterOK /\ LocalsOK /\ GateOK /\ GaugesOK /\ HistoryOK

\* While the pause annotation that the operator set is on the object, the
\* operator does not write the object: not in the reconcile that set it, not
\* after failed or lost requests, not after a restart (Step 1.5, lines 223-236).
HandsOffWhilePaused ==
    [][ReconcileStep /\ obj.paused = "operator" => obj' = obj]_vars

\* Every pause annotation the operator writes was announced by an increment of
\* thrashing_total of its own, also in later edit wars on the same resource
\* (lines 476-490 with ShouldEmitMetric's one-shot gate).
EveryPauseAnnounced == pauses <= alarms

\* After the user lifted the operator's pause, the operator tries to apply at
\* least once before it pauses the object again (Step 1.6, lines 238-257: "does
\* not immediately re-trigger a pause").
ResumeIsHonoured == [][pauses' > pauses => ~resumed]_vars

\* The object is as it should be.
InSync == obj.exists /\ obj.spec = Effective(golden, obj).spec

\* The asset asks for nothing more of the operator.
Settled ==
    \/ golden = NotRendered \/ excluded # "no" \/ (Namespaced /\ ~nsExists)
    \/ obj.exists /\ (IsPaused(obj) \/ obj.unmanaged \/ obj.override = "badIgnore")
    \/ InSync

\* Once disturbances end, every drift is corrected or ends in a pause: neither
\* the token bucket nor the detector nor a lost answer can wedge an asset.
Converges == <>[]Settled

\* Once disturbances end, customization_info shows exactly the customizations
\* of the managed object: no series of an earlier annotation survives
\* (lines 259-268: "a series set in a prior reconcile ... survives").
CustomizationReported ==
    <>[](obj.exists /\ ~IsPaused(obj) /\ golden # NotRendered /\ excluded = "no"
           => customization = IF obj.unmanaged THEN {"unmanaged"} ELSE CustomizationOf(obj))

\* What Step 1.6 says it is about (lines 239-241): "meaning the operator
\* previously set the pause annotation ... the user intentionally resumed".
ResumeOnlyByUser == [][pc = "get" /\ attempts >= Threshold /\ level' = Capacity /\ attempts' = 0
                         /\ moves' = moves => held]_vars

\* docs/anti-thrashing-design.md line 64: the operator pauses an object only if
\* someone else modified it.
PausedOnlyOnForeignEdits == [][pauses' > pauses => foreign]_vars

\* metrics.go line 41: compliance_status is "1=synced, 0=drifted/failed".  Once
\* disturbances end, a gauge that stays at 1 belongs to a synced object.
ComplianceSettles == <>[](compliance = "synced" => InSync)
=============================================================================
