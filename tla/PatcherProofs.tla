--------------------------- MODULE PatcherProofs ---------------------------
(***************************************************************************)
(* Proofs about Patcher, for every capacity, threshold, set of rendered    *)
(* specs and number of disturbances.                                       *)
(***************************************************************************)
EXTENDS Patcher, TLAPS

\* A live copy is held exactly while an existing object is being reconciled, and
\* a copy that is about to be annotated is gone only with a conflict.
LiveInv ==
    /\ pc \in {"idle", "get"} => live = NoObject
    /\ pc \in {"drift", "coalesce", "freshCopy", "annotate"} => live.exists
    /\ pc = "annotate" /\ ~conflict => obj.exists

\* Past the check for the annotation, the operator's own pause is not there:
\* only the operator sets it, and it does so at the end of a reconcile.
WindowInv == pc \notin {"idle", "get"} => obj.paused # "operator"

\* An edit war is marked as announced only at the threshold, and Step 1.6 has
\* removed that mark once an existing object is being reconciled.
EmitInv ==
    /\ emitted => attempts = Threshold
    /\ pc \in {"drift", "coalesce", "namespace", "apply", "clear"} /\ live.exists => ~emitted

\* A pause under way has an announcement of its own.
AlarmInv ==
    /\ pauses <= alarms
    /\ pc \in {"freshCopy", "annotate"} => pauses < alarms /\ attempts = Threshold

\* While the operator's pause stands, and after it was lifted, the bucket is
\* full, or the detector at its threshold will make Step 1.6 fill it.
ResumeInv ==
    /\ obj.paused = "operator" => level = Capacity \/ attempts = Threshold
    /\ resumed => \/ level = Capacity
                  \/ attempts = Threshold /\ (pc \in {"idle", "get"} \/ ~live.exists)
    /\ pc \in {"apply", "clear", "freshCopy", "annotate"} => ~resumed

IInv == TypeOK /\ LiveInv /\ WindowInv /\ EmitInv /\ AlarmInv /\ ResumeInv

-----------------------------------------------------------------------------
(* The operators *)

\* Server-side apply makes an object, and never touches the pause annotation.
LEMMA MergeFacts ==
    ASSUME NEW o \in Object, NEW d \in Desired
    PROVE  Merge(o, d) \in Object /\ Merge(o, d).exists /\ Merge(o, d).paused = o.paused
  BY DEF Merge, Object, Desired, AllOverrides

\* Customizing a rendered spec gives a desired object.
LEMMA EffectiveFacts ==
    ASSUME NEW s \in Specs \cup {NotRendered}, NEW o \in Object
    PROVE  Effective(s, o) \in Desired
  BY DEF Effective, Object, Desired, Specs, AllOverrides

LEMMA NoneFacts ==
    /\ NoObject \in Object /\ ~NoObject.exists /\ NoObject.paused = "no"
    /\ NoDesired \in Desired
  BY DEF NoObject, Object, NoDesired, Desired, AllOverrides

\* Writing the pause annotation.
LEMMA PauseFacts ==
    ASSUME NEW o \in Object, o.exists
    PROVE  LET p == [o EXCEPT !.paused = IF @ = "no" THEN "operator" ELSE @]
           IN  /\ p \in Object /\ p.exists
               /\ o.paused = "operator" => p = o
  BY DEF Object

-----------------------------------------------------------------------------
(* The inductive invariant *)

\* The initial state.
LEMMA InitIInv == Init => IInv
<1> SUFFICES ASSUME Init PROVE IInv
  OBVIOUS
<1>1. ClusterOK /\ LocalsOK
  BY NoneFacts DEF Init, ClusterOK, LocalsOK
<1>2. GateOK /\ GaugesOK /\ HistoryOK
  <2>1. level \in 0 .. Capacity /\ attempts \in 0 .. Threshold /\ moves \in 0 .. MaxMoves
    BY PatcherAssumption DEF Init
  <2> QED BY <2>1 DEF Init, GateOK, GaugesOK, HistoryOK
<1>3. LiveInv /\ WindowInv /\ EmitInv /\ AlarmInv
  BY NoneFacts DEF Init, LiveInv, WindowInv, EmitInv, AlarmInv
<1>4. ResumeInv
  BY NoneFacts DEF Init, ResumeInv
<1> QED BY <1>1, <1>2, <1>3, <1>4 DEF IInv, TypeOK

\* An asset that renders nothing or is excluded.
LEMMA SkipIInv ==
    ASSUME IInv, SkipNotRendered \/ SkipExcluded
    PROVE  IInv'
<1> USE DEF IInv, TypeOK, cluster, locals, gate, gauges, history
<1>1. ClusterOK'
  BY DEF ClusterOK, LocalsOK, SkipNotRendered, SkipExcluded, vars
<1>2. LocalsOK'
  BY DEF ClusterOK, LocalsOK, SkipNotRendered, SkipExcluded, vars
<1>3. GateOK'
  BY PatcherAssumption DEF GateOK, SkipNotRendered, SkipExcluded, vars
<1>4. GaugesOK'
  BY DEF GaugesOK, SkipNotRendered, SkipExcluded, vars
<1>5. HistoryOK'
  BY PatcherAssumption DEF HistoryOK, SkipNotRendered, SkipExcluded, vars
<1>6. LiveInv' /\ WindowInv'
  BY DEF ClusterOK, LocalsOK, LiveInv, WindowInv, SkipNotRendered, SkipExcluded, vars
<1>7. EmitInv' /\ AlarmInv'
  BY PatcherAssumption DEF GateOK, HistoryOK, LiveInv, EmitInv, AlarmInv, SkipNotRendered, SkipExcluded, vars
<1>8. ResumeInv'
  BY PatcherAssumption DEF ClusterOK, LocalsOK, GateOK, LiveInv, WindowInv, AlarmInv, ResumeInv, SkipNotRendered, SkipExcluded, vars
<1> QED BY <1>1, <1>2, <1>3, <1>4, <1>5, <1>6, <1>7, <1>8

\* The series of an asset that is not taken up are deleted.
LEMMA CleanupIInv ==
    ASSUME IInv, CleanupExcludedAsset, moves' = moves \/ Disturb
    PROVE  IInv'
<1> USE DEF IInv, TypeOK, cluster, locals, gate
<1>1. ClusterOK' /\ LocalsOK'
  BY DEF ClusterOK, LocalsOK, CleanupExcludedAsset
<1>2. GateOK'
  BY PatcherAssumption DEF GateOK, CleanupExcludedAsset
<1>3. GaugesOK'
  BY DEF GaugesOK, CleanupExcludedAsset
<1>4. HistoryOK'
  BY PatcherAssumption DEF HistoryOK, CleanupExcludedAsset, Disturb
<1>5. LiveInv' /\ WindowInv'
  BY DEF ClusterOK, LocalsOK, LiveInv, WindowInv, CleanupExcludedAsset
<1>6. EmitInv' /\ AlarmInv'
  BY PatcherAssumption DEF GateOK, HistoryOK, LiveInv, EmitInv, AlarmInv, CleanupExcludedAsset
<1>7. ResumeInv'
  BY PatcherAssumption DEF ClusterOK, LocalsOK, GateOK, LiveInv, WindowInv, AlarmInv, ResumeInv, CleanupExcludedAsset
<1> QED BY <1>1, <1>2, <1>3, <1>4, <1>5, <1>6, <1>7

\* A reconcile starts.
LEMMA BeginIInv ==
    ASSUME IInv, Begin
    PROVE  IInv'
<1> USE DEF IInv, TypeOK, cluster, locals, gate, gauges, history
<1>1. ClusterOK'
  BY DEF ClusterOK, LocalsOK, Begin, Desired, Specs
<1>2. LocalsOK'
  BY DEF ClusterOK, LocalsOK, Begin, Desired, Specs
<1>3. GateOK'
  BY PatcherAssumption DEF GateOK, Begin, Desired, Specs
<1>4. GaugesOK'
  BY DEF GaugesOK, Begin, Desired, Specs
<1>5. HistoryOK'
  BY PatcherAssumption DEF HistoryOK, Begin, Desired, Specs
<1>6. LiveInv' /\ WindowInv'
  BY DEF ClusterOK, LocalsOK, LiveInv, WindowInv, Begin, Desired, Specs
<1>7. EmitInv' /\ AlarmInv'
  BY PatcherAssumption DEF GateOK, HistoryOK, LiveInv, EmitInv, AlarmInv, Begin, Desired, Specs
<1>8. ResumeInv'
  BY PatcherAssumption DEF ClusterOK, LocalsOK, GateOK, LiveInv, WindowInv, AlarmInv, ResumeInv, Begin, Desired, Specs
<1> QED BY <1>1, <1>2, <1>3, <1>4, <1>5, <1>6, <1>7, <1>8

\* Step 1.6 followed by a return.
LEMMA ClearIInv ==
    ASSUME IInv, GetUnmanaged \/ GetUnmaskable
    PROVE  IInv'
<1> USE DEF IInv, TypeOK, cluster, locals, gate, gauges, history
<1>1. ClusterOK'
  BY NoneFacts DEF ClusterOK, LocalsOK, GetUnmanaged, GetUnmaskable, ClearAfterResume, DetectorCleared, CustomizationOf, IsPaused, Return
<1>2. LocalsOK'
  BY NoneFacts DEF ClusterOK, LocalsOK, GetUnmanaged, GetUnmaskable, ClearAfterResume, DetectorCleared, CustomizationOf, IsPaused, Return
<1>3. GateOK'
  <2>1. level' \in 0 .. Capacity /\ attempts' \in 0 .. Threshold
    BY PatcherAssumption DEF GateOK, GetUnmanaged, GetUnmaskable, ClearAfterResume, DetectorCleared, CustomizationOf, IsPaused, Return
  <2>2. emitted' \in BOOLEAN
    BY DEF GateOK, GetUnmanaged, GetUnmaskable, ClearAfterResume, DetectorCleared, CustomizationOf, IsPaused, Return
  <2> QED BY <2>1, <2>2 DEF GateOK
<1>4. GaugesOK'
  BY DEF GaugesOK, GetUnmanaged, GetUnmaskable, ClearAfterResume, DetectorCleared, CustomizationOf, IsPaused, Return
<1>5. HistoryOK'
  BY PatcherAssumption DEF HistoryOK, GetUnmanaged, GetUnmaskable, ClearAfterResume, DetectorCleared, CustomizationOf, IsPaused, Return
<1>6. LiveInv' /\ WindowInv'
  BY NoneFacts DEF ClusterOK, LocalsOK, LiveInv, WindowInv, GetUnmanaged, GetUnmaskable, ClearAfterResume, DetectorCleared, CustomizationOf, IsPaused, Return
<1>7. EmitInv' /\ AlarmInv'
  BY PatcherAssumption DEF GateOK, HistoryOK, LiveInv, EmitInv, AlarmInv, GetUnmanaged, GetUnmaskable, ClearAfterResume, DetectorCleared, CustomizationOf, IsPaused, Return
<1>8. ResumeInv'
  BY PatcherAssumption, NoneFacts DEF ClusterOK, LocalsOK, GateOK, LiveInv, WindowInv, AlarmInv, ResumeInv, GetUnmanaged, GetUnmaskable, ClearAfterResume, DetectorCleared, CustomizationOf, IsPaused, Return
<1> QED BY <1>1, <1>2, <1>3, <1>4, <1>5, <1>6, <1>7, <1>8

\* Step 1.6 followed by the reconcile proper.
LEMMA GetManagedIInv ==
    ASSUME IInv, GetManaged
    PROVE  IInv'
<1> USE DEF IInv, TypeOK, cluster, locals, gate, gauges, history
<1>1. ClusterOK'
  BY EffectiveFacts, NoneFacts DEF ClusterOK, LocalsOK, GetManaged, ClearAfterResume, DetectorCleared, CustomizationOf, IsPaused, Desired
<1>2. LocalsOK'
  BY EffectiveFacts, NoneFacts DEF ClusterOK, LocalsOK, GetManaged, ClearAfterResume, DetectorCleared, CustomizationOf, IsPaused, Desired
<1>3. GateOK'
  <2>1. level' \in 0 .. Capacity /\ attempts' \in 0 .. Threshold
    BY PatcherAssumption DEF GateOK, GetManaged, ClearAfterResume, DetectorCleared, CustomizationOf, IsPaused, Desired
  <2>2. emitted' \in BOOLEAN
    BY DEF GateOK, GetManaged, ClearAfterResume, DetectorCleared, CustomizationOf, IsPaused, Desired
  <2> QED BY <2>1, <2>2 DEF GateOK
<1>4. GaugesOK'
  BY DEF GaugesOK, GetManaged, ClearAfterResume, DetectorCleared, CustomizationOf, IsPaused, Desired
<1>5. HistoryOK'
  BY PatcherAssumption DEF HistoryOK, GetManaged, ClearAfterResume, DetectorCleared, CustomizationOf, IsPaused, Desired
<1>6. LiveInv' /\ WindowInv'
  BY EffectiveFacts, NoneFacts DEF ClusterOK, LocalsOK, LiveInv, WindowInv, GetManaged, ClearAfterResume, DetectorCleared, CustomizationOf, IsPaused, Desired
<1>7. EmitInv' /\ AlarmInv'
  BY PatcherAssumption DEF GateOK, HistoryOK, LiveInv, EmitInv, AlarmInv, GetManaged, ClearAfterResume, DetectorCleared, CustomizationOf, IsPaused, Desired
<1>8. ResumeInv'
  BY PatcherAssumption, EffectiveFacts, NoneFacts DEF ClusterOK, LocalsOK, GateOK, LiveInv, WindowInv, AlarmInv, ResumeInv, GetManaged, ClearAfterResume, DetectorCleared, CustomizationOf, IsPaused, Desired
<1> QED BY <1>1, <1>2, <1>3, <1>4, <1>5, <1>6, <1>7, <1>8

\* Steps that only read.
LEMMA GotoIInv ==
    ASSUME IInv, GetMissing \/ Drifted \/ FreshCopyRead
    PROVE  IInv'
<1> USE DEF IInv, TypeOK, cluster, locals, gate, gauges, history
<1>1. ClusterOK'
  BY NoneFacts DEF ClusterOK, LocalsOK, GetMissing, Drifted, FreshCopyRead, Goto
<1>2. LocalsOK'
  BY NoneFacts DEF ClusterOK, LocalsOK, GetMissing, Drifted, FreshCopyRead, Goto
<1>3. GateOK'
  BY PatcherAssumption DEF GateOK, GetMissing, Drifted, FreshCopyRead, Goto
<1>4. GaugesOK'
  BY DEF GaugesOK, GetMissing, Drifted, FreshCopyRead, Goto
<1>5. HistoryOK'
  BY PatcherAssumption DEF HistoryOK, GetMissing, Drifted, FreshCopyRead, Goto
<1>6. LiveInv' /\ WindowInv'
  BY NoneFacts DEF ClusterOK, LocalsOK, LiveInv, WindowInv, GetMissing, Drifted, FreshCopyRead, Goto
<1>7. EmitInv' /\ AlarmInv'
  BY PatcherAssumption, NoneFacts DEF GateOK, HistoryOK, LiveInv, EmitInv, AlarmInv, GetMissing, Drifted, FreshCopyRead, Goto
<1>8. ResumeInv'
  BY PatcherAssumption, NoneFacts DEF ClusterOK, LocalsOK, GateOK, LiveInv, WindowInv, AlarmInv, ResumeInv, GetMissing, Drifted, FreshCopyRead, Goto
<1> QED BY <1>1, <1>2, <1>3, <1>4, <1>5, <1>6, <1>7, <1>8

\* The token bucket.
LEMMA AdmittedIInv ==
    ASSUME IInv, Admitted \/ Throttled
    PROVE  IInv'
<1> USE DEF IInv, TypeOK, cluster, locals, gate, gauges, history
<1>1. ClusterOK'
  BY NoneFacts DEF ClusterOK, LocalsOK, Admitted, Throttled, Goto, Return
<1>2. LocalsOK'
  BY NoneFacts DEF ClusterOK, LocalsOK, Admitted, Throttled, Goto, Return
<1>3. GateOK'
  BY PatcherAssumption DEF GateOK, Admitted, Throttled, Goto, Return
<1>4. GaugesOK'
  BY DEF GaugesOK, Admitted, Throttled, Goto, Return
<1>5. HistoryOK'
  BY PatcherAssumption DEF HistoryOK, Admitted, Throttled, Goto, Return
<1>6. LiveInv' /\ WindowInv'
  BY NoneFacts DEF ClusterOK, LocalsOK, LiveInv, WindowInv, Admitted, Throttled, Goto, Return
<1>7. EmitInv' /\ AlarmInv'
  BY PatcherAssumption DEF GateOK, HistoryOK, LiveInv, EmitInv, AlarmInv, Admitted, Throttled, Goto, Return
<1>8. ResumeInv'
  BY PatcherAssumption, NoneFacts DEF ClusterOK, LocalsOK, GateOK, LiveInv, WindowInv, AlarmInv, ResumeInv, Admitted, Throttled, Goto, Return
<1> QED BY <1>1, <1>2, <1>3, <1>4, <1>5, <1>6, <1>7, <1>8

\* The detector reports an edit war.
LEMMA WarIInv ==
    ASSUME IInv, WarDetected
    PROVE  IInv'
<1> USE DEF IInv, TypeOK, cluster, locals, gate, gauges, history
<1>1. ClusterOK'
  BY NoneFacts DEF ClusterOK, LocalsOK, WarDetected, Goto, Return
<1>2. LocalsOK'
  BY NoneFacts DEF ClusterOK, LocalsOK, WarDetected, Goto, Return
<1>3. GateOK'
  BY PatcherAssumption DEF GateOK, WarDetected, Goto, Return
<1>4. GaugesOK'
  BY DEF GaugesOK, WarDetected, Goto, Return
<1>5. HistoryOK'
  BY PatcherAssumption DEF HistoryOK, WarDetected, Goto, Return
<1>6. LiveInv' /\ WindowInv'
  BY NoneFacts DEF ClusterOK, LocalsOK, LiveInv, WindowInv, WarDetected, Goto, Return
<1>7. EmitInv' /\ AlarmInv'
  BY PatcherAssumption DEF GateOK, HistoryOK, LiveInv, EmitInv, AlarmInv, WarDetected, Goto, Return
<1>8. ResumeInv'
  BY PatcherAssumption, NoneFacts DEF ClusterOK, LocalsOK, GateOK, LiveInv, WindowInv, AlarmInv, ResumeInv, WarDetected, Goto, Return
<1> QED BY <1>1, <1>2, <1>3, <1>4, <1>5, <1>6, <1>7, <1>8

\* The apply succeeds.
LEMMA AppliedIInv ==
    ASSUME IInv, Applied
    PROVE  IInv'
<1> USE DEF IInv, TypeOK, cluster, locals, gate, gauges, history
<1>1. ClusterOK'
  BY MergeFacts, NoneFacts DEF ClusterOK, LocalsOK, Applied, Succeed, DetectorCleared, Goto, Return
<1>2. LocalsOK'
  BY MergeFacts, NoneFacts DEF ClusterOK, LocalsOK, Applied, Succeed, DetectorCleared, Goto, Return
<1>3. GateOK'
  <2>1. level' \in 0 .. Capacity /\ attempts' \in 0 .. Threshold
    BY PatcherAssumption DEF GateOK, Applied, Succeed, DetectorCleared, Goto, Return
  <2>2. emitted' \in BOOLEAN
    BY DEF GateOK, Applied, Succeed, DetectorCleared, Goto, Return
  <2> QED BY <2>1, <2>2 DEF GateOK
<1>4. GaugesOK'
  BY DEF GaugesOK, Applied, Succeed, DetectorCleared, Goto, Return
<1>5. HistoryOK'
  BY PatcherAssumption DEF HistoryOK, Applied, Succeed, DetectorCleared, Goto, Return
<1>6. LiveInv' /\ WindowInv'
  BY MergeFacts, NoneFacts DEF ClusterOK, LocalsOK, LiveInv, WindowInv, Applied, Succeed, DetectorCleared, Goto, Return
<1>7. EmitInv' /\ AlarmInv'
  BY PatcherAssumption DEF GateOK, HistoryOK, LiveInv, EmitInv, AlarmInv, Applied, Succeed, DetectorCleared, Goto, Return
<1>8. ResumeInv'
  BY PatcherAssumption, MergeFacts, NoneFacts DEF ClusterOK, LocalsOK, GateOK, LiveInv, WindowInv, AlarmInv, ResumeInv, Applied, Succeed, DetectorCleared, Goto, Return
<1> QED BY <1>1, <1>2, <1>3, <1>4, <1>5, <1>6, <1>7, <1>8

\* The apply fails, or its answer is lost.
LEMMA ApplyFailedIInv ==
    ASSUME IInv, ApplyFailed
    PROVE  IInv'
<1> USE DEF IInv, TypeOK, cluster, locals, gate, gauges, history
<1>1. ClusterOK'
  BY MergeFacts, NoneFacts DEF ClusterOK, LocalsOK, ApplyFailed, Disturb, Return
<1>2. LocalsOK'
  BY MergeFacts, NoneFacts DEF ClusterOK, LocalsOK, ApplyFailed, Disturb, Return
<1>3. GateOK'
  BY PatcherAssumption DEF GateOK, ApplyFailed, Disturb, Return
<1>4. GaugesOK'
  BY DEF GaugesOK, ApplyFailed, Disturb, Return
<1>5. HistoryOK'
  BY PatcherAssumption DEF HistoryOK, ApplyFailed, Disturb, Return
<1>6. LiveInv' /\ WindowInv'
  BY MergeFacts, NoneFacts DEF ClusterOK, LocalsOK, LiveInv, WindowInv, ApplyFailed, Disturb, Return
<1>7. EmitInv' /\ AlarmInv'
  BY PatcherAssumption DEF GateOK, HistoryOK, LiveInv, EmitInv, AlarmInv, ApplyFailed, Disturb, Return
<1>8. ResumeInv'
  BY PatcherAssumption, MergeFacts, NoneFacts DEF ClusterOK, LocalsOK, GateOK, LiveInv, WindowInv, AlarmInv, ResumeInv, ApplyFailed, Disturb, Return
<1> QED BY <1>1, <1>2, <1>3, <1>4, <1>5, <1>6, <1>7, <1>8

\* The pause annotation is written, or not.
LEMMA PauseIInv ==
    ASSUME IInv, Annotated \/ AnnotateFailed
    PROVE  IInv'
<1> USE DEF IInv, TypeOK, cluster, locals, gate, gauges, history
<1>1. ClusterOK'
  BY PauseFacts, NoneFacts DEF ClusterOK, LocalsOK, LiveInv, Annotated, AnnotateFailed, PauseWritten, Disturb, Return
<1>2. LocalsOK'
  BY PauseFacts, NoneFacts DEF ClusterOK, LocalsOK, Annotated, AnnotateFailed, PauseWritten, Disturb, Return
<1>3. GateOK'
  BY PatcherAssumption DEF GateOK, Annotated, AnnotateFailed, PauseWritten, Disturb, Return
<1>4. GaugesOK'
  BY DEF GaugesOK, Annotated, AnnotateFailed, PauseWritten, Disturb, Return
<1>5. HistoryOK'
  <2>1. alarms' \in Nat /\ pauses' \in Nat /\ moves' \in 0 .. MaxMoves
    BY PatcherAssumption DEF HistoryOK, Annotated, AnnotateFailed, PauseWritten, Disturb, Return
  <2>2. held' \in BOOLEAN /\ resumed' \in BOOLEAN /\ foreign' \in BOOLEAN
    BY DEF HistoryOK, Annotated, AnnotateFailed, PauseWritten, Disturb, Return
  <2> QED BY <2>1, <2>2 DEF HistoryOK
<1>6. LiveInv' /\ WindowInv'
  BY PauseFacts, NoneFacts DEF ClusterOK, LocalsOK, LiveInv, WindowInv, Annotated, AnnotateFailed, PauseWritten, Disturb, Return
<1>7. EmitInv' /\ AlarmInv'
  BY PatcherAssumption DEF GateOK, HistoryOK, LiveInv, EmitInv, AlarmInv, Annotated, AnnotateFailed, PauseWritten, Disturb, Return
<1>8. ResumeInv'
  BY PatcherAssumption, PauseFacts, NoneFacts DEF ClusterOK, LocalsOK, GateOK, LiveInv, WindowInv, AlarmInv, ResumeInv, Annotated, AnnotateFailed, PauseWritten, Disturb, Return
<1> QED BY <1>1, <1>2, <1>3, <1>4, <1>5, <1>6, <1>7, <1>8

\* A restart.
LEMMA RestartIInv ==
    ASSUME IInv, Restart
    PROVE  IInv'
<1> USE DEF IInv, TypeOK, cluster, locals, gate, gauges, history
<1>1. ClusterOK'
  BY NoneFacts DEF ClusterOK, LocalsOK, Restart, DetectorCleared, Disturb, Return
<1>2. LocalsOK'
  BY NoneFacts DEF ClusterOK, LocalsOK, Restart, DetectorCleared, Disturb, Return
<1>3. GateOK'
  <2>1. level' \in 0 .. Capacity /\ attempts' \in 0 .. Threshold
    BY PatcherAssumption DEF GateOK, Restart, DetectorCleared, Disturb, Return
  <2>2. emitted' \in BOOLEAN
    BY DEF GateOK, Restart, DetectorCleared, Disturb, Return
  <2> QED BY <2>1, <2>2 DEF GateOK
<1>4. GaugesOK'
  BY DEF GaugesOK, Restart, DetectorCleared, Disturb, Return
<1>5. HistoryOK'
  <2>1. alarms' \in Nat /\ pauses' \in Nat /\ moves' \in 0 .. MaxMoves
    BY PatcherAssumption DEF HistoryOK, Restart, DetectorCleared, Disturb, Return
  <2>2. held' \in BOOLEAN /\ resumed' \in BOOLEAN /\ foreign' \in BOOLEAN
    BY DEF HistoryOK, Restart, DetectorCleared, Disturb, Return
  <2> QED BY <2>1, <2>2 DEF HistoryOK
<1>6. LiveInv' /\ WindowInv'
  BY NoneFacts DEF ClusterOK, LocalsOK, LiveInv, WindowInv, Restart, DetectorCleared, Disturb, Return
<1>7. EmitInv' /\ AlarmInv'
  BY PatcherAssumption DEF GateOK, HistoryOK, LiveInv, EmitInv, AlarmInv, Restart, DetectorCleared, Disturb, Return
<1>8. ResumeInv'
  BY PatcherAssumption, NoneFacts DEF ClusterOK, LocalsOK, GateOK, LiveInv, WindowInv, AlarmInv, ResumeInv, Restart, DetectorCleared, Disturb, Return
<1> QED BY <1>1, <1>2, <1>3, <1>4, <1>5, <1>6, <1>7, <1>8

\* A token comes back.
LEMMA RefillIInv ==
    ASSUME IInv, Refill
    PROVE  IInv'
<1> USE DEF IInv, TypeOK, cluster, locals, gate, gauges, history
<1>1. ClusterOK'
  BY DEF ClusterOK, LocalsOK, Refill
<1>2. LocalsOK'
  BY DEF ClusterOK, LocalsOK, Refill
<1>3. GateOK'
  BY PatcherAssumption DEF GateOK, Refill
<1>4. GaugesOK'
  BY DEF GaugesOK, Refill
<1>5. HistoryOK'
  BY PatcherAssumption DEF HistoryOK, Refill
<1>6. LiveInv' /\ WindowInv'
  BY DEF ClusterOK, LocalsOK, LiveInv, WindowInv, Refill
<1>7. EmitInv' /\ AlarmInv'
  BY PatcherAssumption DEF GateOK, HistoryOK, LiveInv, EmitInv, AlarmInv, Refill
<1>8. ResumeInv'
  BY PatcherAssumption DEF ClusterOK, LocalsOK, GateOK, LiveInv, WindowInv, AlarmInv, ResumeInv, Refill
<1> QED BY <1>1, <1>2, <1>3, <1>4, <1>5, <1>6, <1>7, <1>8

\* A reconcile that gives up, or finds nothing to do.
LEMMA AbandonIInv ==
    ASSUME IInv, Return,
           UNCHANGED <<cluster, gate, alarms, pauses, held, resumed, foreign>>,
           GaugesOK', moves' \in 0 .. MaxMoves
    PROVE  IInv'
<1> USE DEF IInv, TypeOK, cluster, gate
<1>1. ClusterOK'
  BY DEF ClusterOK
<1>2. LocalsOK'
  BY NoneFacts DEF LocalsOK, Return
<1>3. GateOK'
  BY DEF GateOK
<1>4. HistoryOK'
  BY DEF HistoryOK
<1>5. LiveInv' /\ WindowInv'
  BY DEF LiveInv, WindowInv, Return
<1>6. EmitInv' /\ AlarmInv'
  BY DEF EmitInv, AlarmInv, Return
<1>7. ResumeInv'
  BY DEF ResumeInv, Return
<1> QED BY <1>1, <1>2, <1>3, <1>4, <1>5, <1>6, <1>7

LEMMA GiveUpIInv ==
    ASSUME IInv,
           \/ GetFailed \/ GetPaused \/ DryRunFailed \/ NoDrift
           \/ NamespaceUnknown \/ NamespaceMissing \/ ApplyNoNamespace
           \/ FreshCopyFailed \/ AnnotateConflict
    PROVE  IInv'
<1> USE DEF GetFailed, GetPaused, DryRunFailed, NoDrift, NamespaceUnknown, NamespaceMissing,
            ApplyNoNamespace, FreshCopyFailed, AnnotateConflict
<1>1. Return /\ UNCHANGED <<cluster, gate, alarms, pauses, held, resumed, foreign>>
  BY DEF history
<1>2. GaugesOK'
  BY DEF IInv, TypeOK, GaugesOK, gauges
<1>3. moves' \in 0 .. MaxMoves
  BY PatcherAssumption DEF IInv, TypeOK, HistoryOK, history, Disturb
<1> QED BY <1>1, <1>2, <1>3, AbandonIInv

\* Someone else writes the object.  Nobody but the operator writes its pause.
LEMMA WriteIInv ==
    ASSUME IInv, NEW o \in Object, WriteObject(o),
           ~o.exists => o = NoObject,
           Namespaced /\ o.exists => nsExists,
           o.paused = "operator" => obj.paused = "operator",
           resumed' \in BOOLEAN, foreign' \in BOOLEAN,
           resumed' => resumed \/ obj.paused = "operator"
    PROVE  IInv'
<1> USE DEF IInv, TypeOK, WriteObject, Disturb, gate, gauges
<1>1. ClusterOK'
  BY DEF ClusterOK
<1>2. LocalsOK'
  BY DEF LocalsOK
<1>3. GateOK' /\ GaugesOK'
  BY DEF GateOK, GaugesOK
<1>4. HistoryOK'
  <2>1. moves' \in 0 .. MaxMoves
    BY PatcherAssumption DEF HistoryOK
  <2> QED BY <2>1 DEF HistoryOK
<1>5. LiveInv' /\ WindowInv'
  BY DEF LiveInv, WindowInv
<1>6. EmitInv' /\ AlarmInv'
  BY DEF EmitInv, AlarmInv
<1>7. ResumeInv'
  BY DEF WindowInv, ResumeInv
<1> QED BY <1>1, <1>2, <1>3, <1>4, <1>5, <1>6, <1>7

LEMMA ObjectWrittenIInv ==
    ASSUME IInv,
           ForeignEdit \/ ForeignDelete \/ ForeignCreate \/ UserPause \/ UserResume \/ UserCustomize
    PROVE  IInv'
<1> USE DEF IInv, TypeOK
<1>0. obj \in Object /\ resumed \in BOOLEAN /\ foreign \in BOOLEAN
      /\ (Namespaced /\ obj.exists => nsExists)
  BY DEF ClusterOK, HistoryOK
<1>1. CASE ForeignEdit
  <2>1. PICK s \in Specs : WriteObject([obj EXCEPT !.spec = s])
    BY <1>1 DEF ForeignEdit
  <2>2. /\ [obj EXCEPT !.spec = s] \in Object
        /\ [obj EXCEPT !.spec = s].exists = obj.exists
        /\ [obj EXCEPT !.spec = s].paused = obj.paused
    BY <1>0 DEF Object
  <2>3. resumed' = resumed /\ foreign' = TRUE /\ obj.exists
    BY <1>1 DEF ForeignEdit
  <2> QED BY <1>0, <2>1, <2>2, <2>3, WriteIInv
<1>2. CASE ForeignDelete
  <2>1. WriteObject(NoObject) /\ resumed' = resumed /\ foreign' = TRUE
    BY <1>2 DEF ForeignDelete
  <2> QED BY <1>0, <2>1, NoneFacts, WriteIInv
<1>3. CASE ForeignCreate
  <2> DEFINE o == [NoObject EXCEPT !.exists = TRUE, !.spec = "edited"]
  <2>1. o \in Object /\ o.exists /\ o.paused = "no"
    BY DEF NoObject, Object, Specs, AllOverrides
  <2>2. WriteObject(o) /\ (Namespaced => nsExists) /\ resumed' = resumed /\ foreign' = TRUE
    BY <1>3 DEF ForeignCreate
  <2> HIDE DEF o
  <2> QED BY <1>0, <2>1, <2>2, WriteIInv
<1>4. CASE UserPause
  <2> DEFINE o == [obj EXCEPT !.paused = "user"]
  <2>1. o \in Object /\ o.exists = obj.exists /\ o.paused = "user"
    BY <1>0 DEF Object
  <2>2. WriteObject(o) /\ obj.exists /\ resumed' = resumed /\ foreign' = foreign
    BY <1>4 DEF UserPause
  <2> HIDE DEF o
  <2> QED BY <1>0, <2>1, <2>2, WriteIInv
<1>5. CASE UserResume
  <2> DEFINE o == [obj EXCEPT !.paused = "no"]
  <2>1. o \in Object /\ o.exists = obj.exists /\ o.paused = "no"
    BY <1>0 DEF Object
  <2>2. /\ WriteObject(o) /\ obj.exists /\ foreign' = foreign
        /\ resumed' \in BOOLEAN /\ (resumed' => resumed \/ obj.paused = "operator")
    BY <1>5, Zenon DEF UserResume
  <2> HIDE DEF o
  <2> QED BY <1>0, <2>1, <2>2, WriteIInv
<1>6. CASE UserCustomize
  <2>1. obj.exists /\ resumed' = resumed /\ foreign' = foreign
    BY <1>6 DEF UserCustomize
  <2>2. CASE \E v \in Overrides : WriteObject([obj EXCEPT !.override = v])
    <3>1. PICK v \in Overrides : WriteObject([obj EXCEPT !.override = v])
      BY <2>2
    <3> DEFINE o == [obj EXCEPT !.override = v]
    <3>2. o \in Object /\ o.exists = obj.exists /\ o.paused = obj.paused
      BY <1>0, PatcherAssumption DEF Object
    <3>3. WriteObject(o)
      BY <3>1
    <3> HIDE DEF o
    <3> QED BY <1>0, <2>1, <3>2, <3>3, WriteIInv
  <2>3. CASE WriteObject([obj EXCEPT !.unmanaged = ~@])
    <3> DEFINE o == [obj EXCEPT !.unmanaged = ~@]
    <3>1. o \in Object /\ o.exists = obj.exists /\ o.paused = obj.paused
      BY <1>0 DEF Object
    <3>2. WriteObject(o)
      BY <2>3
    <3> HIDE DEF o
    <3> QED BY <1>0, <2>1, <3>1, <3>2, WriteIInv
  <2> QED BY <1>6, <2>2, <2>3 DEF UserCustomize
<1> QED BY <1>1, <1>2, <1>3, <1>4, <1>5, <1>6

\* The rendered asset, the exclusion or the namespace changes.
LEMMA SurroundingsIInv ==
    ASSUME IInv, Rerender \/ UserExclude \/ NamespaceToggled
    PROVE  IInv'
<1> USE DEF IInv, TypeOK, Rerender, UserExclude, NamespaceToggled, Disturb, locals, gate, gauges
<1>1. ClusterOK'
  BY NoneFacts DEF ClusterOK
<1>2. LocalsOK'
  BY DEF LocalsOK
<1>3. GateOK' /\ GaugesOK'
  BY DEF GateOK, GaugesOK
<1>4. HistoryOK'
  <2>1. moves' \in 0 .. MaxMoves
    BY PatcherAssumption DEF HistoryOK
  <2>2. foreign' \in BOOLEAN
    BY DEF HistoryOK
  <2> QED BY <2>1, <2>2 DEF HistoryOK
<1>5. LiveInv' /\ WindowInv'
  BY NoneFacts DEF LiveInv, WindowInv
<1>6. EmitInv' /\ AlarmInv'
  BY DEF EmitInv, AlarmInv
<1>7. ResumeInv'
  BY NoneFacts DEF ResumeInv
<1> QED BY <1>1, <1>2, <1>3, <1>4, <1>5, <1>6, <1>7

\* Every step keeps the invariant.
LEMMA NextIInv == IInv /\ [Next]_vars => IInv'
<1> SUFFICES ASSUME IInv, [Next]_vars PROVE IInv'
  OBVIOUS
<1>1. CASE ReconcileStep
  BY <1>1, SkipIInv, CleanupIInv, BeginIInv, ClearIInv, GetManagedIInv, GotoIInv, AdmittedIInv, WarIInv,
     AppliedIInv, ApplyFailedIInv, PauseIInv, GiveUpIInv DEF ReconcileStep, Cleanup
<1>2. CASE Restart
  BY <1>2, RestartIInv
<1>3. CASE Environment
  BY <1>3, RefillIInv, ObjectWrittenIInv, SurroundingsIInv DEF Environment
<1>4. CASE UNCHANGED vars
  <2> USE <1>4 DEF vars, IInv, TypeOK
  <2>1. ClusterOK' /\ LocalsOK'
    BY DEF ClusterOK, LocalsOK
  <2>2. GateOK' /\ GaugesOK' /\ HistoryOK'
    BY DEF GateOK, GaugesOK, HistoryOK
  <2>3. LiveInv' /\ WindowInv'
    BY DEF LiveInv, WindowInv
  <2>4. EmitInv' /\ AlarmInv'
    BY DEF EmitInv, AlarmInv
  <2>5. ResumeInv'
    BY DEF ResumeInv
  <2> QED
    BY <2>1, <2>2, <2>3, <2>4, <2>5
<1> QED BY <1>1, <1>2, <1>3, <1>4 DEF Next

LEMMA Invariance == Spec => []IInv
  BY InitIInv, NextIInv, PTL DEF Spec

-----------------------------------------------------------------------------
(* The theorems *)

\* Bucket, detector and all other state of ReconcileAsset keep their ranges.
THEOREM TypeCorrect == Spec => []TypeOK
<1>1. IInv => TypeOK
  BY DEF IInv
<1> QED BY Invariance, <1>1, PTL

\* Every pause was announced on thrashing_total (EmitInv and AlarmInv).
THEOREM PausesAnnounced == Spec => []EveryPauseAnnounced
<1>1. IInv => EveryPauseAnnounced
  BY DEF IInv, AlarmInv, EveryPauseAnnounced
<1> QED BY Invariance, <1>1, PTL

\* The steps of ReconcileAsset that write the object come after the check for the
\* annotation, when the operator's own pause is not there.
LEMMA WritersAreLate ==
    ASSUME IInv, ReconcileStep, obj.paused = "operator"
    PROVE  obj' = obj
<1>1. pc \in {"idle", "get"}
  BY DEF IInv, WindowInv
<1>2. ~Applied /\ ~ApplyFailed /\ ~Annotated /\ ~AnnotateFailed
  BY <1>1 DEF Applied, ApplyFailed, Annotated, AnnotateFailed
<1> QED BY <1>2 DEF ReconcileStep, SkipNotRendered, SkipExcluded, Cleanup, CleanupExcludedAsset, Begin, GetFailed, GetPaused,
       GetUnmanaged, GetUnmaskable, GetManaged, GetMissing, DryRunFailed, NoDrift, Drifted,
       NamespaceUnknown, NamespaceMissing, Admitted, Throttled, WarDetected, ApplyNoNamespace,
       FreshCopyRead, FreshCopyFailed, AnnotateConflict, vars, cluster

\* The operator leaves an object alone while its own pause is on it (WindowInv).
THEOREM PauseRespected == Spec => HandsOffWhilePaused
<1>1. IInv /\ [Next]_vars => [ReconcileStep /\ obj.paused = "operator" => obj' = obj]_vars
  BY WritersAreLate
<1> QED BY Invariance, <1>1, PTL DEF Spec, HandsOffWhilePaused

\* Only setPauseAnnotation counts pauses.
LEMMA PausesAtAnnotate ==
    ASSUME IInv, Next, pauses' # pauses
    PROVE  pc = "annotate"
<1>1. CASE ReconcileStep
  BY <1>1 DEF ReconcileStep, SkipNotRendered, SkipExcluded, Cleanup, CleanupExcludedAsset, Begin, GetFailed, GetPaused,
       GetUnmanaged, GetUnmaskable, GetManaged, GetMissing, DryRunFailed, NoDrift, Drifted,
       NamespaceUnknown, NamespaceMissing, Admitted, Throttled, WarDetected, ApplyNoNamespace,
       FreshCopyRead, FreshCopyFailed, AnnotateConflict, Applied, ApplyFailed, Annotated,
       AnnotateFailed, vars, history
<1>2. CASE Restart
  BY <1>2 DEF Restart
<1>3. CASE Environment
  BY <1>3 DEF Environment, Refill, ForeignEdit, ForeignDelete, ForeignCreate, UserPause,
       UserResume, UserCustomize, UserExclude, Rerender, NamespaceToggled, WriteObject, history
<1> QED BY <1>1, <1>2, <1>3 DEF Next

\* After a resume the operator applies before it pauses again (ResumeInv).
THEOREM ResumeHonoured == Spec => ResumeIsHonoured
<1>1. IInv /\ [Next]_vars => [pauses' > pauses => ~resumed]_vars
  <2> SUFFICES ASSUME IInv, Next, pauses' > pauses PROVE ~resumed
    OBVIOUS
  <2>1. pauses \in Nat /\ pauses' \in Nat
    BY NextIInv DEF IInv, TypeOK, HistoryOK
  <2>2. pc = "annotate"
    BY <2>1, PausesAtAnnotate
  <2> QED BY <2>2 DEF IInv, ResumeInv
<1> QED BY Invariance, <1>1, PTL DEF Spec, ResumeIsHonoured

-----------------------------------------------------------------------------
(* The asset at rest.  Converges says that disturbances are followed by a state *)
(* that is Settled for good.  That such a state is reached is left to the model *)
(* checker; which states these are, that nothing but a disturbance leads out of *)
(* them, and that one reconcile leads into them, is proved here.                *)

\* What is about to be applied is what the live object asks for at present.
UpToDate == desired = Effective(golden, obj)

\* Settled for a reconcile that is already past the exclusions.
ObjectSettled ==
    \/ Namespaced /\ ~nsExists
    \/ obj.exists /\ (IsPaused(obj) \/ obj.unmanaged \/ obj.override = "badIgnore")
    \/ InSync

\* The asset is settled, and the reconcile under way, if any, is working on the
\* cluster as it is.
AtRest ==
    \/ pc = "idle" /\ Settled
    \/ pc = "get" /\ desired.spec = golden /\ ObjectSettled
    \/ pc = "drift" /\ live = obj /\ UpToDate /\ InSync
    \/ pc \in {"apply", "clear"} /\ UpToDate /\ InSync
    \/ Namespaced /\ ~nsExists /\ pc # "annotate"

\* A reconcile since whose start nothing happened to the cluster.
Undisturbed ==
    \/ pc = "get" /\ desired = [spec |-> golden, carries |-> "none", hash |-> golden]
    \/ pc = "drift" /\ live = obj /\ obj.exists /\ UpToDate
    \/ pc \in {"coalesce", "namespace", "apply"} /\ UpToDate /\ (live.exists => obj.exists)
    \/ pc = "clear" /\ InSync
    \/ pc = "freshCopy" /\ obj.exists
    \/ pc = "annotate" /\ obj.exists /\ ~conflict

\* Nothing the operator does by itself, no pass of time included, leads out of a
\* state at rest, and in such a state the object is neither written nor paused:
\* the drift check of DetectDrift finds nothing in what an apply has left behind,
\* whatever the customization annotations (drift.go 44-91, patcher.go 291-370).
RestIsKept ==
    [][AtRest /\ moves' = moves => AtRest' /\ obj' = obj /\ pauses' = pauses]_vars

\* From its start, a reconcile that nothing disturbs goes on, or ends with the
\* asset settled, or was refused by an empty token bucket: no customization, no missing object and
\* no edit war makes it end without effect (ReconcileAsset as a whole).
ReconcileSettles ==
    [][(Begin \/ Undisturbed) /\ moves' = moves
         => Undisturbed' \/ (pc' = "idle" /\ (Settled' \/ (pc = "namespace" /\ level = 0)))]_vars

\* An apply of what the object asks for leaves an object that asks for the same,
\* and applying it once more changes nothing.
LEMMA ApplyIsIdempotent ==
    ASSUME NEW s \in Specs \cup {NotRendered}, NEW o \in Object
    PROVE  LET d == Effective(s, o)
               a == Merge(o, d)
           IN  /\ a.spec = d.spec /\ Effective(s, a) = d /\ Merge(a, d) = a
               /\ o.exists /\ o.spec = d.spec => a = o
<1> DEFINE d == Effective(s, o)
           a == Merge(o, d)
<1>1. d.spec \in Specs \cup {NotRendered} /\ d.carries \in {"none", "patch", "misfitPatch"}
  BY EffectiveFacts DEF Desired
<1>2. /\ d.carries # "none" => d.carries = o.override
      /\ d.spec = CASE o.override = "patch" -> "custom" [] o.override = "ignore" -> o.spec [] OTHER -> s
  BY DEF Effective
<1>3. a = [o EXCEPT !.exists = TRUE, !.spec = d.spec]
  BY <1>2 DEF Merge, Object
<1>4. a.spec = d.spec /\ a.override = o.override /\ a.exists
  BY <1>3 DEF Object
<1>5. Effective(s, a) = d
  BY <1>2, <1>4 DEF Effective
<1>6. Merge(a, d) = a
  BY <1>2, <1>3, <1>4 DEF Merge, Object
<1>7. o.exists /\ o.spec = d.spec => a = o
  BY <1>3 DEF Object
<1> QED BY <1>4, <1>5, <1>6, <1>7

\* A step without disturbance.
LEMMA CalmStep == ASSUME IInv, moves' = moves PROVE ~Disturb
  BY DEF IInv, TypeOK, HistoryOK, Disturb

\* Which steps of ReconcileAsset there are at each of its requests.
LEMMA StepsAt ==
    ASSUME ReconcileStep
    PROVE  /\ pc = "idle" => SkipNotRendered \/ SkipExcluded \/ Cleanup \/ Begin
           /\ pc = "get" => \/ GetFailed \/ GetPaused \/ GetUnmanaged \/ GetUnmaskable
                            \/ GetManaged \/ GetMissing
           /\ pc = "drift" => DryRunFailed \/ NoDrift \/ Drifted
           /\ pc = "namespace" => \/ NamespaceUnknown \/ NamespaceMissing \/ Admitted
                                  \/ Throttled \/ WarDetected
           /\ pc = "apply" => Applied \/ ApplyFailed \/ ApplyNoNamespace
           /\ pc = "freshCopy" => FreshCopyRead \/ FreshCopyFailed
           /\ pc = "annotate" => Annotated \/ AnnotateFailed \/ AnnotateConflict
           /\ pc \in {"idle", "get", "drift", "namespace", "apply", "freshCopy", "annotate"}
  BY DEF ReconcileStep, SkipNotRendered, SkipExcluded, Cleanup, CleanupExcludedAsset, Begin, GetFailed,
     GetPaused, GetUnmanaged, GetUnmaskable, GetManaged, GetMissing, DryRunFailed, NoDrift, Drifted,
     NamespaceUnknown, NamespaceMissing, Admitted, Throttled, WarDetected, Applied, ApplyFailed,
     ApplyNoNamespace, FreshCopyRead, FreshCopyFailed, Annotated, AnnotateFailed, AnnotateConflict

\* An object in sync is left as it is by an apply of what it asks for.
LEMMA SyncedApply == ASSUME IInv, InSync, UpToDate PROVE Merge(obj, desired) = obj
<1>1. obj \in Object /\ golden \in Specs \cup {NotRendered}
  BY DEF IInv, TypeOK, ClusterOK, Specs
<1> QED BY <1>1, ApplyIsIdempotent DEF InSync, UpToDate

LEMMA RestIsSettled == AtRest => Settled
  BY DEF AtRest, ObjectSettled, Settled

\* The steps of ReconcileAsset in a state at rest.
LEMMA ReconcileAtRest ==
    ASSUME IInv, ReconcileStep, moves' = moves, AtRest
    PROVE  AtRest' /\ obj' = obj /\ pauses' = pauses
<1> USE CalmStep
<1>1. CASE pc = "idle"
  <2>1. Settled
    BY RestIsSettled
  <2>2. CASE SkipNotRendered \/ SkipExcluded \/ Cleanup
    <3>1. UNCHANGED <<cluster, pc, pauses>>
      BY <2>2 DEF SkipNotRendered, SkipExcluded, Cleanup, CleanupExcludedAsset, vars, cluster, locals, history
    <3> QED BY <1>1, <2>1, <3>1 DEF AtRest, Settled, InSync, cluster
  <2>3. CASE Begin
    <3>1. UNCHANGED <<cluster, pauses>> /\ pc' = "get" /\ desired'.spec = golden
      BY <2>3 DEF Begin, cluster, history
    <3>2. ObjectSettled
      BY <2>1, <2>3 DEF Begin, Settled, ObjectSettled
    <3> QED BY <3>1, <3>2 DEF AtRest, ObjectSettled, InSync, cluster
  <2> QED BY <1>1, <2>2, <2>3, StepsAt
<1>2. CASE pc = "get"
  <2>1. UNCHANGED <<cluster, pauses>>
    BY <1>2, StepsAt DEF GetFailed, GetPaused, GetUnmanaged, GetUnmaskable, GetManaged, GetMissing, cluster, history
  <2>2. Settled'
    BY <2>1, RestIsSettled DEF Settled, InSync, cluster
  <2>3. CASE pc' = "idle"
    BY <2>1, <2>2, <2>3 DEF AtRest, cluster
  <2>4. CASE GetManaged
    <3>1. CASE Namespaced /\ ~nsExists
      <4>1. pc' = "drift" /\ live' = obj
        BY <2>4 DEF GetManaged
      <4>2. obj' = obj /\ nsExists' = nsExists
        BY <2>1 DEF cluster
      <4> QED BY <2>1, <3>1, <4>1, <4>2 DEF AtRest
    <3>2. CASE ~(Namespaced /\ ~nsExists)
      <4>1. desired.spec = golden /\ InSync
        BY <1>2, <2>4, <3>2 DEF AtRest, ObjectSettled, GetManaged
      <4>2. pc' = "drift" /\ live' = obj' /\ UpToDate' /\ InSync'
        BY <2>1, <2>4, <4>1 DEF GetManaged, UpToDate, InSync, cluster
      <4> QED BY <2>1, <4>2 DEF AtRest, cluster
    <3> QED BY <3>1, <3>2
  <2>5. CASE GetMissing
    <3>1. Namespaced /\ ~nsExists /\ pc' = "namespace"
      BY <1>2, <2>5 DEF AtRest, ObjectSettled, InSync, GetMissing, Goto
    <3> QED BY <2>1, <3>1 DEF AtRest, cluster
  <2> QED BY <1>2, <2>3, <2>4, <2>5, StepsAt DEF GetFailed, GetPaused, GetUnmanaged, GetUnmaskable, Return
<1>3. CASE pc = "drift"
  <2>1. UNCHANGED <<cluster, pauses>>
    BY <1>3, StepsAt DEF DryRunFailed, NoDrift, Drifted, cluster, history
  <2>2. CASE pc' = "idle"
    BY <2>1, <2>2, RestIsSettled DEF AtRest, Settled, InSync, cluster
  <2>3. CASE Drifted
    <3>1. obj.exists
      BY <1>3, <2>3 DEF AtRest, InSync, Drifted
    <3>2. UpToDate /\ InSync /\ live = obj
      BY <1>3, <2>3 DEF AtRest, Drifted
    <3> QED BY <2>3, <3>2, SyncedApply DEF Drifted, DriftDetected
  <2> QED BY <1>3, <2>2, <2>3, <2>1, StepsAt DEF DryRunFailed, NoDrift, Return
<1>4. CASE pc \in {"namespace", "freshCopy"}
  <2>1. Namespaced /\ ~nsExists /\ ~obj.exists
    BY <1>4 DEF AtRest, IInv, TypeOK, ClusterOK
  <2>2. UNCHANGED <<cluster, pauses>> /\ pc' = "idle"
    BY <1>4, <2>1, StepsAt DEF NamespaceUnknown, NamespaceMissing, Admitted, Throttled, WarDetected,
       FreshCopyRead, FreshCopyFailed, Return, cluster, history
  <2> QED BY <2>1, <2>2 DEF AtRest, Settled, cluster
<1>5. CASE pc = "apply"
  <2>1. CASE Applied
    <3>1. UpToDate /\ InSync
      BY <1>5, <2>1 DEF AtRest, Applied
    <3>2. obj' = obj
      BY <2>1, <3>1, SyncedApply DEF Applied
    <3>3. UNCHANGED <<golden, excluded, nsExists, pauses>>
      BY <2>1 DEF Applied
    <3>4. pc' = "idle" \/ (pc' = "clear" /\ desired' = desired)
      BY <2>1 DEF Applied, Succeed, Return, Goto
    <3>5. InSync' /\ Settled' /\ (desired' = desired => UpToDate')
      BY <3>1, <3>2, <3>3 DEF InSync, Settled, UpToDate
    <3> QED BY <3>2, <3>3, <3>4, <3>5 DEF AtRest
  <2>2. CASE ApplyNoNamespace
    BY <2>2 DEF ApplyNoNamespace, Return, AtRest, Settled, cluster, history
  <2> QED BY <1>5, <2>1, <2>2, StepsAt DEF ApplyFailed
<1> QED BY <1>1, <1>2, <1>3, <1>4, <1>5, StepsAt DEF AtRest

\* The steps of a reconcile that nothing disturbs.
LEMMA ReconcileUndisturbed ==
    ASSUME IInv, ReconcileStep, moves' = moves, Undisturbed
    PROVE  Undisturbed' \/ (pc' = "idle" /\ (Settled' \/ (pc = "namespace" /\ level = 0)))
<1> USE CalmStep
<1>0. obj \in Object /\ golden \in Specs \cup {NotRendered}
  BY DEF IInv, TypeOK, ClusterOK, Specs
<1>1. CASE pc = "get"
  <2>1. /\ UNCHANGED cluster /\ live = NoObject
        /\ desired = [spec |-> golden, carries |-> "none", hash |-> golden]
    BY <1>1, StepsAt DEF GetFailed, GetPaused, GetUnmanaged, GetUnmaskable, GetManaged, GetMissing,
       Undisturbed, IInv, LiveInv
  <2>2. CASE GetPaused \/ GetUnmanaged \/ GetUnmaskable
    BY <2>1, <2>2 DEF GetPaused, GetUnmanaged, GetUnmaskable, Return, Settled, IsPaused, cluster
  <2>3. CASE GetManaged
    BY <2>1, <2>3 DEF GetManaged, Undisturbed, UpToDate, cluster
  <2>4. CASE GetMissing
    <3>1. obj = NoObject
      BY <2>4 DEF GetMissing, IInv, TypeOK, ClusterOK
    <3>2. desired = Effective(golden, obj)
      BY <1>1, <2>1, <3>1 DEF Effective, NoObject
    <3>3. pc' = "namespace" /\ desired' = desired /\ live' = live
      BY <2>4 DEF GetMissing, Goto
    <3> QED BY <2>1, <3>2, <3>3, NoneFacts DEF Undisturbed, UpToDate, cluster
  <2> QED BY <1>1, <2>2, <2>3, <2>4, StepsAt DEF GetFailed
<1>2. CASE pc = "drift"
  <2>1. UNCHANGED cluster /\ live = obj /\ obj.exists /\ UpToDate
    BY <1>2, StepsAt DEF DryRunFailed, NoDrift, Drifted, Undisturbed
  <2>2. CASE DryRunFailed
    BY <2>1, <2>2 DEF DryRunFailed, Return, Settled, cluster
  <2>3. CASE NoDrift
    <3>1. obj = Merge(obj, desired)
      BY <2>1, <2>3 DEF NoDrift, DriftDetected
    <3>2. InSync
      BY <1>0, <2>1, <3>1, ApplyIsIdempotent DEF InSync, UpToDate
    <3> QED BY <2>1, <2>3, <3>2 DEF NoDrift, Return, Settled, InSync, cluster
  <2>4. CASE Drifted
    BY <2>1, <2>4 DEF Drifted, Goto, Undisturbed, UpToDate, cluster
  <2> QED BY <1>2, <2>2, <2>3, <2>4, StepsAt
<1>3. CASE pc = "namespace"
  <2>1. UNCHANGED cluster /\ UpToDate /\ (live.exists => obj.exists)
    BY <1>3, StepsAt DEF NamespaceUnknown, NamespaceMissing, Admitted, Throttled, WarDetected, Undisturbed
  <2>2. CASE NamespaceMissing
    BY <2>1, <2>2 DEF NamespaceMissing, Return, Settled, cluster
  <2>3. CASE Admitted
    BY <2>1, <2>3 DEF Admitted, Goto, Undisturbed, UpToDate, cluster
  <2>4. CASE Throttled
    BY <1>3, <2>4 DEF Throttled, Return
  <2>5. CASE WarDetected
    BY <1>3, <2>1, <2>5 DEF WarDetected, Goto, Return, Undisturbed, cluster
  <2> QED BY <1>3, <2>2, <2>3, <2>4, <2>5, StepsAt DEF NamespaceUnknown
<1>4. CASE pc = "apply"
  <2>1. UpToDate
    BY <1>4 DEF Undisturbed
  <2>2. CASE Applied
    <3>1. UNCHANGED <<golden, excluded, nsExists>> /\ obj' = Merge(obj, desired)
      BY <2>2 DEF Applied
    <3>2. obj'.exists /\ obj'.spec = desired.spec /\ Effective(golden, obj') = desired
      BY <1>0, <2>1, <3>1, ApplyIsIdempotent, EffectiveFacts, MergeFacts DEF UpToDate
    <3>3. InSync'
      BY <3>1, <3>2 DEF InSync
    <3>4. pc' \in {"idle", "clear"}
      BY <2>2 DEF Applied, Succeed, Return, Goto
    <3> QED BY <3>3, <3>4 DEF Undisturbed, Settled
  <2>3. CASE ApplyNoNamespace
    BY <2>3 DEF ApplyNoNamespace, Return, Settled, cluster
  <2> QED BY <1>4, <2>2, <2>3, StepsAt DEF ApplyFailed
<1>5. CASE pc = "freshCopy"
  BY <1>5, StepsAt DEF FreshCopyRead, FreshCopyFailed, Undisturbed, cluster
<1>6. CASE pc = "annotate"
  <2>1. obj.exists /\ ~conflict
    BY <1>6 DEF Undisturbed
  <2>2. Annotated
    BY <1>6, <2>1, StepsAt DEF AnnotateFailed, AnnotateConflict
  <2>3. obj'.exists /\ IsPaused(obj')
    BY <1>0, <2>1, <2>2 DEF Annotated, PauseWritten, IsPaused, Object
  <2> QED BY <2>2, <2>3 DEF Annotated, Return, Settled
<1> QED BY <1>1, <1>2, <1>3, <1>4, <1>5, <1>6, StepsAt DEF Undisturbed

\* Without a disturbance, the operator takes a step or time passes.
LEMMA CalmNext == ASSUME IInv, Next, moves' = moves PROVE ReconcileStep \/ Refill
  BY CalmStep DEF Next, Restart, Environment, ForeignEdit, ForeignDelete, ForeignCreate, UserPause,
     UserResume, UserCustomize, UserExclude, Rerender, NamespaceToggled, WriteObject

\* Time matters neither to a state at rest nor to a reconcile.
LEMMA RefillIsHarmless ==
    ASSUME Refill \/ UNCHANGED vars
    PROVE  /\ AtRest => AtRest' /\ obj' = obj /\ pauses' = pauses
           /\ Undisturbed => Undisturbed'
<1>1. UNCHANGED <<cluster, locals, pauses>>
  BY DEF Refill, history, vars, cluster, locals
<1> QED BY <1>1 DEF AtRest, Undisturbed, Settled, ObjectSettled, InSync, UpToDate, cluster, locals

\* A reconcile that starts is undisturbed at first.
LEMMA BeginsUndisturbed == Begin => Undisturbed'
  BY DEF Begin, Undisturbed, cluster

\* RestIsKept for any assets, capacities, thresholds and numbers of disturbances:
\* a converged asset is not written again, and stays converged, until something
\* else happens to the cluster.
THEOREM RestKept == Spec => RestIsKept
<1>1. IInv /\ [Next]_vars => [AtRest /\ moves' = moves => AtRest' /\ obj' = obj /\ pauses' = pauses]_vars
  BY CalmNext, ReconcileAtRest, RefillIsHarmless
<1> QED BY Invariance, <1>1, PTL DEF Spec, RestIsKept

\* ReconcileSettles: what one undisturbed run of ReconcileAsset achieves.
THEOREM ReconcileIsEffective == Spec => ReconcileSettles
<1>1. IInv /\ [Next]_vars
        => [(Begin \/ Undisturbed) /\ moves' = moves
              => Undisturbed' \/ (pc' = "idle" /\ (Settled' \/ (pc = "namespace" /\ level = 0)))]_vars
  BY CalmNext, BeginsUndisturbed, ReconcileUndisturbed, RefillIsHarmless
<1> QED BY Invariance, <1>1, PTL DEF Spec, ReconcileSettles

\* What is left of Converges for the model checker is only that a state at rest
\* is reached once the disturbances have ended: from there on the asset is
\* settled for good.
THEOREM RestIsConvergence == Spec /\ <>(AtRest /\ [][moves' = moves]_vars) => Converges
<1>1. AtRest /\ [moves' = moves]_vars /\ [AtRest /\ moves' = moves => AtRest' /\ obj' = obj /\ pauses' = pauses]_vars
        => AtRest'
  BY RefillIsHarmless
<1> QED BY RestKept, RestIsSettled, <1>1, PTL DEF RestIsKept, Converges

\* customization_info shows the customizations of the managed object.
Shown ==
    obj.exists /\ ~IsPaused(obj) /\ golden # NotRendered /\ excluded = "no"
      => customization = IF obj.unmanaged THEN {"unmanaged"} ELSE CustomizationOf(obj)

\* In a state at rest every further reconcile reports the same customizations, and
\* drops no series of them (patcher.go 258-300 and 355-362).
ShownIsKept == [][AtRest /\ Shown /\ moves' = moves => Shown']_vars

\* What ReconcileAsset does to the series: it replaces them by those of the object
\* it read.
LEMMA SeriesFollowObject ==
    ASSUME ReconcileStep, Shown, obj' = obj PROVE Shown'
<1>1. UNCHANGED <<golden, excluded>>
  BY DEF ReconcileStep, SkipNotRendered, SkipExcluded, Cleanup, CleanupExcludedAsset, Begin, GetFailed,
     GetPaused, GetUnmanaged, GetUnmaskable, GetManaged, GetMissing, DryRunFailed, NoDrift, Drifted,
     NamespaceUnknown, NamespaceMissing, Admitted, Throttled, WarDetected, Applied, ApplyFailed,
     ApplyNoNamespace, FreshCopyRead, FreshCopyFailed, Annotated, AnnotateFailed, AnnotateConflict, cluster, vars
<1>2. CASE customization' = customization
  BY <1>1, <1>2 DEF Shown
<1>3. CASE Cleanup
  BY <1>1, <1>3 DEF Cleanup, CleanupExcludedAsset, Shown
<1>4. CASE GetUnmanaged \/ GetUnmaskable \/ GetManaged
  BY <1>1, <1>4 DEF GetUnmanaged, GetUnmaskable, GetManaged, Shown
<1>5. ReconcileStep => customization' = customization \/ Cleanup \/ GetUnmanaged \/ GetUnmaskable \/ GetManaged
  BY DEF ReconcileStep, SkipNotRendered, SkipExcluded, Begin, GetFailed,
     GetPaused, GetMissing, DryRunFailed, NoDrift, Drifted,
     NamespaceUnknown, NamespaceMissing, Admitted, Throttled, WarDetected, Applied, ApplyFailed,
     ApplyNoNamespace, FreshCopyRead, FreshCopyFailed, Annotated, AnnotateFailed, AnnotateConflict, gauges, vars
<1> QED BY <1>2, <1>3, <1>4, <1>5

LEMMA ShownStays ==
    ASSUME IInv, [Next]_vars, AtRest, Shown, moves' = moves PROVE AtRest' /\ Shown'
<1>1. CASE ReconcileStep
  BY <1>1, ReconcileAtRest, SeriesFollowObject
<1>2. CASE Refill \/ UNCHANGED vars
  <2>1. UNCHANGED <<obj, golden, excluded, customization>>
    BY <1>2 DEF Refill, cluster, gauges, vars
  <2> QED BY <1>2, <2>1, RefillIsHarmless DEF Shown
<1> QED BY <1>1, <1>2, CalmNext

\* ShownIsKept for any customizations and numbers of disturbances.
THEOREM ShownKept == Spec => ShownIsKept
<1>1. IInv /\ [Next]_vars => [AtRest /\ Shown /\ moves' = moves => Shown']_vars
  BY ShownStays
<1> QED BY Invariance, <1>1, PTL DEF Spec, ShownIsKept

\* What is left of CustomizationReported for the model checker is only that a state
\* at rest with the right series is reached.
THEOREM RestIsReporting ==
    Spec /\ <>(AtRest /\ Shown /\ [][moves' = moves]_vars) => CustomizationReported
<1>1. IInv /\ [Next]_vars /\ [moves' = moves]_vars /\ AtRest /\ Shown => AtRest' /\ Shown'
  <2>1. [moves' = moves]_vars => moves' = moves
    BY DEF vars
  <2> QED BY <2>1, ShownStays
<1>2. <>[]Shown => CustomizationReported
  BY PTL DEF CustomizationReported, Shown
<1> QED BY Invariance, <1>1, <1>2, PTL DEF Spec
=============================================================================
