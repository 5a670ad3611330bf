------------------------- MODULE PlatformController -------------------------
(***************************************************************************)
(* One pass of PlatformReconciler.Reconcile over the catalog, one action   *)
(* per request to the API server: ordinary tombstones, the HCO, the render *)
(* context, the aggregate node disruption policy, the assets, and the      *)
(* tombstones of MachineConfigs behind their barrier.  The machine config  *)
(* operator (MCO), administrators and the release process act between any  *)
(* two requests.                                                           *)
(*                                                                         *)
(* The catalog: Retired and Dependent are MachineConfigs with one file and *)
(* a policy asset each, Plain is any other asset, Ordinary a tombstone of  *)
(* another kind.  Release 2 retires Retired: its policy asset goes, and a  *)
(* tombstone of its MachineConfig comes.  What Patcher does with one asset *)
(* is one step here (see Patcher).                                         *)
(***************************************************************************)
EXTENDS NodeDisruptionPolicy

CONSTANTS Retired, Dependent, Plain, Ordinary,
          AdminEdits,   \* administrators write policy entries and overrides
          Touched,      \* objects, and keys of policy entries, that others write
          Faults,       \* requests fail
          MaxMoves      \* bound on disturbances, the release of version 2 apart

\* File entries of the policies: paths are those of the MachineConfigs.
FileEntries == UNION {[K -> {"restart", "reboot"}] : K \in SUBSET {Retired, Dependent}}

ASSUME PlatformAssumption ==
    /\ Absent \notin FileEntries \cup [files : FileEntries, units : {<<>>, Absent}, sshkey : {Absent}]
    /\ Cardinality({Retired, Dependent, Plain, Ordinary}) = 4
    /\ Touched \subseteq {Retired, Dependent, Plain, Ordinary}
    /\ AdminEdits \in BOOLEAN /\ Faults \in BOOLEAN /\ MaxMoves \in Nat

MachineConfigs == {Retired, Dependent}
Objects        == MachineConfigs \cup {Plain, Ordinary}

VARIABLES
    \* the cluster
    release,     \* 1 or 2: the catalog of the running operator
    hco,         \* "present", "absent" or "optedOut" (the autopilot annotation)
    enabled,     \* dependents whose opt-in conditions hold
    excluded,    \* root exclusions: dependents, or "cluster" for the singleton
    objects,     \* [Objects -> "absent", "unlabelled" or "labelled"]
    cluster,     \* MachineConfiguration/cluster, see NoCluster
    broken,      \* objects whose requests always fail
    \* the operator's pass
    pc,          \* the next request, or "idle"
    ctx,         \* the render context: enabled and excluded as read
    todo,        \* assetsToReconcile still to come
    failed,      \* an asset failed
    action,      \* machineConfigNDPAction, or the answer of the second check
    managed,     \* ndpManaged
    desired,     \* the policy entries about to be applied
    seen,        \* the MCO status as read
    \* history of the pass
    hot,         \* labelled MachineConfigs with an effective action all through the pass
    cold,        \* dependents whose policy was not effective at any time of it
    bare,        \* objects that carried the label at no time of it
    moves

world   == <<release, hco, enabled, excluded, objects, cluster, broken>>
locals  == <<pc, ctx, todo, failed, action, managed, desired, seen>>
history == <<hot, cold, bare, moves>>
vars == <<release, hco, enabled, excluded, objects, cluster, broken,
          pc, ctx, todo, failed, action, managed, desired, seen, hot, cold, bare, moves>>

-----------------------------------------------------------------------------
(* The catalog *)

Dependents == IF release = 1 THEN <<Retired, Dependent>> ELSE <<Dependent>>

MachineConfigOf(m) == [files |-> {m}, units |-> {}, ssh |-> FALSE, other |-> FALSE]

PolicyOf(m) == [EmptyPolicy EXCEPT !.files = [k \in {m} |-> "restart"]]

\* The policy whose file entries are f.
PolicyWith(f) == [EmptyPolicy EXCEPT !.files = f]

DependentIn(c, m) ==
    [active |-> m \in c.enabled, excluded |-> m \in c.excluded, rendered |-> TRUE,
     policy |-> PolicyOf(m), mc |-> MachineConfigOf(m)]

AggregateIn(c) == AggregateEntries([i \in DOMAIN Dependents |-> DependentIn(c, Dependents[i])])

-----------------------------------------------------------------------------
(* The API server.  Entries of the operator are "restart", those of an      *)
(* administrator "reboot".                                                   *)

NoFiles   == <<>>
NoCluster == [exists |-> FALSE, labelled |-> FALSE, unmanaged |-> FALSE, ignore |-> "none",
              spec |-> NoFiles, status |-> NoFiles, observed |-> TRUE]

\* Entries are only ever added.
ApplyFiles_NoPrune(c, d) ==
    LET spec == Overlay(d, c.spec)
    IN  [c EXCEPT !.exists = TRUE, !.labelled = TRUE, !.spec = spec,
                  !.observed = @ /\ spec = c.spec]

\* Server-side apply of the file entries d: entries that only the operator owns
\* and no longer lists go away, and a changed spec is a new generation.  The
\* applier puts the managed-by label on everything.
ApplyFiles(c, d) ==
    LET kept == {k \in DOMAIN c.spec : c.spec[k] = "reboot"}
        spec == Overlay(d, [k \in kept |-> c.spec[k]])
    IN  [c EXCEPT !.exists = TRUE, !.labelled = TRUE, !.spec = spec,
                  !.observed = @ /\ spec = c.spec]

EffectiveIn(status, m) == EntriesMatch(PolicyWith(status), PolicyOf(m)) = "yes"

Init ==
    /\ release = 1 /\ hco = "present" /\ enabled = MachineConfigs /\ excluded = {}
    /\ objects = [x \in Objects |-> IF x = Ordinary THEN "labelled" ELSE "absent"]
    /\ cluster = NoCluster
    /\ broken \in IF Faults THEN {{Ordinary}, {Dependent}} ELSE {{}}
    /\ pc = "idle" /\ ctx = [enabled |-> {}, excluded |-> {}] /\ todo = <<>>
    /\ failed = FALSE /\ action = FALSE /\ managed = FALSE
    /\ desired = NoFiles /\ seen = NoFiles
    /\ hot = {} /\ cold = {} /\ bare = {}
    \* an asset that fails for ever is one of the disturbances
    /\ moves = IF Dependent \in broken /\ MaxMoves > 0 THEN 1 ELSE 0

-----------------------------------------------------------------------------
(* Parts of steps *)

Disturb == moves < MaxMoves /\ moves' = moves + 1

\* A request about x returns an error that is not NotFound.
RequestFails(x) == Faults /\ (Disturb \/ (x \in broken /\ moves' = moves))

Works(x) == x \notin broken /\ moves' = moves

\* Reconcile returns, whatever its result: all of them are retried, by the
\* work queue after an error and by RequeueAfter otherwise.
Return ==
    /\ pc' = "idle" /\ ctx' = [enabled |-> {}, excluded |-> {}] /\ todo' = <<>>
    /\ failed' = FALSE /\ action' = FALSE /\ managed' = FALSE
    /\ desired' = NoFiles /\ seen' = NoFiles
    /\ hot' = {} /\ cold' = {} /\ bare' = {}

Goto(label) == pc' = label

\* What history keeps of the objects o and the status s after a step.
Remember(o, s) ==
    /\ hot'  = {m \in hot : m \in Keys(s) /\ o[m] = "labelled"}
    /\ cold' = {m \in cold : ~EffectiveIn(s, m)}
    /\ bare' = {x \in bare : o[x] # "labelled"}

KeepHistory == UNCHANGED <<hot, cold, bare>>

-----------------------------------------------------------------------------
(* The start of a pass, and the ordinary tombstones *)

\* getHCO: no HCO, or an HCO that opted out, ends the pass at once.
Begin ==
    /\ pc = "idle" /\ hco = "present"
    /\ Goto("ordinaryGet")
    /\ hot' = {m \in Keys(cluster.status) : objects[m] = "labelled"}
    /\ cold' = {m \in MachineConfigs : ~EffectiveIn(cluster.status, m)}
    /\ bare' = {x \in Objects : objects[x] # "labelled"}
    /\ UNCHANGED <<world, ctx, todo, failed, action, managed, desired, seen, moves>>

\* The label is not looked at.
Deletable_AnyOwner(x) == objects[x] # "absent"

\* reconcileTombstone reads the object: it goes on only if the label is there ...
Deletable(x) == objects[x] = "labelled"

\* ... and deletes it by name: it may be another one by now.
TombstoneDelete(x) ==
    /\ Works(x)
    /\ objects' = [objects EXCEPT ![x] = "absent"]
    /\ UNCHANGED <<release, hco, enabled, excluded, cluster, broken>>

\* An error on a tombstone is logged and the pass goes on.
OrdinaryGet ==
    /\ pc = "ordinaryGet"
    /\ \/ Works(Ordinary) /\ Goto(IF Deletable(Ordinary) THEN "ordinaryDelete" ELSE "hco")
       \/ RequestFails(Ordinary) /\ Goto("hco")
    /\ KeepHistory
    /\ UNCHANGED <<world, ctx, todo, failed, action, managed, desired, seen>>

OrdinaryDelete ==
    /\ pc = "ordinaryDelete" /\ Goto("hco")
    /\ \/ TombstoneDelete(Ordinary) /\ Remember(objects', cluster.status)
       \/ RequestFails(Ordinary) /\ UNCHANGED world /\ KeepHistory
    /\ UNCHANGED <<ctx, todo, failed, action, managed, desired, seen>>

-----------------------------------------------------------------------------
(* The HCO and the render context *)

\* reconcileHCO.  Server-side apply creates what is not there: an HCO that was
\* deleted since getHCO comes back, without annotations.
ReconcileHCO ==
    /\ pc = "hco"
    /\ Goto("context")
    /\ IF hco = "absent" THEN hco' = "present" /\ enabled' = {} /\ excluded' = {}
                         ELSE UNCHANGED <<hco, enabled, excluded>>
    /\ UNCHANGED <<release, objects, cluster, broken,
                   ctx, todo, failed, action, managed, desired, seen, history>>

\* The HCO is read again and the context built from it; then reconcileAssets
\* will see the cluster's features and exclusions as they are now.
BuildContext ==
    /\ pc = "context"
    /\ \/ /\ hco # "absent"
          /\ ctx' = [enabled |-> enabled, excluded |-> excluded]
          /\ Goto("statusBefore")
          /\ UNCHANGED <<todo, failed, action, managed, desired, seen, history>>
       \/ hco = "absent" /\ Return /\ moves' = moves
    /\ UNCHANGED world

-----------------------------------------------------------------------------
(* MachineConfigTombstonesHaveEffectiveNodeDisruptionPolicy, before and after *)
(* the assets: the MCO status, then the tombstoned MachineConfig.             *)

\* Only release 2 has a tombstone of a MachineConfig.
Tombstoned == release = 2

ReadStatus(here, next) ==
    /\ pc = here
    /\ seen' = cluster.status /\ Goto(next)
    /\ UNCHANGED <<world, ctx, todo, failed, action, managed, desired, history>>

StatusBefore == ReadStatus("statusBefore", "retiredBefore")
StatusAfter  == ReadStatus("statusAfter", "retiredAfter")

\* The answer for the object as it is now and the status as it was read.
Blocked ==
    /\ Tombstoned /\ objects[Retired] = "labelled"
    /\ HasEffectiveAction(MachineConfigOf(Retired), PolicyWith(seen))

RetiredBefore ==
    /\ pc = "retiredBefore"
    /\ action' = Blocked /\ seen' = NoFiles /\ Goto("select")
    /\ UNCHANGED <<world, ctx, todo, failed, managed, desired, history>>

\* The second check forgotten.
RetiredAfter_Unchecked ==
    /\ pc = "retiredAfter"
    /\ Goto("retiredGet") /\ seen' = NoFiles
    /\ UNCHANGED <<world, ctx, todo, failed, action, managed, desired, history>>

\* Still effective: come back in five seconds.
RetiredAfter ==
    /\ pc = "retiredAfter"
    /\ \/ /\ ~Blocked /\ Goto("retiredGet") /\ seen' = NoFiles
          /\ UNCHANGED <<ctx, todo, failed, action, managed, desired, history>>
       \/ Blocked /\ Return /\ moves' = moves
    /\ UNCHANGED world

-----------------------------------------------------------------------------
(* reconcileAssets *)

\* Of the catalog's MachineConfigs, those of the set e.
Selected(e) ==
    (IF release = 1 /\ Retired \in e THEN <<Retired>> ELSE <<>>)
      \o (IF Dependent \in e THEN <<Dependent>> ELSE <<>>)

\* Assets in reconcile order whose conditions hold; policy assets are left to
\* the aggregate.  A dependent whose CRD cannot be checked counts as inactive.
\* If the CRD of a policy asset cannot be checked, the singleton is left alone in
\* this pass, and the dependents are reconciled all the same.
SelectAssets ==
    /\ pc = "select"
    /\ \/ ctx' = ctx /\ Goto("aggregate") /\ moves' = moves
       \/ ctx' = ctx /\ Faults /\ Disturb /\ Goto("asset")
       \/ /\ \E m \in ctx.enabled : ctx' = [ctx EXCEPT !.enabled = @ \ {m}]
          /\ Faults /\ Disturb /\ Goto("aggregate")
    /\ todo' = Selected(ctx'.enabled) \o <<Plain>>
    /\ KeepHistory
    /\ UNCHANGED <<world, failed, action, managed, desired, seen>>

\* Nothing is pruned once no dependent is left.
PolicyUntouched_NothingActive ==
    \/ "cluster" \in ctx.excluded
    \/ ~HasActiveDependent(AggregateIn(ctx))
    \/ cluster.exists /\ cluster.unmanaged

\* The aggregate drops whatever is not of the catalog, but only an operator
\* that wants entries creates or adopts the singleton.
PolicyUntouched ==
    \/ "cluster" \in ctx.excluded
    \/ LET mayCreate == HasActiveDependent(AggregateIn(ctx)) \/ action
       IN  ~mayCreate /\ (~cluster.exists \/ ~cluster.labelled)
    \/ cluster.exists /\ cluster.unmanaged

\* ReconcileNodeDisruptionPolicies up to its apply.  managed is what will be
\* returned if the apply succeeds; an ignored field keeps what it holds, and a
\* pointer that cannot be followed is an error, which ends the pass.
AggregatePolicy ==
    /\ pc = "aggregate"
    /\ \/ /\ PolicyUntouched /\ Goto("asset")
          /\ UNCHANGED <<ctx, todo, failed, action, managed, desired, seen, history>>
       \/ /\ ~PolicyUntouched /\ cluster.ignore # "bad" /\ Goto("applyPolicy")
          /\ managed' = (cluster.ignore = "none")
          /\ desired' = IF cluster.ignore = "files" THEN cluster.spec ELSE AggregateIn(ctx).files
          /\ UNCHANGED <<ctx, todo, failed, action, seen, history>>
       \/ ~PolicyUntouched /\ cluster.ignore = "bad" /\ Return /\ moves' = moves
    /\ UNCHANGED world

\* The answer may get lost although the policy was written.
ApplyPolicy ==
    /\ pc = "applyPolicy"
    /\ cluster' = ApplyFiles(cluster, desired)
    /\ \/ /\ Goto("asset") /\ desired' = NoFiles
          /\ UNCHANGED <<ctx, todo, failed, action, managed, seen, history>>
       \/ Faults /\ Disturb /\ Return
    /\ UNCHANGED <<release, hco, enabled, excluded, objects, broken>>

\* The first error ends ReconcileAssets.
AssetDone_StopAtError(error) ==
    /\ todo' = (IF error THEN <<>> ELSE Tail(todo)) /\ failed' = (failed \/ error) /\ Goto("asset")
    /\ UNCHANGED <<ctx, action, managed, desired, seen>>

\* The loop does not go back to the checks of the next asset.
AssetDone_NextUnchecked(error) ==
    /\ todo' = Tail(todo) /\ failed' = (failed \/ error) /\ Goto("applyAsset")
    /\ UNCHANGED <<ctx, action, managed, desired, seen>>

\* ReconcileAssets: the first asset of todo is done, and the loop goes on after
\* an error too.
AssetDone(error) ==
    /\ todo' = Tail(todo) /\ failed' = (failed \/ error) /\ Goto("asset")
    /\ UNCHANGED <<ctx, action, managed, desired, seen>>

\* A dependent is applied without waiting for its policy.
CheckAsset_NotWaiting ==
    /\ pc = "asset" /\ todo # <<>>
    /\ \/ Head(todo) \in ctx.excluded /\ AssetDone(FALSE)
       \/ /\ Head(todo) \notin ctx.excluded
          /\ Goto("applyAsset")
          /\ UNCHANGED <<ctx, todo, failed, action, managed, desired, seen>>
    /\ UNCHANGED <<world, history>>

\* ReconcileAsset up to its apply: the root exclusion, and a dependent waits
\* until its policy is effective.
CheckAsset ==
    /\ pc = "asset" /\ todo # <<>>
    /\ LET x == Head(todo) IN
       \/ x \in ctx.excluded /\ AssetDone(FALSE) /\ moves' = moves
       \/ /\ x \notin ctx.excluded /\ (x \in MachineConfigs => EffectiveIn(cluster.status, x))
          /\ Goto("applyAsset") /\ moves' = moves
          /\ UNCHANGED <<ctx, todo, failed, action, managed, desired, seen>>
       \/ /\ x \in MachineConfigs \ ctx.excluded /\ ~EffectiveIn(cluster.status, x)
          /\ AssetDone(FALSE) /\ moves' = moves
       \/ Faults /\ Disturb /\ AssetDone(TRUE)
    /\ KeepHistory
    /\ UNCHANGED world

ApplyAsset ==
    /\ pc = "applyAsset"
    /\ LET x == Head(todo) IN
       \/ /\ Works(x) /\ AssetDone(FALSE)
          /\ objects' = [objects EXCEPT ![x] = "labelled"]
       \/ RequestFails(x) /\ AssetDone(TRUE) /\ objects' = objects
    /\ Remember(objects', cluster.status)
    /\ UNCHANGED <<release, hco, enabled, excluded, cluster, broken>>

\* Back in Reconcile: an error of any asset ends the pass; so does an effective
\* action under a policy that the operator does not manage.
AssetsDone ==
    /\ pc = "asset" /\ todo = <<>>
    /\ IF failed \/ (action /\ ~managed)
       THEN Return
       ELSE /\ Goto(IF action THEN "generation" ELSE "retiredGet")
            /\ KeepHistory
            /\ UNCHANGED <<ctx, todo, failed, action, managed, desired, seen>>
    /\ UNCHANGED <<world, moves>>

-----------------------------------------------------------------------------
(* The barrier, and the tombstones of MachineConfigs *)

\* NodeDisruptionPolicyGenerationObserved
Generation ==
    /\ pc = "generation"
    /\ \/ /\ cluster.exists /\ cluster.observed /\ Goto("statusAfter")
          /\ UNCHANGED <<ctx, todo, failed, action, managed, desired, seen, history>>
       \/ ~(cluster.exists /\ cluster.observed) /\ Return /\ moves' = moves
    /\ UNCHANGED world

RetiredGet ==
    /\ pc = "retiredGet"
    /\ \/ /\ Tombstoned /\ Deletable(Retired) /\ Goto("retiredDelete")
          /\ UNCHANGED <<ctx, todo, failed, action, managed, desired, seen, history>>
       \/ ~(Tombstoned /\ Deletable(Retired)) /\ Return /\ moves' = moves
    /\ UNCHANGED world

RetiredDelete ==
    /\ pc = "retiredDelete" /\ Return
    /\ \/ TombstoneDelete(Retired)
       \/ RequestFails(Retired) /\ UNCHANGED world

-----------------------------------------------------------------------------
(* Everyone else *)

\* The world moves while a pass is anywhere.
Elsewhere == /\ Remember(objects', cluster'.status) /\ UNCHANGED locals

\* MCO makes the policy of the current generation effective.
MCOSync ==
    /\ cluster.exists /\ ~cluster.observed
    /\ cluster' = [cluster EXCEPT !.status = cluster.spec, !.observed = TRUE]
    /\ UNCHANGED <<release, hco, enabled, excluded, objects, broken, moves>>
    /\ Elsewhere

\* The HCO's annotations and existence: opt-in of a feature, root exclusion,
\* opt-out of the autopilot.
UserChangesHCO ==
    /\ Disturb
    /\ \/ enabled' = (enabled \ {Retired}) \cup ({Retired} \ enabled) /\ UNCHANGED <<hco, excluded>>
       \/ \E x \in {Dependent, "cluster"} : excluded' = (excluded \ {x}) \cup ({x} \ excluded)
          /\ UNCHANGED <<hco, enabled>>
       \/ hco' \in {"present", "absent", "optedOut"} \ {hco} /\ UNCHANGED <<enabled, excluded>>
    /\ UNCHANGED <<release, objects, cluster, broken>>
    /\ Elsewhere

\* An object is deleted, created, or gets or loses the label.
UserChangesObject ==
    /\ Disturb
    /\ \E x \in Touched :
         \E o \in {"absent", "unlabelled", "labelled"} \ {objects[x]} :
           objects' = [objects EXCEPT ![x] = o]
    /\ UNCHANGED <<release, hco, enabled, excluded, cluster, broken>>
    /\ Elsewhere

\* The singleton's managed-by label, and its mode and ignore-fields annotations.
AdminOverrides ==
    /\ AdminEdits /\ Disturb /\ cluster.exists
    /\ \/ cluster' = [cluster EXCEPT !.labelled = ~@]
       \/ cluster' = [cluster EXCEPT !.unmanaged = ~@]
       \/ \E i \in {"none", "files", "bad"} \ {cluster.ignore} : cluster' = [cluster EXCEPT !.ignore = i]
    /\ UNCHANGED <<release, hco, enabled, excluded, objects, broken>>
    /\ Elsewhere

\* An administrator writes or removes an entry of the policy.
AdminEntry ==
    /\ AdminEdits /\ Disturb
    /\ \E m \in Touched \cap MachineConfigs : \E f \in
         {Overlay([k \in {m} |-> "reboot"], cluster.spec),
          [k \in DOMAIN cluster.spec \ {m} |-> cluster.spec[k]]} \ {cluster.spec} :
         cluster' = [cluster EXCEPT !.exists = TRUE, !.spec = f, !.observed = FALSE]
    /\ UNCHANGED <<release, hco, enabled, excluded, objects, broken>>
    /\ Elsewhere

\* A request fails whose error ends the pass, or the operator restarts.
Abort ==
    /\ Faults /\ Disturb /\ pc # "idle" /\ Return
    /\ UNCHANGED world

\* The operator restarts with the next release.
Upgrade ==
    /\ release = 1 /\ release' = 2 /\ Return
    /\ UNCHANGED <<hco, enabled, excluded, objects, cluster, broken, moves>>

-----------------------------------------------------------------------------
(* Specification *)

PassStep ==
    \/ Begin \/ OrdinaryGet \/ OrdinaryDelete \/ ReconcileHCO \/ BuildContext
    \/ StatusBefore \/ RetiredBefore \/ SelectAssets \/ AggregatePolicy \/ ApplyPolicy
    \/ CheckAsset \/ ApplyAsset \/ AssetsDone
    \/ Generation \/ StatusAfter \/ RetiredAfter \/ RetiredGet \/ RetiredDelete

OthersStep == UserChangesHCO \/ UserChangesObject \/ AdminOverrides \/ AdminEntry

Next == PassStep \/ MCOSync \/ Abort \/ Upgrade \/ OthersStep

\* The work queue runs a pass as long as there is an HCO, every request returns,
\* and MCO keeps up with the policy.  The release of version 2 is not assumed.
Spec == Init /\ [][Next]_vars /\ WF_vars(PassStep) /\ WF_vars(MCOSync)
-----------------------------------------------------------------------------
(* Properties *)

WorldOK ==
    /\ release \in {1, 2} /\ hco \in {"present", "absent", "optedOut"}
    /\ enabled \subseteq MachineConfigs /\ excluded \subseteq {Dependent, "cluster"}
    /\ objects \in [Objects -> {"absent", "unlabelled", "labelled"}]
    /\ cluster \in [exists : BOOLEAN, labelled : BOOLEAN, unmanaged : BOOLEAN,
                     ignore : {"none", "files", "bad"}, spec : FileEntries,
                     status : FileEntries, observed : BOOLEAN]
    /\ broken \subseteq Objects

LocalsOK ==
    /\ pc \in {"idle", "ordinaryGet", "ordinaryDelete", "hco", "context", "statusBefore",
               "retiredBefore", "select", "aggregate", "applyPolicy", "asset", "applyAsset",
               "generation", "statusAfter", "retiredAfter", "retiredGet", "retiredDelete"}
    /\ ctx \in [enabled : SUBSET MachineConfigs, excluded : SUBSET {Dependent, "cluster"}]
    /\ failed \in BOOLEAN /\ action \in BOOLEAN /\ managed \in BOOLEAN
    /\ desired \in FileEntries /\ seen \in FileEntries
    /\ Len(todo) <= 3 /\ (pc = "applyAsset" => todo # <<>>)

HistoryOK ==
    /\ hot \subseteq MachineConfigs /\ cold \subseteq MachineConfigs /\ bare \subseteq Objects
    /\ moves \in 0 .. MaxMoves

\* Values of the variables; an asset is applied only while one is at hand.
PlatformTypeOK == WorldOK /\ LocalsOK /\ HistoryOK

\* An object that carried the managed-by label at no time of a pass survives
\* the pass, whatever else happens between its read and the deletion
\* (engine/tombstone.go lines 272-292).
ForeignObjectsSurvive ==
    [][(OrdinaryDelete \/ RetiredDelete) =>
         \A x \in Objects : objects[x] # "absent" /\ objects'[x] = "absent" => x \notin bare]_vars

\* A MachineConfig to which an action of MCO's status applies all through a pass
\* is not deleted in it, whatever the operator did to the policy, and whatever
\* administrators hold on to (platform_controller.go lines 223-257).
EffectiveActionHoldsDeletion ==
    [][RetiredDelete /\ objects' # objects => Retired \notin hot]_vars

\* A dependent MachineConfig is not sent to the API server in a pass during
\* which its policy was never effective (patcher.go lines 152-169).
DependentsWaitForPolicy == [][ApplyAsset => Head(todo) \notin cold]_vars

\* Administrators keep the singleton from the operator.
PolicyHeld ==
    \/ "cluster" \in excluded
    \/ cluster.exists /\ (cluster.unmanaged \/ cluster.ignore # "none")

OperatorEntries == {k \in DOMAIN cluster.spec : cluster.spec[k] = "restart"}

ActiveDependents == {m \in Range(Dependents) : m \in enabled \ excluded}

\* The singleton lost the label, and no dependent is left for whose policy the
\* operator would adopt it again: entries that it wrote earlier stay (lines 84-86
\* of node_disruption_policy.go, whose line 71 says that they must be pruned).
Disowned == cluster.exists /\ ~cluster.labelled /\ ActiveDependents = {}

\* Once disturbances end, the operator's entries of the singleton are those of
\* the active dependents of the release, none of a disabled, excluded or
\* retired one, even if requests about other objects fail for ever, and even if
\* the label is removed while a dependent is active; a disowned singleton is
\* excepted (node_disruption_policy.go lines 41-56).
PolicyBecomesAggregate ==
    <>[](hco = "present" /\ ~PolicyHeld /\ ~Disowned => OperatorEntries = ActiveDependents)

\* Once disturbances end, every active asset is there: a failing tombstone or
\* asset does not keep the others from being applied (patcher.go lines 600-646).
AssetsAreApplied ==
    <>[](hco = "present" /\ ~PolicyHeld =>
           \A x \in (ActiveDependents \cup {Plain}) \ broken : objects[x] = "labelled")

\* Once disturbances end, a tombstoned MachineConfig is gone, unless the policy
\* is held back, an administrator has an entry for its file, or another asset
\* fails for ever (platform_controller.go lines 230-264).
TombstonesAreCleared ==
    <>[](release = 2 /\ hco = "present" /\ ~PolicyHeld /\ broken \subseteq {Ordinary}
           /\ Retired \notin DOMAIN cluster.spec \ OperatorEntries => objects[Retired] # "labelled")

\* platform_controller.go lines 185-187: "an NDP-dependent MachineConfig can only
\* be deleted after MCO has observed the aggregate policy generation that drops
\* its actions".
DeletedAfterObservation ==
    [][RetiredDelete /\ objects' # objects => Retired \notin DOMAIN cluster.status]_vars
=============================================================================
