# Formal models of virt-platform-autopilot

TLA+ specifications of the operator, configurations for TLC, and proofs checked
by TLAPS. Paths below are relative to the repository root.

## The system

The operator watches one HyperConverged (HCO) object and keeps a catalogue of
assets (Kubernetes objects rendered from templates) in their opinionated state.

| Part | State | Operations | Code |
|---|---|---|---|
| Platform controller | watches, condition evaluator | `Reconcile`: tombstones, HCO, node disruption policy, assets, MachineConfig tombstones; CRD events | `pkg/controller/platform_controller.go` |
| Patcher | none of its own between calls | `ReconcileAsset`, `setPauseAnnotation`, `CleanupExcludedAsset` | `pkg/engine/patcher.go` |
| Token bucket | tokens and time stamps per resource | `Allow`, `Reset`, `CleanupStale` | `pkg/throttling/token_bucket.go` |
| Thrashing detector | throttles in a row, announced or not | `RecordThrottle`, `RecordSuccess`, `ShouldEmitMetric`, `Reset` | `pkg/throttling/thrashing_detector.go` |
| Drift detection, apply | none | dry run and server-side apply | `pkg/engine/drift.go`, `applier.go` |
| Overrides, exclusion | annotations on objects | patch, ignore-fields, unmanaged, paused, disabled | `pkg/overrides`, `pkg/engine/exclusion.go` |
| MachineConfig coalescing | staging ConfigMap and its mirror | stage, release, clear | `pkg/engine/machineconfig_coalescing.go` |
| Node disruption policy | the MachineConfiguration singleton | aggregate, readiness, generation barrier | `pkg/engine/node_disruption_policy.go` |
| Tombstones | embedded list | delete what carries the label | `pkg/engine/tombstone.go` |
| CRD checker | cache with TTL | `IsCRDInstalled`, `InvalidateCache` | `pkg/util/crd_checker.go` |
| Metrics TLS | profile caches, CA pool | refresh, resolve, notify | `pkg/tlsprofile`, `pkg/metricstls`, `pkg/controller/metrics_tls_controller.go` |
| Render context, registry | none between passes | conditions, opt-in states | `pkg/controller/hco_context.go`, `pkg/assets/registry.go` |
| Process | manager, secure metrics or not | start, stop, restart | `cmd/main.go` |
| RBAC generator | lists during one run | walk of the catalogue, rules | `pkg/rbac/rbac.go` |
| Metrics, events | gauges and counters | set, clear | `pkg/observability`, `pkg/util/events.go` |

Interactions that are hard to test: other controllers and administrators write
the same objects between any two requests of a reconcile; requests fail, and
answers get lost after the API server has acted; the operator restarts and loses
bucket, detector, mirror and metrics, while annotations and the ConfigMap stay;
time refills the bucket. `PROJECT.json` lists these hazards at their lines.

## Modules

**RateLimiter** is what the bucket promises: a call is granted exactly when an
update is left, time only gives updates back, a reset gives all of them back.

**TokenBucket** is `token_bucket.go` with its clock and map. Every method is one
action, since every method holds the mutex. `winStart`, `winGrants`, `winBudget`
and `deniedSince` are history: an observer that starts counting at any moment.
It is checked, and proved, to implement RateLimiter with `GetTokens` as `level`.

**Patcher** is `ReconcileAsset` for one asset. `pc` is the next request to the API
server (`get`, `drift`, `coalesce`, `namespace`, `apply`, `clear`, `freshCopy`,
`annotate`, or `idle`); an action is one request with the local work that follows
it. Reconciles do not overlap (one worker, leader election). The token bucket
appears as `level`, one key of RateLimiter, and the detector as `attempts` and
`emitted`. An object is a spec and the annotations that the code reads;
server-side apply overwrites the spec and keeps foreign annotations (`Merge`).
The count of throttles stops at the threshold, above which the code does not
tell values apart. `paused` records who paused, which the code cannot see; it is
only used by properties.

**MachineConfigRollout** extends Patcher with the coalescing of one MachineConfig:
the steps `coalesce` and `clear`, the ConfigMap entry, its mirror, the staged
series, and the pools reduced to "matches" and "releases". The other steps of
ReconcileAsset are Patcher's own (`OtherStep`). In both, `CleanupExcludedAsset` (an
asset that is excluded, or whose conditions or CRDs are gone) is a step that clears what
was remembered and reported of the asset. **MCPatcher** and **MCRollout** choose initial
states for the runs: rendered states, and pools, are interchangeable, so one rendered state
and one selection of each size stand for all.

**NodeDisruptionPolicy** holds the functions on policies, without state: what a
policy covers, when MCO's status holds it, and how policies are merged.

**PlatformController** is `Reconcile` over a catalogue of four representative assets,
again one action per request, in the order of the code: ordinary tombstones, the HCO,
the context, the first look at MCO's status, the selection, the aggregate policy, the
assets, the barrier (generation, second look), MachineConfig tombstones. What Patcher
details for one asset is one step (`ApplyAsset`). MCO copies the policy to its status
and observes its generation (`MCOSync`); administrators disable, exclude, relabel,
delete, add policy entries or keep the singleton from the operator; release 2 retires
a MachineConfig. `hot`, `cold` and `bare` are history: what was true of an object at
every moment of the pass.

**CRDLifecycle** is the checker's cache with its clock, the choice of watches at
startup, the CRD event handlers, and what a pass does with the answers. A lookup is two
steps around its request, and events may clear the cache in between. **MetricsTLS** is
the two profile caches, the pool of client CAs, the reconciler of the metrics endpoint
and its channel. **OperatorProcess** composes them into the process of `cmd/main.go`:
starts, graceful stops, crashes, the restart once the serving certificate is mounted,
and the passes that track the HCO's profile and render the policy.
**MCOperatorProcess** gives the CRDs and assets of the run, and its initial states.

**Catalog** puts four loops side by side, each over a list whose order the code does not
choose, so that every order is explored: **RBACGenerator** (rules of the operator's
ClusterRole), **Activation** (render context, conditions, opt-in states, the assets of
a pass, the debug server's preview), **PolicyAggregate** (the loop that merges policies)
and **StorageClasses** (the default storage class). They share no state, so a behaviour
runs one of them. **MCCatalog** gives the documents, clusters, policies and classes.

Theorems are in modules of their own: **TokenBucketProofs**, **PatcherProofs**,
**RolloutProofs**, **PlatformProofs**, **OperatorProofs**, **OperatorRestProofs**,
**CatalogProofs**, and what they share about loops over lists of any length in
**InductionProofs**.

## Runs

| Run | Checks |
|---|---|
| `token_bucket` | rate bound over every interval, no starvation, clean-up changes no level, implements RateLimiter |
| `asset` | one namespaced asset with two rendered states, which may also render nothing, and every customization annotation: pauses are respected, announced and lifted; the metrics follow the annotations; the asset settles |
| `rollout` | two pools: mirror and ConfigMap agree, the staging time survives, updates are released, nothing is held silently |
| `platform` | passes across a release, with two disturbances: nothing foreign and nothing with an action in force is deleted, dependents wait; in the end the policy is the aggregate, assets are there, tombstoned MachineConfigs are gone |
| `operator` | CRDs, TLS settings and crashes under a running process: stale answers are bounded, changes of policy are not forgotten, the pool stays usable; restarts end, assets and gauges follow the CRDs, TLS settles |
| `catalog` | permissions suffice and are scoped by name, assets taken up are opted in, topology errors withhold, the preview agrees, conflicting policies are refused in any order, the aggregate serves all, the storage class is determined |

Six runs exhibit disagreements between the code and what is written about it:

* `resume_only_by_user`: Step 1.6 takes a detector at the threshold without the
  annotation to mean that the user resumed. It is also reached when the object
  did not exist at the threshold, or when writing the annotation failed.
* `paused_only_on_foreign_edits`: the design document calls exhausting the bucket
  "clearly an edit war". A failed create, the create and a changed rendering exhaust
  a small bucket too; retries that follow faster than tokens return then end in a pause.
* `compliance_settles`: `compliance_status` may stay at 1 for good on an object
  that was paused while it differed from the golden state.
* `staged_means_deferred`: when the drift disappears while an update is staged (the
  rendering goes back, or someone else changes the object), compliance becomes 1 but the staged entry and its series stay.
* `tombstone_barrier`: a MachineConfig is deleted while its action is in MCO's status.
  The pass looks at the status once before it applies the aggregate; if MCO had not
  caught up with an earlier version of the policy by then, and does so afterwards, the
  barrier is skipped. `EffectiveActionHoldsDeletion` is what the code does guarantee: an
  action in force during the whole pass holds the MachineConfig.
* `workload_tls`: the template functions for TLS resolve the policy without the HCO's
  override (`RenderTLS`), although the comment above them (`pkg/engine/renderer.go:223`)
  names it first. The HCO's profile reaches the metrics endpoint, as `TLSSettles` says,
  and never the rendered assets.

Other differences met on the way, which no run is about. The comment at
`pkg/engine/node_disruption_policy.go:71` says that an empty aggregate "must prune entries
previously owned by Autopilot". It does not if the managed-by label of the singleton was
removed: with no dependent active the operator takes the singleton for foreign (lines 84-86),
and its earlier entries stay for good. `AdminOverrides` removes the label, and
`PolicyBecomesAggregate` excepts this case by name (`Disowned`), and no other: while a
dependent is active the label comes back with the next pass, and a tombstoned MachineConfig with
an action in force has the singleton adopted, so `TombstonesAreCleared` needs no exception.

The preview of the debug server does not evaluate image, hco-field and topology conditions,
finds hardware and KubeVirt gates never met, compares an annotation condition without a value
with the empty string, includes an opt-in asset without conditions, and with `only-installed`
drops built-in kinds outside the core group and ignores gate CRDs. Its renderer has no client
(`pkg/debug/handlers.go:54`, unlike `pkg/engine/patcher.go:60`) and its context no hardware and no
topology, so a template that asks for an object's field, the default storage class or a CRD's
values gets an empty answer where a pass reads the cluster or fails: an asset has two results,
`renders` in a pass and `previews` in the debug server. `Previewable` says for which assets the
preview can be right, those with equal results among them, and for these it is. The asset
`descheduler-loadaware`, whose template reads an object, is previewable only while that read succeeds
and makes no difference to whether it renders. A sensitive kind with some literal and some templated names would be granted by
the literal names only; the catalogue has none, and `NamedAlike` assumes so.

**Bounds.** `MaxMoves` counts disturbances (foreign writes, failed requests, lost
answers, restarts, re-renderings); steps of the operator are not bounded. Four
moves allow a pause, a resume and a second edit war with `Capacity` 1, where every
second apply meets an empty bucket. `Threshold` is the code's 3 in `asset` and in
the runs on pauses, and 2 elsewhere. Two rendered states make updates differ. Two pools distinguish "one
releases" from "all release". The clock of TokenBucket ends at `MaxTime`, and
`MaxResets` bounds resets per observed interval.
`platform` needs two moves: the feature off and on again, or a broken object and another
change. A pass has at most seventeen requests, and a move may come between any two of them.
The release of version 2 is not counted; an asset that fails for ever is. In `operator`
`MaxMoves` is shared between CRDs and
TLS settings in every way; where TLS settings take part all CRDs are installed at first, and where
CRDs take part there is no certificate at first (`RunInit`): the proofs are about all initial
states. Two bundles of client CAs make a replaced pool differ from the one before. Time to live and latency of one tick make a cached answer outlive
the event that clears the cache. In `catalog` three active documents and two tombstones make
kinds, objects and groups coincide, two assets share a CRD, and three dependents and three
storage classes make the order matter.

**Fairness.** Weak fairness of the reconcile: the controller requeues itself on
success and on error, and requests return. Weak fairness of `Refill`: time passes.
In PlatformController, weak
fairness of the pass and of MCO's synchronisation. In OperatorProcess, weak fairness of
each thread, of the clock, and of the deployment that starts the process again.
Nothing is assumed of users, other controllers, pools, crashes, releases or the certificate. Since moves are
bounded, liveness reads "once disturbances end". `SkipNotRendered` is a step that
changes nothing.

## Proofs

For every value of the constants that satisfies `BucketAssumption`:
`TypeCorrect`, `RateBounded`, `RefusalBounded`, `CleanupNotObserved` and
`LimiterImplemented`. The rate
bound needs an invariant relating grants, tokens left and the fraction of time
already running; that clean-up changes no level needs `Window <= TTL`, by which an
idle bucket is full. (The refinement alone does not say so: the limiter leaves open
when updates come back.) `Capacity <= Window` says that a token takes at least one clock unit.

For every value satisfying `PatcherAssumption`: `TypeCorrect`, `PausesAnnounced`,
`PauseRespected` and `ResumeHonoured`. None of the properties is inductive. `IInv`
adds to TypeOK: `LiveInv` (where the local copy stands for an existing object),
`WindowInv` (past the check for the annotation the operator's own pause is absent,
since only the end of a reconcile sets it), `EmitInv` (an edit war is marked as
announced only at the threshold, and Step 1.6 removes the mark), `AlarmInv` (a pause
under way has an announcement of its own) and `ResumeInv` (while the operator's pause
stands, and after it was lifted, the bucket is full or Step 1.6 is going to fill it).
IInv was model-checked before it was proved.
`NextIInv` has one lemma per kind of step.

MachineConfigRollout, for any pools: `RolloutTypeCorrect`, `MirrorFollowsConfigMap` and
`StagedSinceIsKept`. `StoreInv` joins Patcher's IInv, the agreement of mirror and ConfigMap,
and `FirstInv`: the entry at hand is the one first reported for the pending update, by
which the code decides whether it is staged anew. If the answer to a write is lost and the
operator restarts, the ConfigMap holds an entry nobody reported; the episode then starts over.
The pause protocol survives coalescing: `RolloutPausesAnnounced`, `RolloutPauseRespected`
(stated for all steps of the reconcile, those around the store included) and
`RolloutResumeHonoured`, since an update that is held back leaves IInv as it is, and a
released one passes the bucket and the detector like any other.

PlatformController, for any number of disturbances: `ForeignObjectsAlwaysSurvive`,
`EffectiveActionAlwaysHoldsDeletion` and `DependentsAlwaysWait`. `PassInv` says, for each
request under way, what earlier requests of the pass established (`PcInv`); this stays
true because the history sets only shrink during a pass (`HistoryInv`).
`PlatformTypeCorrect` needs more than the ranges: `TypeInv` adds what each request finds in
the local variables (`LocalsInv`): the list of assets still to do, and that the policy about
to be written to a managed singleton is the aggregate in the context of the pass. `ManagedPolicyIsTheAggregate` is an action property
from the same invariant: every single write of a managed policy leaves exactly the entries of
the dependents active in the context of the pass, so that older ones go, and of the
administrators' entries all but those of the same files. The aggregate of the catalogue is
computed by unfolding the merging loop (`CatalogUnfolds`), with `Absent` assumed not to
be a policy, as an error is not in the code.

OperatorProcess, for every set of CRDs and assets, time to live and latency:
`StaleAnswersAreAlwaysBounded` from `StaleInv` (a wrong entry was right when its request was
answered, so its age and one latency bound how long ago the CRD changed; the same of the
answer on its way), `ChangesAlwaysReachPasses`, and `PoolAlwaysStaysUsable` from `PoolInv`.
`OperatorTypeCorrect` adds to StaleInv what may stand in the list of lookups (`PlanOK`: at
startup only required CRDs, in a pass the managed ones and then those of assets), which kinds
are watched (`KindsOK`) and the flags of the process (`FlagsOK`); that the list has this form
for every catalogue is an induction over the assets (`AssetPlansOK`), for which `CRDAssumption`
says that there are finitely many. `UsablePolicyIsAlwaysServed` concludes from the ranges of
the two caches that the metrics endpoint serves what the documented precedence gives, and
never a profile that is unset or has no ciphers.

Catalog, for every catalogue, cluster, list and order: `StorageClassIsDetermined`,
`TakenAssetsAreOptedIn`, `ConflictsAreRefusedAlways`, `AggregateServesAllAlways`,
`PermissionsAlwaysSuffice` and `SensitiveWritesAreAlwaysScoped`. Each rests on what a loop
has reached after any part of its list: `ClassInv`, `ActivationInv`, `PolicyInv`, and
`RBACInv` (one resource per deduplication key, and those of tombstones marked for deletion).
`FailingReadsOnlyWithhold` and `PreviewShowsWhatIsSent` are about lists of conditions of any
length: the loop over them is decided by the first condition that is not met, which
`LeastNumber` supplies. `AggregateOfAnyList` says what merging a list of dependents computes,
`OrderMakesNoDifference` that order and repetitions are of no consequence, and
`LoopComputesAggregate` that the loop of the model ends with that result.
`CatalogTypeCorrect` gathers the ranges that the four invariants imply.

Induction. The library's induction theorems take an operator as a parameter, which the provers
cannot instantiate. InductionProofs states what is needed with sets instead: a set of numbers
has a least element (from the well-foundedness of the numbers), a set that holds 0 and n + 1
with n holds all numbers up to a bound (`UpToInduction`), and a function defined by recursion
up to a bound exists (`RecursionExists`), by which its defining equations may be used.

### States at rest

Liveness under fairness is beyond the prover. Each liveness property has the form "once
disturbances end, P holds from some point on", though, and half of it is a safety property:
P, once established, is never lost again by the operator's own steps. That half is proved. For each
component a state predicate says when it is at rest: P holds, and the reconcile, pass or
handler under way, wherever it is, works from the cluster as it is. Three kinds of theorems follow.

*Rest is kept*, for steps that are no disturbance (`moves` unchanged): `RestKept` (the object is
neither written nor paused), `ShownKept` (the customization series stay), `RolloutRestKept` and
`HeldKept` (an update held back stays reported, with its entry and its time), `PlatformRestKept`
(passes change no object and not the policy, so MCO gets no new generation and no node is
disrupted), `ProcessRestKept` (no restart), `AnswersRestKept` (assets and gauges stay, while cached
answers expire and are asked for again) and `TLSRestKept`. None of the plain properties is kept by
itself: an asset may be as it should be while a reconcile that read an older object is about to write
it, and a pass may hold an older context. For `AnswersAtRest` the pass under way must still be going
to leave out every asset that is not available (`LeavesOut`); that a pass starts like this is again
an induction over the catalogue (`AssetPlansOK`, `PassPlanCovers`).

*One reconcile is enough*: `ReconcileIsEffective` and `RolloutReconcileIsEffective`. From its
start to its end a reconcile that nothing disturbs leads to a settled object, or to an update
held back and reported, unless an empty token bucket refuses it.

*What is left*: `RestIsConvergence` (for `Converges`), `RestIsReporting`
(`CustomizationReported`), `ReleasedForGood` (`RolloutReleases`), `RestIsReportedForGood`
(`HeldMeansStaged`), `PlatformRestIsConvergence` (`PolicyBecomesAggregate`, `AssetsAreApplied`,
`TombstonesAreCleared`), `RestEndsRestarts` (`RestartsEnd`), `RestFollowsCRDs`
(`AssetsFollowCRDs`) and `RestSettlesTLS` (`TLSSettles`) each say that the property follows if rest is
reached once and nothing disturbs it from then on. They are conditional: that rest is reached,
under the fairness above, is only model-checked. So is what the liveness properties say where a
rest as defined here cannot be reached, because the HCO is gone or the singleton held back
(platform), or there is no certificate or no watch of the APIServer (TLS).

The predicates of rest and the three kinds of steps were model-checked on the runs' instances before
they were proved, and were seen to be reached there. Every invariant and every action property of the
passing runs is proved.

## Not modelled

* Templates, and loading and validating the catalogue, tombstones and features: pure functions
  of embedded files, run once. Patcher takes the result of rendering as `golden`.
* What a JSON patch does inside an object, and the comparison of objects field by field:
  abstracted to whether a patch can be parsed and applied, and whether specs differ.
* Several MachineConfigs that share the staging ConfigMap, and its owner reference.
* The predicate for MachineConfigPool events, leader election, health probes, cache selectors.
* `StaticRules`, which do not depend on the catalogue; the tombstone status gauge; events.
* Generators, command-line tools and the debug endpoints that print lists.
