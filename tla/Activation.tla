----------------------------- MODULE Activation -----------------------------
(***************************************************************************)
(* Which assets a pass takes up: the render context built from the cluster *)
(* (pkg/controller/hco_context.go), the conditions of the catalog          *)
(* (pkg/assets/registry.go), the opt-in states behind the dependency       *)
(* metrics, and the loop of reconcileAssets; and what the debug server     *)
(* shows of the same assets (pkg/render/output.go, pkg/debug/handlers.go). *)
(* The loops take the assets in any order: the sort by reconcile_order is  *)
(* not stable.  The HCO's own asset is not part of them.                   *)
(*                                                                         *)
(* An asset is [install, conditions, required, gate, group, renders,       *)
(* previews, object]; a condition is [type, arg, value], where NoArg is a  *)
(* field left out.  renders is what its template comes to in a pass, whose *)
(* renderer reads objects, storage classes and CRDs and may fail to;       *)
(* previews is what it comes to in the debug server, whose renderer has no *)
(* client and whose context has neither hardware nor topology.  An         *)
(* exclusion rule has the sets of names and namespaces that its patterns   *)
(* match.                                                                  *)
(***************************************************************************)
EXTENDS FiniteSets, Integers, Sequences, FiniteSetsExt

CONSTANTS NoArg,        \* an empty field
          NoContext,    \* no render context yet, or none to be had
          Worlds,       \* states of the cluster, see Build
          AssetSets     \* catalogs

WorldFields == {"nodes", "infra", "provider", "scheduler", "fails", "annotations", "gates", "kubevirt",
                "kvGates", "images", "configured", "crds", "rules"}

\* As in metadata.yaml, no condition asks for a topology flag to be false.
ASSUME ActivationAssumption ==
    /\ \A w \in Worlds : DOMAIN w = WorldFields
    /\ \A assets \in AssetSets : \A a \in assets :
         /\ a.conditions \in Seq(Range(a.conditions))
         /\ {a.renders, a.previews} \subseteq {"object", "empty", "error"}
         /\ \A i \in DOMAIN a.conditions :
              a.conditions[i].type = "topology" => a.conditions[i].value # "false"

VARIABLES world,       \* the cluster
          assets,      \* the catalog
          context,     \* the condition evaluator
          counted,     \* assets CRDOptInStates has looked at
          optedIn,     \* its result so far: CRDs, and whether an asset enables them
          considered,  \* assets reconcileAssets has looked at
          taken        \* assetsToReconcile

activationVars == <<world, assets, context, counted, optedIn, considered, taken>>

-----------------------------------------------------------------------------
(* The render context *)

Count(nodes, Test(_)) == Cardinality({i \in DOMAIN nodes : Test(nodes[i])})

\* Union over the nodes.
DetectHardware(nodes) == UNION {nodes[i].devices : i \in DOMAIN nodes}

\* Every master is a worker, and there is no other worker.
IsCompact(nodes) ==
    LET masters == Count(nodes, LAMBDA n : n.master)
    IN  /\ masters > 0 /\ masters = Count(nodes, LAMBDA n : n.master /\ n.worker)
        /\ Count(nodes, LAMBDA n : ~n.master /\ n.worker) = 0

NoTopology == {}

ProviderFlags == [AWS |-> "isAWS", Azure |-> "isAzure", GCP |-> "isGCP",
                  BareMetal |-> "isBareMetal", VSphere |-> "isVSphere", OpenStack |-> "isOpenStack"]

\* What cannot be read is assumed.
DetectTopology_FailOpen(w) ==
    (IF IsCompact(w.nodes) THEN {"isCompact"} ELSE {})
      \cup (IF w.infra = "External" THEN {"isHCP"} ELSE {})
      \cup {ProviderFlags[p] : p \in DOMAIN ProviderFlags \cap {w.provider}}
      \cup (IF w.scheduler = "yes" \/ "scheduler" \in w.fails THEN {"hasSchedulableMasters"} ELSE {})

\* detectTopology, and Build's answer to its error: the flags that hold, none of
\* them if the Infrastructure or the Scheduler cannot be read.
DetectTopology(w) ==
    IF w.fails \cap {"infra", "scheduler"} # {} THEN NoTopology
    ELSE (IF IsCompact(w.nodes) THEN {"isCompact"} ELSE {})
           \cup (IF w.infra = "External" THEN {"isHCP"} ELSE {})
           \cup {ProviderFlags[p] : p \in DOMAIN ProviderFlags \cap {w.provider}}
           \cup (IF w.scheduler = "yes" THEN {"hasSchedulableMasters"} ELSE {})

\* ExtractFeatureGates: the last entry of a name counts.
ExtractFeatureGates(gates) ==
    {g \in {gates[i].name : i \in DOMAIN gates} :
       LET last == CHOOSE i \in DOMAIN gates :
                     gates[i].name = g /\ \A j \in DOMAIN gates : gates[j].name = g => j <= i
       IN  gates[last].state # "Disabled"}

\* getKubeVirtFGs: no KubeVirt, or none that the HCO refers to, is no gate.
KubeVirtGates(w) == IF w.kubevirt = "found" THEN w.kvGates ELSE {}

\* Build and updateConditionEvaluator.  A failing list of nodes or read of the
\* KubeVirt is an error, which ends the pass.
Build(w) ==
    IF w.fails \cap {"nodes", "kubevirt"} # {} THEN NoContext
    ELSE [hardware |-> DetectHardware(w.nodes), topology |-> DetectTopology(w),
          gates |-> ExtractFeatureGates(w.gates), kvGates |-> KubeVirtGates(w),
          annotations |-> w.annotations, images |-> w.images, configured |-> w.configured]

-----------------------------------------------------------------------------
(* DefaultConditionEvaluator and Registry: "yes", "no" or "error" *)

YesOrNo(b) == IF b THEN "yes" ELSE "no"

\* Fields of the topology that are boolean, and others.
Flags == {"isCompact", "isHCP", "hasSchedulableMasters"} \cup {ProviderFlags[p] : p \in DOMAIN ProviderFlags}
Other == {"masterCount", "workerCount", "totalNodeCount", "controlPlaneTopology", "cloudProvider"}

EvaluateTopology(c, e) ==
    CASE c.arg \in Other -> "error"
      [] c.arg \in Flags -> YesOrNo((c.arg \in e.topology) # (c.value = "false"))
      [] OTHER -> "no"

EvaluateAnnotation(c, e) ==
    c.arg \in DOMAIN e.annotations /\ (c.value = NoArg \/ e.annotations[c.arg] = c.value)

EvaluateCondition(c, e) ==
    IF c.arg = NoArg THEN "error"
    ELSE CASE c.type = "hardware-detection"     -> YesOrNo(c.arg \in e.hardware)
           [] c.type = "feature-gate"           -> YesOrNo(c.arg \in e.gates)
           [] c.type = "kubevirt-feature-gate"  -> YesOrNo(c.arg \in e.kvGates)
           [] c.type = "annotation"             -> YesOrNo(EvaluateAnnotation(c, e))
           [] c.type = "image"                  -> YesOrNo(c.arg \in e.images)
           [] c.type = "hco-field-unconfigured" -> YesOrNo(c.arg \notin e.configured)
           [] c.type = "topology"               -> EvaluateTopology(c, e)
           [] OTHER -> "error"

\* All conditions in order; the first that is not satisfied is the answer.  Opt-in
\* takes a condition.
ShouldApply(a, e) ==
    LET Answer(i) == EvaluateCondition(a.conditions[i], e)
        failing   == {i \in DOMAIN a.conditions : Answer(i) # "yes"}
    IN  IF a.conditions = <<>> THEN YesOrNo(a.install # "opt-in")
        ELSE IF failing = {} THEN "yes" ELSE Answer(Min(failing))

CRDsOf(a) == {a.required, a.gate} \ {NoArg}

-----------------------------------------------------------------------------
(* The pass *)

BuildEvaluator ==
    /\ context = NoContext
    /\ context' = Build(world) /\ context' # NoContext
    /\ UNCHANGED <<world, assets, counted, optedIn, considered, taken>>

\* The last asset that depends on a CRD decides.
OptInAfter_LastWins(states, a, e) ==
    LET answer == IF a.install = "always" THEN "yes" ELSE ShouldApply(a, e)
    IN  IF answer = "error" THEN states
        ELSE [c \in DOMAIN states \cup CRDsOf(a) |-> IF c \in CRDsOf(a) THEN answer = "yes" ELSE states[c]]

\* CRDOptInStates, for one asset; conditions that cannot be evaluated are logged.
OptInAfter(states, a, e) ==
    LET answer == IF a.install = "always" THEN "yes" ELSE ShouldApply(a, e)
    IN  IF answer = "error" THEN states
        ELSE [c \in DOMAIN states \cup CRDsOf(a) |->
                (c \in DOMAIN states /\ states[c]) \/ (c \in CRDsOf(a) /\ answer = "yes")]

CountOptIn(a) ==
    /\ context # NoContext /\ a \in assets \ counted
    /\ counted' = counted \cup {a} /\ optedIn' = OptInAfter(optedIn, a, context)
    /\ UNCHANGED <<world, assets, context, considered, taken>>

\* The metrics are not waited for.
ConsiderAsset_Early(a) ==
    /\ context # NoContext /\ a \in assets \ considered
    /\ considered' = considered \cup {a}
    /\ taken' = IF CRDsOf(a) \subseteq world.crds /\ ShouldApply(a, context) = "yes"
                THEN taken \cup {a} ELSE taken
    /\ UNCHANGED <<world, assets, context, counted, optedIn>>

\* reconcileAssets, for one asset.
ConsiderAsset(a) ==
    /\ context # NoContext /\ counted = assets /\ a \in assets \ considered
    /\ considered' = considered \cup {a}
    /\ taken' = IF CRDsOf(a) \subseteq world.crds /\ ShouldApply(a, context) = "yes"
                THEN taken \cup {a} ELSE taken
    /\ UNCHANGED <<world, assets, context, counted, optedIn>>

ActivationInit(w, as) ==
    /\ world = w /\ assets = as /\ context = NoContext
    /\ counted = {} /\ optedIn = <<>> /\ considered = {} /\ taken = {}

ActivationStep ==
    \/ BuildEvaluator
    \/ \E a \in assets : CountOptIn(a) \/ ConsiderAsset(a)

Chosen == context # NoContext /\ considered = assets

-----------------------------------------------------------------------------
(* Root exclusions, pkg/engine/exclusion.go *)

\* One malformed rule makes the annotation an error, and errors are no rules.
ParseDisabledResources(rules) ==
    IF \E r \in rules : r.kind = NoArg \/ r.names = NoArg THEN {} ELSE rules

IsResourceExcluded(object, rules) ==
    \E r \in rules : /\ r.kind = object.kind /\ object.name \in r.names
                     /\ r.namespaces = NoArg \/ object.namespace \in r.namespaces

Excluded(a, w) == IsResourceExcluded(a.object, ParseDisabledResources(w.rules))

\* What Patcher.ReconcileAsset goes on with.
Sent == {a \in taken : a.renders = "object" /\ ~Excluded(a, world)}

-----------------------------------------------------------------------------
(* The debug server.  It reads the HCO, and no other object. *)

\* Only the first condition is looked at.
CheckConditions_First(a, w) ==
    a.conditions = <<>> \/
      LET c == a.conditions[1]
      IN  CASE c.type = "annotation" -> c.arg \in DOMAIN w.annotations /\ w.annotations[c.arg] = c.value
            [] c.type = "feature-gate" -> c.arg \in ExtractFeatureGates(w.gates)
            [] OTHER -> c.type \notin {"hardware-detection", "kubevirt-feature-gate"}

\* An annotation that is not set equals an empty value; conditions of other types
\* are taken as satisfied.
CheckConditions(a, w) ==
    \A i \in DOMAIN a.conditions :
      LET c == a.conditions[i]
      IN  CASE c.type = "annotation" ->
                 IF c.arg \in DOMAIN w.annotations THEN w.annotations[c.arg] = c.value ELSE c.value = NoArg
            [] c.type = "feature-gate" -> c.arg \in ExtractFeatureGates(w.gates)
            [] OTHER -> c.type \notin {"hardware-detection", "kubevirt-feature-gate"}

\* BuildOutputs, for one asset.
OutputStatus(a, w) ==
    CASE ~CheckConditions(a, w) -> "EXCLUDED"
      [] CheckConditions(a, w) /\ a.previews = "error" -> "ERROR"
      [] CheckConditions(a, w) /\ a.previews = "empty" -> "EXCLUDED"
      [] OTHER -> IF Excluded(a, w) THEN "FILTERED" ELSE "INCLUDED"

\* filterByInstalledCRDs: a kind outside the core group needs a CRD, even if it is
\* built in.
ShownWhenInstalled(a, w) == OutputStatus(a, w) = "INCLUDED" => a.group = "core" \/ a.required \in w.crds

Previewed == {a \in assets : OutputStatus(a, world) = "INCLUDED" /\ ShownWhenInstalled(a, world)}

-----------------------------------------------------------------------------
(* Properties *)

\* Every asset that a pass takes up has opted in to all CRDs it depends on, so an
\* alert that looks at opted-in dependencies only does not miss one that is in
\* use, whatever other assets share the CRD (registry.go 307-337).
TakenAreOptedIn ==
    Chosen => \A a \in taken : \A c \in CRDsOf(a) : c \in DOMAIN optedIn /\ optedIn[c]

\* A failing read of the topology keeps assets from being taken up and never lets
\* one in that the cluster's real topology would not (hco_context.go 93-104).
TopologyErrorsWithhold ==
    Chosen => \A a \in taken : ShouldApply(a, Build([world EXCEPT !.fails = {}])) = "yes"

\* What the debug server can judge: annotations with a value and HCO feature gates,
\* at least one of them unless the asset is always installed, no gate CRD, a kind
\* that is core or has a CRD, and a template that comes to the same without a
\* client and without hardware and topology.
Previewable(a) ==
    /\ \A i \in DOMAIN a.conditions :
         /\ a.conditions[i].type \in {"annotation", "feature-gate"}
         /\ a.conditions[i].arg # NoArg
         /\ a.conditions[i].type = "annotation" => a.conditions[i].value # NoArg
    /\ a.install # "opt-in" \/ a.conditions # <<>>
    /\ a.previews = a.renders
    /\ a.gate = NoArg /\ (a.required # NoArg <=> a.group # "core")

\* Of these, /debug/render?only-installed=true includes exactly what a pass sends
\* to the API server, though it evaluates conditions, CRDs and exclusions with
\* code of its own (output.go 48-150, handlers.go 401-423).
PreviewIsWhatIsSent ==
    Chosen => \A a \in assets : Previewable(a) => (a \in Previewed <=> a \in Sent)
=============================================================================
