---------------------------- MODULE CRDLifecycle ----------------------------
(***************************************************************************)
(* CRDs that come and go under a running operator: the checker's cache     *)
(* (pkg/util/crd_checker.go), the watches chosen at startup, the CRD event *)
(* handlers that restart the operator to choose them again, and what a     *)
(* pass makes of the answers (dependency metrics and the assets it takes   *)
(* up), all of pkg/controller/platform_controller.go.  The process itself  *)
(* starts and ends in OperatorProcess.                                     *)
(*                                                                         *)
(* Time passes in ticks.  The cache's time to live is TTL, and a request   *)
(* to the API server takes at most MaxLatency.                             *)
(***************************************************************************)
EXTENDS Integers, Sequences, FiniteSets, Functions

CONSTANTS CRDs,          \* the CRDs the catalog names
          HcoCRD,        \* the one of the HyperConverged, needed to start
          Assets,        \* the assets of the catalog but the HCO's own
          NoCRD,         \* the asset needs no CRD
          None,          \* no entry in the cache, no request under way
          RequiredCRD,   \* of each asset, derived from its kind
          GateCRD,       \* of each asset, from metadata.yaml
          TTL, MaxLatency,
          MaxCRDMoves    \* bound on disturbances

\* Every gate CRD of metadata.yaml is also the required CRD of some asset.
ASSUME CRDAssumption ==
    /\ IsFiniteSet(CRDs) /\ IsFiniteSet(Assets)
    /\ HcoCRD \in CRDs /\ NoCRD \notin CRDs
    /\ RequiredCRD \in [Assets -> CRDs \cup {NoCRD}] /\ GateCRD \in [Assets -> CRDs \cup {NoCRD}]
    /\ \A a \in Assets : GateCRD[a] # NoCRD => \E b \in Assets : RequiredCRD[b] = GateCRD[a]
    /\ None \notin [exists : BOOLEAN, age : Nat]
    /\ TTL \in Nat /\ MaxLatency \in Nat /\ MaxCRDMoves \in Nat

\* The CRDs of the assets' kinds, the HCO's own included.
Required == {HcoCRD} \cup {c \in CRDs : \E a \in Assets : RequiredCRD[a] = c}

\* IsManagedCRD
Managed == Required \cup {c \in CRDs : \E a \in Assets : GateCRD[a] = c}

VARIABLES
    \* the cluster
    installed,   \* CRDs that exist
    since,       \* ticks since each was created or deleted, up to Horizon
    \* the process
    phase,       \* "down", "setup", "starting" (the informers) or "up"
    stopping,    \* the manager's context is cancelled
    known,       \* CRDs in the informer's store
    watched,     \* watchedCRDs
    listed,      \* those whose informer has listed its objects
    cache,       \* of each CRD an entry [exists, age], or None
    \* the thread that runs SetupWithManager and then the passes
    plan,        \* lookups still to come
    flight,      \* an answer of the API server that is not in the cache yet
    pending,     \* a request is in the work queue
    pass,        \* a pass is running
    skipped,     \* assets it leaves out
    retry,       \* it could not check a CRD for the metrics
    \* what it does
    active,      \* assets that the last complete pass took up
    missing,     \* CRDs whose missing-dependency gauge is 1
    crdMoves

crdVars == <<installed, since, phase, stopping, known, watched, listed, cache, plan, flight,
             pending, pass, skipped, retry, active, missing, crdMoves>>

\* How long an answer of the checker may be wrong.
Horizon == TTL + MaxLatency

Disturb == crdMoves < MaxCRDMoves /\ crdMoves' = crdMoves + 1
Calm    == crdMoves' = crdMoves

-----------------------------------------------------------------------------
(* The plans.  SetupWithManager looks up the required CRDs; a pass looks up  *)
(* all managed CRDs for the metrics, and then what each asset needs.         *)

Lookup(use, c, a) == [use |-> use, crd |-> c, asset |-> a]

\* The members of S in some order: the code iterates over maps and the catalog's list.
InOrder(S) == CHOOSE f \in Injection(1 .. Cardinality(S), S) : TRUE

\* One lookup for each member of S.
EachOf(S, use) == [i \in 1 .. Cardinality(S) |-> Lookup(use, InOrder(S)[i], NoCRD)]

SetupPlan == EachOf(Required, "setup")

\* One check of assetCRDsAvailable: an asset may need no such CRD.
Check(c, a) == IF c = NoCRD THEN <<>> ELSE <<Lookup("asset", c, a)>>

\* The gate is not looked at.
AssetPlan_NoGate(a) == Check(RequiredCRD[a], a)

\* assetCRDsAvailable
AssetPlan(a) == Check(RequiredCRD[a], a) \o Check(GateCRD[a], a)

\* The loop over the catalog.
AssetPlans ==
    LET upTo[n \in 0 .. Cardinality(Assets)] ==
          IF n = 0 THEN <<>> ELSE upTo[n - 1] \o AssetPlan(InOrder(Assets)[n])
    IN  upTo[Cardinality(Assets)]

PassPlan == EachOf(Managed, "metric") \o AssetPlans

-----------------------------------------------------------------------------
(* crdCache *)

\* An entry never expires.
Fresh_Forever(c) == cache[c] # None

\* crdCache.get finds an entry: it is not older than the time to live.
Fresh(c) == cache[c] # None /\ cache[c].age <= TTL

CacheSet(c, exists) == cache' = [cache EXCEPT ![c] = [exists |-> exists, age |-> 0]]

EmptyCache == [c \in CRDs |-> None]

-----------------------------------------------------------------------------
(* What the thread does with an answer: "yes", "no", or "error"              *)

\* The asset is left out, and its gate, which would be next, is not looked at.
Skip(a) ==
    LET rest == Tail(plan) IN
    /\ skipped' = skipped \cup {a}
    /\ plan' = IF rest # <<>> /\ Head(rest).asset = a THEN Tail(rest) ELSE rest

Answer(answer) ==
    LET l == Head(plan) IN
    CASE l.use = "setup" ->
           /\ plan' = (IF answer = "yes" THEN <<Lookup("fetch", l.crd, NoCRD)>> ELSE <<>>) \o Tail(plan)
           /\ UNCHANGED <<skipped, retry, missing>>
      [] l.use = "metric" ->
           /\ missing' = CASE answer = "yes" -> missing \ {l.crd}
                           [] answer = "no" -> missing \cup {l.crd}
                           [] OTHER -> missing
           /\ retry' = (retry \/ answer = "error") /\ plan' = Tail(plan)
           /\ UNCHANGED skipped
      [] l.use = "asset" ->
           /\ IF answer = "yes" THEN plan' = Tail(plan) /\ skipped' = skipped ELSE Skip(l.asset)
           /\ UNCHANGED <<retry, missing>>

Asking == plan # <<>> /\ Head(plan).use # "fetch" /\ flight = None

YesNo(b) == IF b THEN "yes" ELSE "no"

\* IsCRDInstalled answers from the cache ...
CacheHit ==
    /\ Asking /\ Fresh(Head(plan).crd)
    /\ Answer(YesNo(cache[Head(plan).crd].exists))
    /\ UNCHANGED <<installed, since, phase, stopping, known, watched, listed, cache, flight, pending, pass, active, crdMoves>>

\* ... or asks the API server, and does not cache an error ...
LookupGet ==
    /\ Asking /\ ~Fresh(Head(plan).crd)
    /\ \/ /\ flight' = [exists |-> Head(plan).crd \in installed, age |-> 0]
          /\ Calm /\ UNCHANGED <<plan, skipped, retry, missing>>
       \/ Disturb /\ Answer("error") /\ flight' = flight
    /\ UNCHANGED <<installed, since, phase, stopping, known, watched, listed, cache, pending, pass, active>>

\* ... and stores the answer, whatever has happened to the cache in between.
LookupSet ==
    /\ flight # None
    /\ CacheSet(Head(plan).crd, flight.exists) /\ flight' = None
    /\ Answer(YesNo(flight.exists))
    /\ UNCHANGED <<installed, since, phase, stopping, known, watched, listed, pending, pass, active, crdMoves>>

-----------------------------------------------------------------------------
(* SetupWithManager, and the informers *)

\* The CRD is fetched for its version; if that fails it is not watched.
Fetch ==
    /\ plan # <<>> /\ Head(plan).use = "fetch"
    /\ LET c == Head(plan).crd IN
       \/ watched' = (IF c \in installed THEN watched \cup {c} ELSE watched) /\ Calm
       \/ Disturb /\ watched' = watched
    /\ plan' = Tail(plan)
    /\ UNCHANGED <<installed, since, phase, stopping, known, listed, cache, flight, pending, pass, skipped, retry, active, missing>>

SetupDone ==
    /\ phase = "setup" /\ plan = <<>> /\ phase' = "starting"
    /\ UNCHANGED <<installed, since, stopping, known, watched, listed, cache, plan, flight, pending, pass, skipped, retry, active, missing, crdMoves>>

\* An informer lists the objects of a kind that is served.
ListKind(c) ==
    /\ phase = "starting" /\ c \in (watched \ listed) \cap installed
    /\ listed' = listed \cup {c}
    /\ UNCHANGED <<installed, since, phase, stopping, known, watched, cache, plan, flight, pending, pass, skipped, retry, active, missing, crdMoves>>

\* Workers start once the informers of the CRDs and of all watched kinds have
\* synced; the HCO of the initial list is the first request.
Synced ==
    /\ phase = "starting" /\ listed = watched /\ known = installed
    /\ phase' = "up" /\ pending' = TRUE
    /\ UNCHANGED <<installed, since, stopping, known, watched, listed, cache, plan, flight, pass, skipped, retry, active, missing, crdMoves>>

-----------------------------------------------------------------------------
(* Passes *)

\* reconcileDependencyMetrics, and reconcileAssets up to its choice of assets.
PassBegin ==
    /\ phase = "up" /\ pending /\ ~pass
    /\ pending' = FALSE /\ pass' = TRUE /\ plan' = PassPlan
    /\ UNCHANGED <<installed, since, phase, stopping, known, watched, listed, cache, flight, skipped, retry, active, missing, crdMoves>>

\* A metric that could not be refreshed is an error in the end, and retried.
PassEnd ==
    /\ pass /\ plan = <<>>
    /\ active' = Assets \ skipped /\ pending' = (pending \/ retry)
    /\ pass' = FALSE /\ skipped' = {} /\ retry' = FALSE
    /\ UNCHANGED <<installed, since, phase, stopping, known, watched, listed, cache, plan, flight, missing, crdMoves>>

\* RequeueAfter is five minutes, ten times the time to live.
Requeue ==
    /\ phase = "up" /\ ~pending /\ ~pass /\ (\A c \in CRDs : ~Fresh(c))
    /\ pending' = TRUE
    /\ UNCHANGED <<installed, since, phase, stopping, known, watched, listed, cache, plan, flight, pass, skipped, retry, active, missing, crdMoves>>

\* The HCO or a watched object changes.
WatchEvent ==
    /\ phase = "up" /\ ~pending /\ pending' = TRUE /\ Disturb
    /\ UNCHANGED <<installed, since, phase, stopping, known, watched, listed, cache, plan, flight, pass, skipped, retry, active, missing>>

-----------------------------------------------------------------------------
(* crdEventHandler.  Every event clears the cache and adds a request.        *)

Informed == phase \in {"starting", "up"}

Handled(c, restart) ==
    /\ stopping' = (stopping \/ (c \in Managed /\ restart))
    /\ cache' = EmptyCache /\ pending' = TRUE
    /\ UNCHANGED <<installed, since, phase, watched, listed, plan, flight, pass, skipped, retry, active, missing>>

\* A new CRD is left to the caches.
CRDCreated_NoRestart(c) ==
    /\ Informed /\ c \in installed \ known
    /\ known' = known \cup {c} /\ Handled(c, FALSE) /\ Calm

\* CreateFunc, for the CRDs of the initial list too.
CRDCreated(c) ==
    /\ Informed /\ c \in installed \ known
    /\ known' = known \cup {c} /\ Handled(c, c \notin watched) /\ Calm

CRDDeleted(c) ==
    /\ Informed /\ c \in known \ installed
    /\ known' = known \ {c} /\ Handled(c, c \in watched) /\ Calm

\* A new schema, or a deletion and creation that the informer saw as one change.
CRDUpdated(c) ==
    /\ Informed /\ c \in known \cap installed
    /\ known' = known /\ Handled(c, FALSE) /\ Disturb

CRDEvent == \E c \in CRDs : CRDCreated(c) \/ CRDDeleted(c)

-----------------------------------------------------------------------------
(* The cluster and the clock *)

CRDChanges(c) ==
    /\ Disturb
    /\ installed' = (installed \ {c}) \cup ({c} \ installed)
    /\ since' = [since EXCEPT ![c] = 0]
    /\ UNCHANGED <<phase, stopping, known, watched, listed, cache, plan, flight, pending, pass, skipped, retry, active, missing>>

Older(n, bound) == IF n < bound THEN n + 1 ELSE n

\* Requests take time, and so do the pauses between passes.
Tick ==
    /\ IF plan = <<>> THEN ~pass ELSE flight # None /\ flight.age < MaxLatency
    /\ since' = [c \in CRDs |-> Older(since[c], Horizon + 1)]
    /\ cache' = [c \in CRDs |-> IF cache[c] = None THEN None
                                ELSE [cache[c] EXCEPT !.age = Older(@, TTL + 1)]]
    /\ flight' = IF flight = None THEN None ELSE [flight EXCEPT !.age = @ + 1]
    /\ <<since', cache', flight'>> # <<since, cache, flight>>
    /\ UNCHANGED <<installed, phase, stopping, known, watched, listed, plan, pending, pass, skipped, retry, active, missing, crdMoves>>

-----------------------------------------------------------------------------
(* Start and end of the process *)

NoProcess ==
    /\ phase' = "down" /\ stopping' = FALSE /\ known' = {} /\ watched' = {} /\ listed' = {} /\ cache' = EmptyCache
    /\ plan' = <<>> /\ flight' = None /\ pending' = FALSE /\ pass' = FALSE
    /\ skipped' = {} /\ retry' = FALSE /\ active' = {} /\ missing' = {}
    /\ UNCHANGED <<installed, since>>

\* runController: without the CRD of the HCO, or if it cannot be checked, the
\* process fails, and is started again.
CRDStart ==
    /\ phase = "down" /\ HcoCRD \in installed
    /\ phase' = "setup" /\ plan' = SetupPlan
    /\ UNCHANGED <<installed, since, stopping, known, watched, listed, cache, flight, pending, pass, skipped, retry, active, missing, crdMoves>>

\* The cancelled context ends the manager, and so does a kind that is watched
\* and not served by the time the informers give up.
CRDStop ==
    /\ stopping \/ (phase = "starting" /\ ~(watched \subseteq listed \cup installed))
    /\ NoProcess /\ Calm

\* The process is killed.
CRDCrash == phase # "down" /\ NoProcess

CRDInit ==
    /\ installed \in {S \in SUBSET CRDs : HcoCRD \in S}
    /\ since = [c \in CRDs |-> Horizon + 1]
    /\ phase = "down" /\ stopping = FALSE /\ known = {} /\ watched = {} /\ listed = {} /\ cache = EmptyCache
    /\ plan = <<>> /\ flight = None /\ pending = FALSE /\ pass = FALSE
    /\ skipped = {} /\ retry = FALSE /\ active = {} /\ missing = {}
    /\ crdMoves \in 0 .. MaxCRDMoves

-----------------------------------------------------------------------------
(* Properties *)

Entries(maxAge) == [exists : BOOLEAN, age : 0 .. maxAge]

CRDTypeOK ==
    /\ installed \subseteq CRDs /\ known \subseteq CRDs /\ watched \subseteq Required /\ listed \subseteq watched
    /\ since \in [CRDs -> 0 .. Horizon + 1]
    /\ phase \in {"down", "setup", "starting", "up"}
    /\ stopping \in BOOLEAN /\ pending \in BOOLEAN /\ pass \in BOOLEAN /\ retry \in BOOLEAN
    /\ cache \in [CRDs -> Entries(TTL + 1) \cup {None}]
    /\ flight \in Entries(MaxLatency) \cup {None}
    /\ plan \in Seq([use : {"setup", "fetch", "metric", "asset"}, crd : CRDs, asset : Assets \cup {NoCRD}])
    /\ skipped \subseteq Assets /\ active \subseteq Assets /\ missing \subseteq CRDs
    /\ crdMoves \in 0 .. MaxCRDMoves
    /\ (flight # None => plan # <<>>)

\* The checker is wrong about a CRD for no longer than the time to live and one
\* request after the CRD changed, although an answer that was on its way when the
\* CRD's event cleared the cache is stored after that (crd_checker.go 64-90).
StaleAnswersAreBounded ==
    \A c \in CRDs : Fresh(c) /\ cache[c].exists # (c \in installed) => since[c] <= Horizon

Available(a) == \A c \in {RequiredCRD[a], GateCRD[a]} \ {NoCRD} : c \in installed

\* Once CRDs come and go no more, the restarts end, and all managed CRDs that are
\* there are watched (platform_controller.go 523-589).  A watch may be left of a
\* CRD that went away between its own informer's list and the one of the CRDs.
RestartsEnd ==
    <>[](HcoCRD \in installed => phase = "up" /\ ~stopping /\ installed \cap Managed \subseteq watched)

\* Once CRDs come and go no more, passes take up the assets whose CRDs are there
\* and the gauges tell which CRDs are missing, cached answers notwithstanding
\* (platform_controller.go 317-372).
AssetsFollowCRDs ==
    <>[](HcoCRD \in installed =>
           active = {a \in Assets : Available(a)} /\ missing = Managed \ installed)
=============================================================================
