------------------------- MODULE OperatorRestProofs -------------------------
(***************************************************************************)
(* The operator's process at rest: it runs and knows the cluster as it is. *)
(* That it gets there is a liveness property and is model-checked; that it *)
(* stays there, whatever pass, request or handler is under way, is proved. *)
(***************************************************************************)
EXTENDS OperatorProofs

Undisturbed == Calm /\ TLSCalm

\* The informer of the CRDs has seen them all, those that are managed are watched,
\* and a certificate that is mounted is served.
ProcessAtRest ==
    /\ phase = "up" /\ ~stopping /\ known = installed
    /\ installed \cap Managed \subseteq watched
    /\ cert => secure

\* A process at rest does not restart, neither for a CRD nor for the certificate, as
\* long as nothing disturbs it (platform_controller.go 523-589, main.go's
\* waitForServingCertThenRestart).
ProcessRestIsKept ==
    [][ProcessAtRest /\ Undisturbed => ProcessAtRest' /\ UNCHANGED <<installed, phase, secure, watching>>]_vars

\* The steps there are of an undisturbed process at rest.
LookupStep == (CacheHit \/ LookupGet \/ LookupSet \/ Fetch) /\ UNCHANGED tlsVars

QuietStep == LookupStep \/ Pass \/ Timer \/ Clock \/ TLSSteps \/ ChannelEvent \/ UNCHANGED vars

LEMMA OnlyQuietSteps ==
    ASSUME ProcessInv, ProcessAtRest, Undisturbed, [Next]_vars PROVE QuietStep
<1>1. ~Disturb /\ ~TLSDisturb
  BY CRDAssumption, TLSAssumption DEF Undisturbed, Calm, TLSCalm, Disturb, TLSDisturb, ProcessInv, FlagsOK, TLSTypeOK
<1>2. ~Disturbance
  BY <1>1, Zenon DEF Disturbance, WatchEvent, CRDUpdated, CRDChanges, TLSChanges, CertMounted, Crash
<1>3. ~Events
  BY DEF Events, CRDEvent, CRDCreated, CRDDeleted, ListKind, ProcessAtRest
<1>4. ~Process
  BY DEF Process, Start, CRDStart, Stop, CRDStop, CertRestart, ProcessAtRest
<1>5. ~SetupDone /\ ~Synced
  BY DEF SetupDone, Synced, ProcessAtRest
<1> QED
  BY <1>2, <1>3, <1>4, <1>5 DEF Next, Controller, QuietStep, LookupStep

LEMMA ProcessStays ==
    ASSUME ProcessInv, ProcessAtRest, Undisturbed, [Next]_vars
    PROVE  ProcessAtRest' /\ UNCHANGED <<installed, phase, secure, watching, clusterTLS>>
<1>1. QuietStep
  BY OnlyQuietSteps
<1>2. UNCHANGED <<installed, phase, stopping, known>> /\ watched \subseteq watched'
  BY <1>1, Zenon DEF QuietStep, LookupStep, CacheHit, LookupGet, LookupSet, Fetch, Pass, PassBegin, PassEnd, Timer, Requeue,
              Clock, Tick, TLSSteps, crdVars, ChannelEvent, vars
<1>3. UNCHANGED <<secure, watching, clusterTLS>>
  BY <1>1, Zenon DEF QuietStep, LookupStep, Pass, Timer, Clock, TLSSteps, TLSStep, ReadAPIServer, SetProfile, Notify, ReadCA, SetCA,
              ChannelEvent, tlsVars, clusterTLS, vars
<1> QED
  BY <1>2, <1>3 DEF ProcessAtRest, clusterTLS

\* Restarts end for good once the process knows the cluster.
THEOREM ProcessRestKept == Spec => ProcessRestIsKept
<1> DEFINE Stays == ProcessAtRest /\ Undisturbed => ProcessAtRest' /\ UNCHANGED <<installed, phase, secure, watching>>
<1>1. ProcessInv /\ [Next]_vars => Stays
  BY ProcessStays
<1> QED
  BY <1>1, ProcessInvariant, PTL DEF Spec, ProcessRestIsKept

Running == HcoCRD \in installed => phase = "up" /\ ~stopping /\ installed \cap Managed \subseteq watched

\* What is left of RestartsEnd for the model checker is only that the process gets to
\* know the cluster once disturbances have come to an end.
THEOREM RestEndsRestarts == Spec /\ <>(ProcessAtRest /\ [][Undisturbed]_vars) => RestartsEnd
<1>1. ProcessInv /\ [Next]_vars /\ [Undisturbed]_vars /\ ProcessAtRest => ProcessAtRest'
  <2>1. [Undisturbed]_vars => Undisturbed
    BY DEF vars, Undisturbed, Calm, TLSCalm
  <2> QED
    BY <2>1, ProcessStays
<1>2. ProcessAtRest => Running
  BY DEF ProcessAtRest, Running
<1>3. <>[]Running => RestartsEnd
  BY PTL DEF RestartsEnd, Running
<1> QED
  BY <1>1, <1>2, <1>3, ProcessInvariant, PTL DEF Spec

\* The plan p still has a lookup that will leave the asset a out.
LeavesOut(p, a) == \E i \in 1 .. Len(p) : p[i].use = "asset" /\ p[i].asset = a /\ p[i].crd \notin installed

\* What the checker would answer is right, the gauges and the assets taken up are, and
\* a pass under way is going to find the same.
AnswersAtRest ==
    /\ \A c \in CRDs : Fresh(c) => cache[c].exists = (c \in installed)
    /\ flight # None => flight.exists = (Head(plan).crd \in installed)
    /\ active = {a \in Assets : Available(a)} /\ missing = Managed \ installed
    /\ \A a \in skipped : ~Available(a)
    /\ pass => \A a \in Assets : Available(a) \/ a \in skipped \/ LeavesOut(plan, a)

\* With the right answers in the cache, passes neither drop an asset nor take up
\* another one, and no gauge flips, however cached answers expire and are asked for
\* again (platform_controller.go 317-372, crd_checker.go 64-90).
AnswersRestIsKept ==
    [][ProcessAtRest /\ AnswersAtRest /\ Undisturbed => AnswersAtRest' /\ UNCHANGED <<active, missing>>]_vars

LEMMA AvailableIs == ASSUME NEW a PROVE Available(a) <=> Needs(a) \subseteq installed
  BY DEF Available, Needs

\* A lookup that leaves nothing of a out may go.
LEMMA TailLeavesOut ==
    ASSUME NEW p \in Seq(Lookups), p # <<>>, NEW a, LeavesOut(p, a),
           ~(Head(p).use = "asset" /\ Head(p).asset = a /\ Head(p).crd \notin installed)
    PROVE  LeavesOut(Tail(p), a)
<1>1. PICK i \in 1 .. Len(p) : p[i].use = "asset" /\ p[i].asset = a /\ p[i].crd \notin installed
  BY DEF LeavesOut
<1>2. i # 1
  BY <1>1
<1>3. i - 1 \in 1 .. Len(Tail(p)) /\ Tail(p)[i - 1] = p[i]
  BY <1>2
<1> QED
  BY <1>1, <1>3 DEF LeavesOut

\* A pass finds every asset that is not available.
LEMMA PassPlanCovers == ASSUME NEW a \in Assets, ~Available(a) PROVE LeavesOut(PassPlan, a)
<1>1. PICK c \in Needs(a) : c \notin installed
  BY AvailableIs
<1>2. PICK i \in 1 .. Len(AssetPlans) : AssetPlans[i] = Lookup("asset", c, a)
  BY AssetPlansOK
<1> DEFINE first == EachOf(Managed, "metric")
           j == Len(first) + i
<1>3. first \in Seq([use : {"metric"}, crd : Managed, asset : {NoCRD}])
  BY EachOfOK, CatalogIsFinite
<1>4. PassPlan = first \o AssetPlans
  BY DEF PassPlan
<1> HIDE DEF first
<1>5. j \in 1 .. Len(PassPlan) /\ PassPlan[j] = AssetPlans[i]
  <2>1. Len(first) \in Nat /\ Len(AssetPlans) \in Nat
    BY <1>3, AssetPlansOK
  <2>2. Len(PassPlan) = Len(first) + Len(AssetPlans)
    BY <1>3, <1>4, AssetPlansOK
  <2>3. j \in 1 .. Len(PassPlan) /\ ~(j <= Len(first)) /\ j - Len(first) = i
    BY <1>2, <2>1, <2>2
  <2>4. PassPlan[j] = AssetPlans[j - Len(first)]
    BY <1>3, <1>4, <2>2, <2>3, AssetPlansOK
  <2> QED
    BY <2>3, <2>4
<1>6. /\ Lookup("asset", c, a).use = "asset" /\ Lookup("asset", c, a).asset = a
      /\ Lookup("asset", c, a).crd = c
  BY DEF Lookup
<1> HIDE DEF j
<1> QED
  BY <1>1, <1>2, <1>5, <1>6 DEF LeavesOut

\* The right answer to the lookup at hand leaves the assets and gauges right.
LEMMA RightAnswer ==
    ASSUME PlanOK, plan # <<>>, Head(plan).use # "fetch", AnswersAtRest,
           Answer(YesNo(Head(plan).crd \in installed))
    PROVE  /\ missing' = missing
           /\ \A a \in skipped' : ~Available(a)
           /\ \A a \in Assets : LeavesOut(plan, a) => a \in skipped' \/ LeavesOut(plan', a)
           /\ skipped \subseteq skipped'
<1> DEFINE l == Head(plan)
           rest == Tail(plan)
           answer == YesNo(l.crd \in installed)
<1>1. plan \in Seq(Lookups) /\ l \in Lookups /\ rest \in Seq(Lookups)
  BY DEF PlanOK
<1>2. l.use \in {"setup", "metric", "asset"} /\ (answer = "yes" <=> l.crd \in installed) /\ answer \in {"yes", "no"}
  BY <1>1, LookupsAre DEF YesNo
<1>3. CASE l.use = "setup"
  <2>1. UNCHANGED <<skipped, retry, missing>>
        /\ plan' = (IF answer = "yes" THEN <<Lookup("fetch", l.crd, NoCRD)>> ELSE <<>>) \o rest
    BY <1>3, Zenon DEF Answer
  <2>2. \A a : LeavesOut(plan, a) => LeavesOut(rest, a)
    BY <1>1, <1>3, TailLeavesOut
  <2> DEFINE new == Lookup("fetch", l.crd, NoCRD)
  <2>3. plan' = <<new>> \o rest \/ plan' = rest
    <3>1. <<>> \o rest = rest
      BY <1>1
    <3> QED
      BY <2>1, <3>1
  <2> HIDE DEF rest, new
  <2>4. \A a : LeavesOut(rest, a) => LeavesOut(<<new>> \o rest, a)
    <3>1. \A i \in 1 .. Len(rest) : i + 1 \in 1 .. Len(<<new>> \o rest) /\ (<<new>> \o rest)[i + 1] = rest[i]
      BY <1>1
    <3> QED
      BY <3>1, Zenon DEF LeavesOut
  <2>5. \A a : LeavesOut(rest, a) => LeavesOut(plan', a)
    BY <2>3, <2>4, Zenon
  <2> QED
    BY <2>1, <2>2, <2>5 DEF AnswersAtRest
<1>4. CASE l.use = "metric"
  <2>1. /\ plan' = rest /\ skipped' = skipped
        /\ missing' = CASE answer = "yes" -> missing \ {l.crd}
                        [] answer = "no" -> missing \cup {l.crd}
                        [] OTHER -> missing
    BY <1>4, Zenon DEF Answer
  <2>2. l.crd \in Managed
    BY <1>1, <1>4 DEF Lookups, SetupLookups, MetricLookups, AssetLookups
  <2>3. missing' = missing
    BY <1>2, <2>1, <2>2 DEF AnswersAtRest
  <2>4. \A a : LeavesOut(plan, a) => LeavesOut(rest, a)
    BY <1>1, <1>4, TailLeavesOut
  <2> QED
    BY <2>1, <2>3, <2>4 DEF AnswersAtRest
<1>5. CASE l.use = "asset" /\ l.crd \in installed
  <2>1. plan' = rest /\ skipped' = skipped /\ missing' = missing
    BY <1>2, <1>5, Zenon DEF Answer
  <2>2. \A a : LeavesOut(plan, a) => LeavesOut(rest, a)
    BY <1>1, <1>5, TailLeavesOut
  <2> QED
    BY <2>1, <2>2 DEF AnswersAtRest
<1>6. CASE l.use = "asset" /\ l.crd \notin installed
  <2>1. missing' = missing /\ skipped' = skipped \cup {l.asset}
        /\ plan' = IF rest # <<>> /\ Head(rest).asset = l.asset THEN Tail(rest) ELSE rest
    BY <1>2, <1>6, Zenon DEF Answer, Skip
  <2>2. l.crd \in Needs(l.asset)
    BY <1>1, <1>6 DEF Lookups, SetupLookups, MetricLookups, AssetLookups
  <2>3. ~Available(l.asset)
    BY <1>6, <2>2, AvailableIs
  <2>4. \A a : LeavesOut(plan, a) /\ a # l.asset => LeavesOut(rest, a)
    BY <1>1, TailLeavesOut
  <2>5. \A a : LeavesOut(rest, a) /\ a # l.asset => LeavesOut(plan', a)
    <3>1. CASE rest # <<>> /\ Head(rest).asset = l.asset
      BY <1>1, <2>1, <3>1, TailLeavesOut, Zenon
    <3> QED
      BY <2>1, <3>1, Zenon
  <2> QED
    BY <2>1, <2>3, <2>4, <2>5 DEF AnswersAtRest
<1> QED
  BY <1>2, <1>3, <1>4, <1>5, <1>6

\* The same facts about the next state, with the cluster as it is.
LEMMA RestInNextState ==
    ASSUME UNCHANGED installed,
           \A c \in CRDs : Fresh(c)' => cache'[c].exists = (c \in installed),
           flight' # None => flight'.exists = (Head(plan').crd \in installed),
           active' = {a \in Assets : Available(a)}, missing' = Managed \ installed,
           \A a \in skipped' : ~Available(a),
           pass' => \A a \in Assets : Available(a) \/ a \in skipped' \/ LeavesOut(plan', a)
    PROVE  AnswersAtRest'
<1>1. \A a : Available(a)' <=> Available(a)
  BY DEF Available
<1>2. \A a : LeavesOut(plan, a)' <=> LeavesOut(plan', a)
  BY DEF LeavesOut
<1> QED
  BY <1>1, <1>2 DEF AnswersAtRest

LEMMA AnswersStay ==
    ASSUME ProcessInv, StaleInv, ProcessAtRest, AnswersAtRest, Undisturbed, [Next]_vars
    PROVE  AnswersAtRest' /\ UNCHANGED <<active, missing>>
<1> USE DEF ProcessInv
<1>1. QuietStep /\ installed' = installed
  BY OnlyQuietSteps, ProcessStays
<1>2. ~Disturb
  BY CRDAssumption DEF Undisturbed, Calm, Disturb, FlagsOK
<1>3. CASE CacheHit
  <2>1. /\ plan # <<>> /\ Head(plan).use # "fetch" /\ Fresh(Head(plan).crd) /\ flight = None
        /\ UNCHANGED <<cache, flight, pass, active>>
        /\ Answer(YesNo(cache[Head(plan).crd].exists))
    BY <1>3 DEF CacheHit, Asking
  <2>2. Head(plan).crd \in CRDs
    BY <2>1, LookupsAre DEF PlanOK
  <2>3. cache[Head(plan).crd].exists = (Head(plan).crd \in installed)
    BY <2>1, <2>2 DEF AnswersAtRest
  <2>4. Answer(YesNo(Head(plan).crd \in installed))
    BY <2>1, <2>3
  <2>5. \A c : Fresh(c)' <=> Fresh(c)
    BY <2>1 DEF Fresh
  <2> QED
    BY <1>1, <2>1, <2>4, <2>5, RightAnswer, RestInNextState DEF AnswersAtRest
<1>4. CASE LookupGet
  <2>1. /\ flight' = [exists |-> Head(plan).crd \in installed, age |-> 0]
        /\ UNCHANGED <<cache, plan, skipped, missing, pass, active>>
    BY <1>2, <1>4 DEF LookupGet
  <2>2. \A c : Fresh(c)' <=> Fresh(c)
    BY <2>1 DEF Fresh
  <2> QED
    BY <1>1, <2>1, <2>2, RestInNextState DEF AnswersAtRest
<1>5. CASE LookupSet
  <2> DEFINE d == Head(plan).crd
  <2>1. /\ plan # <<>> /\ Head(plan).use # "fetch" /\ flight # None /\ flight' = None
        /\ UNCHANGED <<pass, active>>
        /\ cache' = [cache EXCEPT ![d] = [exists |-> flight.exists, age |-> 0]]
        /\ Answer(YesNo(flight.exists))
    BY <1>5 DEF LookupSet, StaleInv, FlightInv, CacheSet
  <2>2. flight.exists = (d \in installed)
    BY <2>1 DEF AnswersAtRest
  <2>3. Answer(YesNo(d \in installed))
    BY <2>1, <2>2
  <2>4. cache \in [CRDs -> Entries(TTL + 1) \cup {None}]
    BY DEF StaleInv, AgesOK
  <2>5. ASSUME NEW c \in CRDs, Fresh(c)' PROVE cache'[c].exists = (c \in installed)
    <3>1. CASE c = d
      <4>1. cache'[c] = [exists |-> flight.exists, age |-> 0]
        BY <2>1, <2>4, <3>1
      <4>2. cache'[c].exists = flight.exists
        BY <4>1, EntryExists, Zenon
      <4> QED
        BY <2>2, <3>1, <4>2
    <3>2. CASE c # d
      <4>1. cache'[c] = cache[c]
        BY <2>1, <2>4, <3>2
      <4>2. Fresh(c)
        BY <2>5, <4>1 DEF Fresh
      <4> QED
        BY <4>1, <4>2 DEF AnswersAtRest
    <3> QED
      BY <3>1, <3>2
  <2> QED
    BY <1>1, <2>1, <2>3, <2>5, RightAnswer, RestInNextState DEF AnswersAtRest
<1>6. CASE Fetch
  <2>1. /\ plan # <<>> /\ Head(plan).use = "fetch" /\ plan' = Tail(plan)
        /\ UNCHANGED <<cache, flight, skipped, missing, pass, active>>
    BY <1>6 DEF Fetch
  <2>2. flight = None
    BY <2>1 DEF StaleInv, FlightInv
  <2>3. \A a : LeavesOut(plan, a) => LeavesOut(plan', a)
    BY <2>1, TailLeavesOut DEF PlanOK
  <2>4. \A c : Fresh(c)' <=> Fresh(c)
    BY <2>1 DEF Fresh
  <2> QED
    BY <1>1, <2>1, <2>2, <2>3, <2>4, RestInNextState DEF AnswersAtRest
<1>7. CASE PassBegin
  <2>1. ~pass /\ plan' = PassPlan /\ UNCHANGED <<cache, flight, skipped, missing, active>>
    BY <1>7 DEF PassBegin
  <2>2. flight = None
    BY <2>1 DEF StaleInv, FlightInv, ProcessAtRest
  <2>3. \A c : Fresh(c)' <=> Fresh(c)
    BY <2>1 DEF Fresh
  <2>4. \A a \in Assets : Available(a) \/ LeavesOut(plan', a)
    BY <2>1, PassPlanCovers
  <2> QED
    BY <1>1, <2>1, <2>2, <2>3, <2>4, RestInNextState DEF AnswersAtRest
<1>8. CASE PassEnd
  <2>1. /\ pass /\ plan = <<>> /\ active' = Assets \ skipped /\ skipped' = {} /\ pass' = FALSE
        /\ UNCHANGED <<cache, flight, plan, missing>>
    BY <1>8 DEF PassEnd
  <2>2. flight = None
    BY <2>1 DEF StaleInv, FlightInv
  <2>3. \A c : Fresh(c)' <=> Fresh(c)
    BY <2>1 DEF Fresh
  <2>4. \A a : ~LeavesOut(plan, a)
    BY <2>1 DEF LeavesOut
  <2>5. Assets \ skipped = {a \in Assets : Available(a)}
    BY <2>1, <2>4 DEF AnswersAtRest
  <2> QED
    BY <1>1, <2>1, <2>2, <2>3, <2>5, RestInNextState DEF AnswersAtRest
<1>9. CASE Timer \/ TLSSteps \/ ChannelEvent \/ UNCHANGED vars
  <2>1. UNCHANGED <<cache, flight, plan, skipped, missing, pass, active>>
    BY <1>9 DEF Timer, Requeue, TLSSteps, crdVars, ChannelEvent, vars
  <2>2. \A c : Fresh(c)' <=> Fresh(c)
    BY <2>1 DEF Fresh
  <2> QED
    BY <1>1, <2>1, <2>2, RestInNextState DEF AnswersAtRest
<1>10. CASE Clock
  <2>1. /\ UNCHANGED <<plan, skipped, missing, pass, active>>
        /\ cache' = [c \in CRDs |-> IF cache[c] = None THEN None
                                    ELSE [cache[c] EXCEPT !.age = Older(@, TTL + 1)]]
        /\ flight' = IF flight = None THEN None ELSE [flight EXCEPT !.age = @ + 1]
    BY <1>10 DEF Clock, Tick
  <2>2. cache \in [CRDs -> Entries(TTL + 1) \cup {None}] /\ flight \in Entries(MaxLatency) \cup {None}
    BY DEF StaleInv, AgesOK
  <2>3. ASSUME NEW c \in CRDs, Fresh(c)' PROVE cache'[c].exists = (c \in installed)
    <3>1. cache'[c] # None /\ cache'[c].age <= TTL
      BY <2>3 DEF Fresh
    <3>2. cache[c] # None /\ cache'[c] = [cache[c] EXCEPT !.age = Older(@, TTL + 1)]
      BY <2>1, <3>1
    <3>3. cache[c] \in Entries(TTL + 1)
      BY <2>2, <3>2
    <3>4. cache'[c].exists = cache[c].exists /\ cache'[c].age = Older(cache[c].age, TTL + 1) /\ cache[c].age \in 0 .. TTL + 1
      BY <3>2, <3>3 DEF Entries
    <3>5. cache[c].age <= TTL
      BY <3>1, <3>4, WasFresh, Zenon
    <3>6. Fresh(c)
      BY <3>2, <3>5 DEF Fresh
    <3> QED
      BY <3>4, <3>6 DEF AnswersAtRest
  <2>4. flight' # None => flight # None /\ flight'.exists = flight.exists
    BY <2>1, <2>2 DEF Entries
  <2> QED
    BY <1>1, <2>1, <2>3, <2>4, RestInNextState DEF AnswersAtRest
<1> QED
  BY <1>1, <1>3, <1>4, <1>5, <1>6, <1>7, <1>8, <1>9, <1>10 DEF QuietStep, LookupStep, Pass

\* The assets taken up and the gauges keep following the CRDs.
THEOREM AnswersRestKept == Spec => AnswersRestIsKept
<1> DEFINE Stays == ProcessAtRest /\ AnswersAtRest /\ Undisturbed => AnswersAtRest' /\ UNCHANGED <<active, missing>>
<1>1. ProcessInv /\ StaleInv /\ [Next]_vars => Stays
  BY AnswersStay
<1> QED
  BY <1>1, ProcessInvariant, StaleInvariant, PTL DEF Spec, AnswersRestIsKept

Following == HcoCRD \in installed => active = {a \in Assets : Available(a)} /\ missing = Managed \ installed

\* What is left of AssetsFollowCRDs for the model checker is only that the answers
\* become right once.
THEOREM RestFollowsCRDs ==
    Spec /\ <>(ProcessAtRest /\ AnswersAtRest /\ [][Undisturbed]_vars) => AssetsFollowCRDs
<1> DEFINE Rest == ProcessAtRest /\ AnswersAtRest
<1>1. ProcessInv /\ StaleInv /\ [Next]_vars /\ [Undisturbed]_vars /\ Rest => Rest'
  <2>1. [Undisturbed]_vars => Undisturbed
    BY DEF vars, Undisturbed, Calm, TLSCalm
  <2> QED
    BY <2>1, ProcessStays, AnswersStay
<1>2. Rest => Following
  BY DEF AnswersAtRest, Following
<1>3. <>[]Following => AssetsFollowCRDs
  BY PTL DEF AssetsFollowCRDs, Following
<1> QED
  BY <1>1, <1>2, <1>3, ProcessInvariant, StaleInvariant, PTL DEF Spec

\* The caches, the pool and the rendered assets are of the cluster's settings, and so
\* is what the reconciler has read.  An APIServer that is not there leaves its last
\* profile behind.
TLSAtRest ==
    /\ secure /\ watching /\ hcCache = hcoProfile
    /\ apiServer # NoObject =>
         /\ apiCache = apiServer /\ rendered = Resolve(NoProfile, apiServer)
         /\ At("setProfile") => read = apiServer
    /\ configMap \in CAs => pool = configMap
    /\ At("setCA") => read = configMap

\* Once connections are served as the cluster's settings say, no event, retry or pass
\* of an undisturbed process makes them be served otherwise, and no asset is rendered
\* otherwise (metrics_tls_controller.go 90-127, profile.go 76-83).
TLSRestIsKept ==
    [][ProcessAtRest /\ TLSAtRest /\ Undisturbed =>
         /\ TLSAtRest'
         /\ apiServer # NoObject => UNCHANGED <<Served, rendered>>]_vars

LEMMA TLSStays ==
    ASSUME ProcessInv, ProcessAtRest, TLSAtRest, Undisturbed, [Next]_vars
    PROVE  TLSAtRest' /\ (apiServer # NoObject => UNCHANGED <<Served, rendered>>)
<1>1. QuietStep /\ UNCHANGED <<secure, watching, apiServer, hcoProfile, configMap>>
  BY OnlyQuietSteps, ProcessStays DEF clusterTLS
<1>2. ~TLSDisturb
  BY TLSAssumption DEF Undisturbed, TLSCalm, TLSDisturb, ProcessInv, TLSTypeOK
<1>3. SUFFICES /\ hcCache' = hcCache
               /\ apiServer # NoObject =>
                    apiCache' = apiCache /\ rendered' = rendered /\ (tlsPc' = "setProfile" => read' = apiServer)
               /\ configMap \in CAs => pool' = pool
               /\ tlsPc' = "setCA" => read' = configMap
  BY <1>1 DEF TLSAtRest, At, Served, Resolve
<1>4. CASE UNCHANGED <<hcCache, apiCache, rendered, pool, tlsPc, read>>
  BY <1>4 DEF TLSAtRest, At
<1>5. CASE LookupStep \/ Timer \/ Clock \/ ChannelEvent \/ UNCHANGED vars
  BY <1>4, <1>5 DEF LookupStep, Timer, Clock, ChannelEvent, tlsVars, vars
<1>6. CASE Pass
  <2>1. UNCHANGED <<apiCache, pool, tlsPc, read>>
    BY <1>6 DEF Pass
  <2>2. \/ hcCache' = hcoProfile /\ rendered' = rendered
        \/ hcCache' = hcCache /\ rendered' = Resolve(NoProfile, apiCache)
    BY <1>6 DEF Pass, TrackHCO, RenderTLS
  <2> QED
    BY <2>1, <2>2 DEF TLSAtRest, At
<1>7. CASE TLSSteps
  <2>1. CASE ReadAPIServer
    BY <2>1 DEF ReadAPIServer, TLSBegin, TLSAtRest
  <2>2. CASE SetProfile
    BY <2>2 DEF SetProfile, TLSAtRest, At
  <2>3. CASE Notify
    BY <2>3 DEF Notify
  <2>4. CASE ReadCA
    BY <1>2, <2>4 DEF ReadCA
  <2>5. CASE SetCA
    <3>1. read = configMap /\ pool' = PoolAfter(read) /\ tlsPc' = "idle" /\ UNCHANGED <<hcCache, apiCache, rendered>>
      BY <2>5 DEF SetCA, TLSAtRest, At, Retried
    <3> QED
      BY <3>1 DEF PoolAfter, TLSAtRest
  <2> QED
    BY <1>7, <2>1, <2>2, <2>3, <2>4, <2>5 DEF TLSSteps, TLSStep
<1> QED
  BY <1>1, <1>5, <1>6, <1>7 DEF QuietStep

\* What is served and rendered stays what the settings say.
THEOREM TLSRestKept == Spec => TLSRestIsKept
<1> DEFINE Stays == ProcessAtRest /\ TLSAtRest /\ Undisturbed =>
             /\ TLSAtRest'
             /\ apiServer # NoObject => UNCHANGED <<Served, rendered>>
<1>1. ProcessInv /\ [Next]_vars => Stays
  BY TLSStays
<1> QED
  BY <1>1, ProcessInvariant, PTL DEF Spec, TLSRestIsKept

TLSSettled ==
    phase = "up" /\ secure /\ watching =>
      /\ apiServer # NoObject => Served = Wanted(hcoProfile, apiServer)
      /\ configMap \in CAs => pool = configMap

\* What is left of TLSSettles for the model checker, for a process that serves its
\* certificate and watches the APIServer, is only that the settings reach it.
THEOREM RestSettlesTLS == Spec /\ <>(ProcessAtRest /\ TLSAtRest /\ [][Undisturbed]_vars) => TLSSettles
<1> DEFINE Rest == ProcessAtRest /\ TLSAtRest
<1>1. ProcessInv /\ [Next]_vars /\ [Undisturbed]_vars /\ Rest => Rest'
  <2>1. [Undisturbed]_vars => Undisturbed
    BY DEF vars, Undisturbed, Calm, TLSCalm
  <2> QED
    BY <2>1, ProcessStays, TLSStays
<1>2. ProcessInv /\ Rest => TLSSettled
  <2> SUFFICES ASSUME TLSTypeOK, TLSAtRest, apiServer # NoObject
               PROVE  Served = Wanted(hcoProfile, apiServer)
    BY DEF ProcessInv, TLSAtRest, TLSSettled
  <2>1. hcoProfile \in AnyProfile /\ apiServer \in AnyProfile
    BY DEF TLSTypeOK, AnyProfile
  <2>2. Served = Resolve(hcoProfile, apiServer)
    BY DEF TLSAtRest, Served
  <2> QED
    BY <2>1, <2>2, ResolveIsWanted
<1>3. <>[]TLSSettled => TLSSettles
  BY PTL DEF TLSSettles, TLSSettled
<1> QED
  BY <1>1, <1>2, <1>3, ProcessInvariant, PTL DEF Spec
=============================================================================
