--------------------------- MODULE OperatorProofs ---------------------------
(***************************************************************************)
(* Proofs about the operator's process, for every set of CRDs and assets,  *)
(* every time to live and latency and any number of disturbances.          *)
(***************************************************************************)
EXTENDS OperatorProcess, InductionProofs, FiniteSetTheorems

-----------------------------------------------------------------------------
(* The CRD cache.  An entry that is wrong was right when its request was     *)
(* answered, so the CRD has changed since: its age and one latency bound how *)
(* long ago.  The same holds of the answer that is on its way, and nobody    *)
(* but the thread that waits for it moves that thread's plan.                *)

Wrong(entry, c) == entry.exists # (c \in installed)

CacheInv == \A c \in CRDs : cache[c] # None /\ Wrong(cache[c], c) => since[c] <= MaxLatency + cache[c].age

FlightInv ==
    /\ plan # <<>> => phase = "setup" \/ pass
    /\ flight # None =>
         /\ plan # <<>> /\ Head(plan).use # "fetch"
         /\ Head(plan).crd \in CRDs /\ Wrong(flight, Head(plan).crd) => since[Head(plan).crd] <= flight.age

AgesOK ==
    /\ since \in [CRDs -> 0 .. Horizon + 1]
    /\ cache \in [CRDs -> Entries(TTL + 1) \cup {None}]
    /\ flight \in Entries(MaxLatency) \cup {None}

StaleInv == AgesOK /\ CacheInv /\ FlightInv

LEMMA EntriesAreNotNone ==
    /\ TTL \in Nat /\ MaxLatency \in Nat /\ Horizon \in Nat /\ Horizon = TTL + MaxLatency
    /\ \A n \in Nat : None \notin Entries(n)
<1>1. TTL \in Nat /\ MaxLatency \in Nat /\ Horizon \in Nat /\ Horizon = TTL + MaxLatency
  BY CRDAssumption DEF Horizon
<1>2. \A n \in Nat : Entries(n) \subseteq [exists : BOOLEAN, age : Nat]
  BY DEF Entries
<1> QED
  BY <1>1, <1>2, CRDAssumption

LEMMA EntryExists == ASSUME NEW e PROVE [exists |-> e, age |-> 0].exists = e
  OBVIOUS

LEMMA WasFresh == ASSUME NEW n \in 0 .. TTL + 1, Older(n, TTL + 1) <= TTL PROVE n <= TTL
  BY EntriesAreNotNone DEF Older

LEMMA EmptyCacheOK == ASSUME cache' = EmptyCache PROVE CacheInv' /\ cache' \in [CRDs -> Entries(TTL + 1) \cup {None}]
  BY DEF EmptyCache, CacheInv

\* Steps that leave the cache, the clocks and the answer under way alone.
LEMMA OtherStepsKeep ==
    ASSUME StaleInv, UNCHANGED <<installed, since, cache, flight, plan>>, plan # <<>> => phase' = "setup" \/ pass'
    PROVE  StaleInv'
  BY DEF StaleInv, AgesOK, CacheInv, FlightInv, Wrong

LEMMA GetKeeps == ASSUME StaleInv, LookupGet PROVE StaleInv'
<1>1. UNCHANGED <<installed, since, cache, phase, pass>> /\ plan # <<>> /\ Head(plan).use # "fetch" /\ flight = None
  BY DEF LookupGet, Asking
<1>2. CASE flight' = [exists |-> Head(plan).crd \in installed, age |-> 0] /\ plan' = plan
  <2>1. flight' \in Entries(MaxLatency) /\ flight'.exists = (Head(plan).crd \in installed)
    BY <1>2, EntriesAreNotNone DEF Entries
  <2>2. AgesOK' /\ CacheInv'
    BY <1>1, <2>1 DEF StaleInv, AgesOK, CacheInv, Wrong
  <2>3. ~Wrong(flight, Head(plan).crd)'
    BY <1>1, <1>2, <2>1 DEF Wrong
  <2>4. FlightInv'
    BY <1>1, <1>2, <2>3 DEF StaleInv, FlightInv
  <2> QED
    BY <2>2, <2>4 DEF StaleInv
<1>3. CASE flight' = flight
  BY <1>1, <1>3 DEF StaleInv, AgesOK, CacheInv, FlightInv, Wrong
<1> QED
  BY <1>2, <1>3 DEF LookupGet

LEMMA SetKeeps == ASSUME StaleInv, LookupSet PROVE StaleInv'
<1> DEFINE h == Head(plan).crd
<1>1. /\ UNCHANGED <<installed, since, phase, pass>> /\ flight # None /\ flight' = None /\ plan # <<>>
      /\ cache' = [cache EXCEPT ![h] = [exists |-> flight.exists, age |-> 0]]
  BY DEF LookupSet, CacheSet, StaleInv, FlightInv
<1>2. flight \in Entries(MaxLatency) /\ flight.exists \in BOOLEAN /\ flight.age \in 0 .. MaxLatency
  BY <1>1 DEF StaleInv, AgesOK, Entries
<1>3. AgesOK'
  <2>1. [exists |-> flight.exists, age |-> 0] \in Entries(TTL + 1)
    BY <1>2, EntriesAreNotNone DEF Entries
  <2> QED
    BY <1>1, <2>1, Zenon DEF StaleInv, AgesOK
<1>4. ASSUME NEW c \in CRDs, cache'[c] # None, Wrong(cache[c], c)' PROVE since'[c] <= MaxLatency + cache'[c].age
  <2>1. CASE c = h
    <3>1. cache'[c].exists = flight.exists /\ cache'[c].age = 0
      BY <1>1, <2>1 DEF StaleInv, AgesOK
    <3>2. Wrong(flight, h)
      BY <1>1, <1>4, <2>1, <3>1 DEF Wrong
    <3>3. since[h] <= flight.age
      BY <1>1, <2>1, <3>2 DEF StaleInv, FlightInv
    <3>4. since[h] \in Nat
      BY <2>1, EntriesAreNotNone DEF StaleInv, AgesOK
    <3> QED
      BY <1>1, <1>2, <2>1, <3>1, <3>3, <3>4, EntriesAreNotNone
  <2>2. CASE c # h
    <3>1. cache'[c] = cache[c]
      BY <1>1, <2>2 DEF StaleInv, AgesOK
    <3> QED
      BY <1>1, <1>4, <3>1 DEF StaleInv, CacheInv, Wrong
  <2> QED
    BY <2>1, <2>2
<1>5. CacheInv'
  BY <1>4 DEF CacheInv
<1>6. FlightInv'
  BY <1>1 DEF StaleInv, FlightInv
<1> QED
  BY <1>3, <1>5, <1>6 DEF StaleInv

LEMMA ChangeKeeps == ASSUME StaleInv, NEW c \in CRDs, CRDChanges(c) PROVE StaleInv'
<1>1. /\ installed' = (installed \ {c}) \cup ({c} \ installed) /\ since' = [since EXCEPT ![c] = 0]
      /\ UNCHANGED <<phase, cache, plan, flight, pass>>
  BY DEF CRDChanges
<1>2. AgesOK'
  BY <1>1, EntriesAreNotNone DEF StaleInv, AgesOK
<1>3. since'[c] = 0 /\ \A d \in CRDs : d # c => since'[d] = since[d]
  BY <1>1 DEF StaleInv, AgesOK
<1>4. \A d : d # c => (d \in installed' <=> d \in installed)
  BY <1>1
<1>5. ASSUME NEW d \in CRDs, cache'[d] # None, Wrong(cache[d], d)' PROVE since'[d] <= MaxLatency + cache'[d].age
  <2>1. cache[d].age \in Nat
    BY <1>1, <1>5, EntriesAreNotNone DEF StaleInv, AgesOK, Entries
  <2>2. CASE d = c
    BY <1>1, <1>3, <2>1, <2>2, EntriesAreNotNone
  <2>3. CASE d # c
    <3>1. Wrong(cache[d], d)
      BY <1>1, <1>4, <1>5, <2>3 DEF Wrong
    <3> QED
      BY <1>1, <1>3, <1>5, <2>3, <3>1 DEF StaleInv, CacheInv
  <2> QED
    BY <2>2, <2>3
<1>6. CacheInv'
  BY <1>5 DEF CacheInv
<1>7. ASSUME flight' # None, Head(plan').crd \in CRDs, Wrong(flight, Head(plan).crd)'
      PROVE  since'[Head(plan').crd] <= flight'.age
  <2>1. flight.age \in Nat
    BY <1>1, <1>7, EntriesAreNotNone DEF StaleInv, AgesOK, Entries
  <2>2. CASE Head(plan).crd = c
    BY <1>1, <1>3, <2>1, <2>2
  <2>3. CASE Head(plan).crd # c
    <3>1. Wrong(flight, Head(plan).crd)
      BY <1>1, <1>4, <1>7, <2>3 DEF Wrong
    <3> QED
      BY <1>1, <1>3, <1>7, <2>3, <3>1 DEF StaleInv, FlightInv
  <2> QED
    BY <2>2, <2>3
<1>8. FlightInv'
  BY <1>1, <1>7 DEF StaleInv, FlightInv
<1> QED
  BY <1>2, <1>6, <1>8 DEF StaleInv

\* Time passes: no answer gets older than a latency, and the two clocks of a wrong
\* entry advance together until both stand still.
LEMMA TickKeeps == ASSUME StaleInv, Tick PROVE StaleInv'
<1>1. /\ UNCHANGED <<installed, phase, plan, pass>>
      /\ IF plan = <<>> THEN ~pass ELSE flight # None /\ flight.age < MaxLatency
      /\ since' = [c \in CRDs |-> Older(since[c], Horizon + 1)]
      /\ cache' = [c \in CRDs |-> IF cache[c] = None THEN None ELSE [cache[c] EXCEPT !.age = Older(@, TTL + 1)]]
      /\ flight' = IF flight = None THEN None ELSE [flight EXCEPT !.age = @ + 1]
  BY DEF Tick
<1>2. \A c \in CRDs : /\ since[c] \in 0 .. Horizon + 1 /\ since'[c] \in 0 .. Horizon + 1
                     /\ since'[c] <= since[c] + 1
  BY <1>1, EntriesAreNotNone DEF StaleInv, AgesOK, Older
<1>3. ASSUME NEW c \in CRDs, cache[c] # None
      PROVE  /\ cache'[c] \in Entries(TTL + 1) /\ cache'[c].exists = cache[c].exists
             /\ cache[c].age \in Nat /\ cache'[c].age = Older(cache[c].age, TTL + 1)
  <2>1. cache[c] \in Entries(TTL + 1)
    BY <1>3 DEF StaleInv, AgesOK
  <2>2. cache'[c] = [cache[c] EXCEPT !.age = Older(@, TTL + 1)]
    BY <1>1, <1>3
  <2>3. Older(cache[c].age, TTL + 1) \in 0 .. TTL + 1 /\ cache[c].age \in Nat
    BY <2>1, EntriesAreNotNone DEF Entries, Older
  <2> QED
    BY <2>1, <2>2, <2>3 DEF Entries
<1>4. \A c \in CRDs : cache[c] = None => cache'[c] = None
  BY <1>1
<1>5. ASSUME flight # None
      PROVE  /\ flight' \in Entries(MaxLatency) /\ flight'.exists = flight.exists
             /\ flight.age \in Nat /\ flight'.age = flight.age + 1
  <2>1. flight \in Entries(MaxLatency) /\ plan # <<>>
    BY <1>5 DEF StaleInv, AgesOK, FlightInv
  <2>2. flight.age \in 0 .. MaxLatency /\ flight.age + 1 \in 0 .. MaxLatency
    BY <1>1, <2>1, EntriesAreNotNone DEF Entries
  <2>3. flight' = [flight EXCEPT !.age = @ + 1]
    BY <1>1, <1>5
  <2> QED
    BY <2>1, <2>2, <2>3, EntriesAreNotNone DEF Entries
<1>6. AgesOK'
  <2>1. since' \in [CRDs -> 0 .. Horizon + 1]
    BY <1>1, <1>2
  <2>2. cache' \in [CRDs -> Entries(TTL + 1) \cup {None}]
    BY <1>1, <1>3, <1>4
  <2>3. flight' \in Entries(MaxLatency) \cup {None}
    BY <1>1, <1>5
  <2> QED
    BY <2>1, <2>2, <2>3 DEF AgesOK
<1>7. ASSUME NEW c \in CRDs, cache'[c] # None, Wrong(cache[c], c)' PROVE since'[c] <= MaxLatency + cache'[c].age
  <2>1. cache[c] # None
    BY <1>4, <1>7
  <2>2. Wrong(cache[c], c)
    BY <1>1, <1>3, <1>7, <2>1 DEF Wrong
  <2>3. since[c] <= MaxLatency + cache[c].age
    BY <2>1, <2>2 DEF StaleInv, CacheInv
  <2>4. cache[c].age \in Nat /\ cache'[c].age = Older(cache[c].age, TTL + 1) /\ cache[c].age <= TTL + 1
    <3>1. cache[c] \in Entries(TTL + 1)
      BY <2>1 DEF StaleInv, AgesOK
    <3> QED
      BY <1>3, <2>1, <3>1, EntriesAreNotNone DEF Entries
  <2> QED
    BY <1>2, <2>3, <2>4, EntriesAreNotNone DEF Older
<1>8. CacheInv'
  BY <1>7 DEF CacheInv
<1>9. FlightInv'
  <2>1. ASSUME flight' # None, Head(plan').crd \in CRDs, Wrong(flight, Head(plan).crd)'
        PROVE  since'[Head(plan').crd] <= flight'.age
    <3>1. flight # None
      BY <1>1, <2>1
    <3>2. Wrong(flight, Head(plan).crd)
      BY <1>1, <1>5, <2>1, <3>1 DEF Wrong
    <3>3. since[Head(plan).crd] <= flight.age
      BY <1>1, <2>1, <3>1, <3>2 DEF StaleInv, FlightInv
    <3> QED
      BY <1>1, <1>2, <1>5, <2>1, <3>1, <3>3, EntriesAreNotNone
  <2>2. flight' # None => flight # None
    BY <1>1
  <2> QED
    BY <1>1, <2>1, <2>2 DEF StaleInv, FlightInv
<1> QED
  BY <1>6, <1>8, <1>9 DEF StaleInv

LEMMA NoProcessKeeps == ASSUME StaleInv, NoProcess PROVE StaleInv'
<1>1. flight' = None /\ plan' = <<>> /\ cache' = EmptyCache /\ since' = since
  BY DEF NoProcess
<1> QED
  BY <1>1, EmptyCacheOK DEF StaleInv, AgesOK, FlightInv

LEMMA HandledKeeps ==
    ASSUME StaleInv, cache' = EmptyCache, UNCHANGED <<installed, since, phase, plan, flight, pass>> PROVE StaleInv'
  BY EmptyCacheOK DEF StaleInv, AgesOK, FlightInv, Wrong

\* Steps of the thread that start or finish a lookup without the API server.
LEMMA PlanKeeps ==
    ASSUME StaleInv, UNCHANGED <<installed, since, cache, flight>>, flight = None,
           plan' # <<>> => phase' = "setup" \/ pass'
    PROVE  StaleInv'
  BY DEF StaleInv, AgesOK, CacheInv, FlightInv, Wrong

NoPassWhenDown == phase = "down" => ~pass

LEMMA DownIsIdle == Spec => []NoPassWhenDown
<1>1. Init => NoPassWhenDown
  BY DEF Init, CRDInit, NoPassWhenDown
<1>2. NoPassWhenDown /\ [Next]_vars => NoPassWhenDown'
  <2> SUFFICES ASSUME NoPassWhenDown, [Next]_vars PROVE NoPassWhenDown'
    OBVIOUS
  <2> USE DEF NoPassWhenDown
  <2>1. CASE Controller
    BY <2>1 DEF Controller, CacheHit, LookupGet, LookupSet, Fetch, SetupDone, Synced, Pass, PassBegin, PassEnd
  <2>2. CASE Events
    BY <2>2 DEF Events, CRDEvent, CRDCreated, CRDDeleted, Handled, ListKind
  <2>3. CASE Timer \/ Clock \/ TLSSteps \/ ChannelEvent
    BY <2>3 DEF Timer, Requeue, Clock, Tick, TLSSteps, crdVars, ChannelEvent
  <2>4. CASE Process
    BY <2>4 DEF Process, Start, CRDStart, Stop, CRDStop, NoProcess, CertRestart
  <2>5. CASE Disturbance
    BY <2>5 DEF Disturbance, WatchEvent, CRDUpdated, Handled, CRDChanges, crdVars, Crash, CRDCrash, NoProcess
  <2>6. CASE UNCHANGED vars
    BY <2>6 DEF vars
  <2> QED
    BY <2>1, <2>2, <2>3, <2>4, <2>5, <2>6 DEF Next
<1> QED
  BY <1>1, <1>2, PTL DEF Spec

LEMMA StaleInvariant == Spec => []StaleInv
<1>1. Init => StaleInv
  <2> SUFFICES ASSUME CRDInit PROVE StaleInv
    BY DEF Init
  <2>1. since = [c \in CRDs |-> Horizon + 1] /\ cache = EmptyCache /\ flight = None /\ plan = <<>>
    BY DEF CRDInit
  <2> QED
    BY <2>1, EntriesAreNotNone DEF StaleInv, AgesOK, CacheInv, FlightInv, EmptyCache
<1>2. StaleInv /\ NoPassWhenDown /\ [Next]_vars => StaleInv'
  <2> SUFFICES ASSUME StaleInv, NoPassWhenDown, [Next]_vars PROVE StaleInv'
    OBVIOUS
  <2>1. plan # <<>> => phase = "setup" \/ pass
    BY DEF StaleInv, FlightInv
  <2>2. flight # None => plan # <<>> /\ Head(plan).use # "fetch" /\ (phase = "setup" \/ pass)
    BY <2>1 DEF StaleInv, FlightInv
  <2>3. CASE Controller
    <3>1. CASE CacheHit
      BY <2>1, <3>1, PlanKeeps DEF CacheHit, Asking
    <3>2. CASE Fetch
      BY <2>1, <2>2, <3>2, PlanKeeps DEF Fetch
    <3>3. CASE SetupDone
      BY <2>2, <3>3, PlanKeeps DEF SetupDone
    <3>4. CASE Synced
      BY <2>1, <3>4, OtherStepsKeep DEF Synced
    <3>5. CASE PassBegin
      BY <2>2, <3>5, PlanKeeps DEF PassBegin
    <3>6. CASE PassEnd
      BY <2>2, <3>6, PlanKeeps DEF PassEnd
    <3> QED
      BY <2>3, <3>1, <3>2, <3>3, <3>4, <3>5, <3>6, GetKeeps, SetKeeps DEF Controller, Pass
  <2>4. CASE Events
    <3>1. ASSUME NEW c \in CRDs, CRDCreated(c) \/ CRDDeleted(c) PROVE StaleInv'
      BY <3>1, HandledKeeps DEF CRDCreated, CRDDeleted, Handled
    <3>2. ASSUME NEW c \in CRDs, ListKind(c) PROVE StaleInv'
      BY <2>1, <3>2, OtherStepsKeep DEF ListKind
    <3> QED
      BY <2>4, <3>1, <3>2 DEF Events, CRDEvent
  <2>5. CASE Timer
    BY <2>1, <2>5, OtherStepsKeep DEF Timer, Requeue
  <2>6. CASE Clock
    BY <2>6, TickKeeps DEF Clock
  <2>7. CASE Process
    <3>1. CASE Start
      <4>1. CRDStart
        BY <3>1 DEF Start
      <4>2. phase = "down" /\ phase' = "setup" /\ UNCHANGED <<installed, since, cache, flight, pass>>
        BY <4>1 DEF CRDStart
      <4>3. flight = None
        BY <2>2, <4>2 DEF NoPassWhenDown
      <4> QED
        BY <4>2, <4>3, PlanKeeps
    <3>2. CASE Stop
      BY <3>2, NoProcessKeeps DEF Stop, CRDStop
    <3>3. CASE CertRestart
      BY <2>1, <3>3, OtherStepsKeep DEF CertRestart
    <3> QED
      BY <2>7, <3>1, <3>2, <3>3 DEF Process
  <2>8. CASE TLSSteps
    BY <2>1, <2>8, OtherStepsKeep DEF TLSSteps, crdVars
  <2>9. CASE ChannelEvent
    BY <2>1, <2>9, OtherStepsKeep DEF ChannelEvent
  <2>10. CASE Disturbance
    <3>1. CASE WatchEvent
      BY <2>1, <3>1, OtherStepsKeep DEF WatchEvent
    <3>2. ASSUME NEW c \in CRDs, CRDUpdated(c) PROVE StaleInv'
      BY <3>2, HandledKeeps DEF CRDUpdated, Handled
    <3>3. ASSUME NEW c \in CRDs, CRDChanges(c) PROVE StaleInv'
      BY <3>3, ChangeKeeps
    <3>4. CASE UNCHANGED crdVars
      BY <2>1, <3>4, OtherStepsKeep DEF crdVars
    <3>5. CASE Crash
      BY <3>5, NoProcessKeeps DEF Crash, CRDCrash
    <3> QED
      BY <2>10, <3>1, <3>2, <3>3, <3>4, <3>5 DEF Disturbance
  <2>11. CASE UNCHANGED vars
    BY <2>1, <2>11, OtherStepsKeep DEF vars
  <2> QED
    BY <2>3, <2>4, <2>5, <2>6, <2>7, <2>8, <2>9, <2>10, <2>11 DEF Next
<1> QED
  BY <1>1, <1>2, DownIsIdle, PTL DEF Spec

\* For every time to live and latency the checker is wrong for no longer than both.
THEOREM StaleAnswersAreAlwaysBounded == Spec => []StaleAnswersAreBounded
<1>1. StaleInv => StaleAnswersAreBounded
  <2> SUFFICES ASSUME StaleInv, NEW c \in CRDs, Fresh(c), Wrong(cache[c], c) PROVE since[c] <= Horizon
    BY DEF StaleAnswersAreBounded, Wrong
  <2>1. cache[c] # None /\ cache[c].age <= TTL /\ since[c] <= MaxLatency + cache[c].age
    BY DEF Fresh, StaleInv, CacheInv
  <2>2. cache[c].age \in Nat /\ since[c] \in Nat
    BY <2>1, EntriesAreNotNone DEF StaleInv, AgesOK, Entries
  <2> QED
    BY <2>1, <2>2, EntriesAreNotNone
<1> QED
  BY <1>1, StaleInvariant, PTL

-----------------------------------------------------------------------------
(* TLS *)

\* No change of the cached profile is forgotten, for all profiles and any number of
\* changes, failures and restarts.
THEOREM ChangesAlwaysReachPasses == Spec => []ChangesReachPasses
<1>1. Init => ChangesReachPasses
  BY DEF Init, CRDInit, ChangesReachPasses
<1>2. ChangesReachPasses /\ [Next]_vars => ChangesReachPasses'
  <2> SUFFICES ASSUME ChangesReachPasses, [Next]_vars PROVE ChangesReachPasses'
    OBVIOUS
  <2> USE DEF ChangesReachPasses, At
  <2> DEFINE unmoved == UNCHANGED <<rendered, apiCache, channel, tlsPc>>
  <2>1. CASE Controller
    <3>1. CASE (CacheHit \/ LookupGet \/ LookupSet \/ Fetch \/ SetupDone \/ Synced) /\ UNCHANGED tlsVars
      <4>1. unmoved
        BY <3>1 DEF tlsVars
      <4>2. CASE Synced
        BY <4>2 DEF Synced
      <4>3. CASE ~Synced
        BY <3>1, <4>1, <4>3 DEF CacheHit, LookupGet, LookupSet, Fetch, SetupDone, Resolve
      <4> QED
        BY <4>2, <4>3
    <3>2. CASE PassBegin /\ TrackHCO
      BY <3>2 DEF PassBegin
    <3>3. CASE PassEnd /\ RenderTLS /\ UNCHANGED apiCache
      BY <3>3 DEF RenderTLS, Resolve
    <3> QED
      BY <2>1, <3>1, <3>2, <3>3 DEF Controller, Pass
  <2>2. CASE Events
    <3>1. unmoved
      BY <2>2 DEF Events, tlsVars
    <3>2. ASSUME NEW c \in CRDs, CRDCreated(c) \/ CRDDeleted(c) PROVE ChangesReachPasses'
      BY <3>2 DEF CRDCreated, CRDDeleted, Handled
    <3>3. ASSUME NEW c \in CRDs, ListKind(c) PROVE ChangesReachPasses'
      BY <3>1, <3>3 DEF ListKind, Resolve
    <3> QED
      BY <2>2, <3>2, <3>3 DEF Events, CRDEvent
  <2>3. CASE Timer
    BY <2>3 DEF Timer, Requeue
  <2>4. CASE Clock
    BY <2>4 DEF Clock, Tick, tlsVars, Resolve
  <2>5. CASE Process
    <3>1. CASE CertRestart
      BY <3>1 DEF CertRestart, tlsVars, Resolve
    <3> QED
      BY <2>5, <3>1 DEF Process, Start, CRDStart, Stop, CRDStop, NoProcess
  <2>6. CASE TLSSteps
    <3>1. UNCHANGED <<phase, pending, pass>>
      BY <2>6 DEF TLSSteps, crdVars
    <3>2. CASE SetProfile
      <4>1. UNCHANGED <<rendered, channel>> /\ apiCache' = read /\ At("setProfile")
            /\ tlsPc' = (IF apiCache # read THEN "notify" ELSE "readCA")
        BY <3>2 DEF SetProfile
      <4> QED
        BY <3>1, <4>1 DEF Resolve
    <3>3. CASE Notify
      BY <3>3 DEF Notify
    <3>4. CASE ReadAPIServer \/ ReadCA \/ SetCA
      <4>1. UNCHANGED <<rendered, apiCache, channel>> /\ ~At("notify")
        BY <3>4 DEF ReadAPIServer, TLSBegin, ReadCA, SetCA
      <4> QED
        BY <3>1, <4>1 DEF Resolve
    <3> QED
      BY <2>6, <3>2, <3>3, <3>4 DEF TLSSteps, TLSStep
  <2>7. CASE ChannelEvent
    BY <2>7 DEF ChannelEvent
  <2>8. CASE Disturbance
    <3>1. CASE WatchEvent
      BY <3>1 DEF WatchEvent
    <3>2. ASSUME NEW c \in CRDs, CRDUpdated(c) PROVE ChangesReachPasses'
      BY <3>2 DEF CRDUpdated, Handled
    <3>3. ASSUME NEW c \in CRDs, CRDChanges(c), UNCHANGED tlsVars PROVE ChangesReachPasses'
      BY <3>3 DEF CRDChanges, tlsVars, Resolve
    <3>4. CASE (TLSChanges \/ CertMounted) /\ UNCHANGED crdVars
      BY <3>4 DEF TLSChanges, CertMounted, crdVars, Resolve
    <3>5. CASE Crash
      BY <3>5 DEF Crash, CRDCrash, NoProcess
    <3> QED
      BY <2>8, <3>1, <3>2, <3>3, <3>4, <3>5 DEF Disturbance
  <2>9. CASE UNCHANGED vars
    BY <2>9 DEF vars, Resolve
  <2> QED
    BY <2>1, <2>2, <2>3, <2>4, <2>5, <2>6, <2>7, <2>8, <2>9 DEF Next
<1> QED
  BY <1>1, <1>2, PTL DEF Spec

\* The pool holds a valid bundle or none, none before a start, and what is about to
\* replace it is a ConfigMap's bundle.
PoolInv ==
    /\ configMap \in CAs \cup {BadCA, NoObject} /\ pool \in CAs \cup {NoObject}
    /\ At("setCA") => read \in CAs \cup {BadCA}
    /\ phase = "down" => pool = NoObject

\* While the process lives its pool is never emptied, whatever the ConfigMap holds.
THEOREM PoolAlwaysStaysUsable == Spec => PoolStaysUsable
<1> DEFINE Kept == pool # NoObject /\ phase' # "down" => pool' \in CAs
<1>1. Init => PoolInv
  BY TLSAssumption DEF Init, CRDInit, TLSInit, PoolInv, At
<1>2. PoolInv /\ [Next]_vars => PoolInv' /\ Kept
  <2> SUFFICES ASSUME PoolInv, [Next]_vars PROVE PoolInv' /\ Kept
    OBVIOUS
  <2> USE DEF PoolInv, At
  <2>1. CASE Controller
    <3>1. UNCHANGED <<configMap, pool, read, tlsPc>>
      BY <2>1 DEF Controller, Pass, tlsVars, clusterTLS
    <3>2. phase' # "down" \/ phase' = phase
      BY <2>1 DEF Controller, CacheHit, LookupGet, LookupSet, Fetch, SetupDone, Synced, Pass, PassBegin, PassEnd
    <3> QED
      BY <3>1, <3>2
  <2>2. CASE Events \/ Timer \/ Clock
    <3>1. UNCHANGED <<configMap, pool, read, tlsPc>>
      BY <2>2 DEF Events, Timer, Clock, tlsVars
    <3>2. phase' = phase
      BY <2>2 DEF Events, CRDEvent, CRDCreated, CRDDeleted, Handled, ListKind, Timer, Requeue, Clock, Tick
    <3> QED
      BY <3>1, <3>2
  <2>3. CASE Start
    <3>1. /\ phase = "down" /\ phase' = "setup" /\ UNCHANGED <<configMap, read, tlsPc>>
          /\ pool' \in CAs \cup {NoObject}
      BY <2>3 DEF Start, CRDStart, TLSStart, clusterTLS
    <3> QED
      BY <3>1
  <2>4. CASE Stop \/ Crash
    <3>1. phase' = "down" /\ pool' = NoObject /\ tlsPc' = "idle" /\ configMap' = configMap
      BY <2>4 DEF Stop, CRDStop, Crash, CRDCrash, NoProcess, TLSStop, clusterTLS
    <3> QED
      BY <3>1
  <2>5. CASE CertRestart \/ ChannelEvent
    <3>1. UNCHANGED <<configMap, pool, read, tlsPc, phase>>
      BY <2>5 DEF CertRestart, ChannelEvent, tlsVars, clusterTLS
    <3> QED
      BY <3>1
  <2>6. CASE TLSSteps
    <3>1. phase' = phase /\ phase # "down"
      BY <2>6 DEF TLSSteps, crdVars, Informed
    <3>2. CASE SetCA
      <4>1. /\ configMap' = configMap /\ pool' = PoolAfter(read) /\ tlsPc' = "idle" /\ read \in CAs \cup {BadCA}
        BY <3>2 DEF SetCA, Retried, clusterTLS
      <4> QED
        BY <3>1, <4>1 DEF PoolAfter
    <3>3. CASE ReadCA
      <4>1. /\ UNCHANGED <<configMap, pool>>
            /\ tlsPc' = "setCA" => read' = configMap /\ configMap # NoObject
        BY <3>3 DEF ReadCA, Retried, clusterTLS
      <4> QED
        BY <3>1, <4>1
    <3>4. CASE ReadAPIServer \/ SetProfile \/ Notify
      <4>1. UNCHANGED <<configMap, pool>> /\ tlsPc' # "setCA"
        BY <3>4 DEF ReadAPIServer, TLSBegin, SetProfile, Notify, clusterTLS
      <4> QED
        BY <3>1, <4>1
    <3> QED
      BY <2>6, <3>2, <3>3, <3>4 DEF TLSSteps, TLSStep
  <2>7. CASE Disturbance /\ ~Crash
    <3>1. UNCHANGED <<pool, read, tlsPc>>
      BY <2>7 DEF Disturbance, tlsVars, TLSChanges, CertMounted
    <3>2. configMap' \in CAs \cup {BadCA, NoObject}
      BY <2>7, TLSAssumption DEF Disturbance, tlsVars, TLSChanges, CertMounted
    <3>3. phase' = phase
      BY <2>7 DEF Disturbance, WatchEvent, CRDUpdated, Handled, CRDChanges, crdVars
    <3> QED
      BY <3>1, <3>2, <3>3
  <2>8. CASE UNCHANGED vars
    BY <2>8 DEF vars
  <2> QED
    BY <2>1, <2>2, <2>3, <2>4, <2>5, <2>6, <2>7, <2>8 DEF Next, Process
<1> QED
  BY <1>1, <1>2, PTL DEF Spec, PoolStaysUsable

-----------------------------------------------------------------------------
(* The values of the variables.  SetupWithManager asks for required CRDs      *)
(* only, and what it fetches it has asked for; a lookup of a pass's second    *)
(* part is about an asset.                                                    *)

\* The CRDs that assetCRDsAvailable checks for an asset.
Needs(a) == {RequiredCRD[a], GateCRD[a]} \ {NoCRD}

SetupLookups  == [use : {"setup", "fetch"}, crd : Required, asset : {NoCRD}]
MetricLookups == [use : {"metric"}, crd : Managed, asset : {NoCRD}]
AssetLookups  == {l \in [use : {"asset"}, crd : CRDs, asset : Assets] : l.crd \in Needs(l.asset)}

Lookups == SetupLookups \cup MetricLookups \cup AssetLookups

LEMMA InOrderIs ==
    ASSUME NEW S, IsFiniteSet(S)
    PROVE  /\ Cardinality(S) \in Nat /\ InOrder(S) \in [1 .. Cardinality(S) -> S]
           /\ \A x \in S : \E i \in 1 .. Cardinality(S) : InOrder(S)[i] = x
<1>1. Cardinality(S) \in Nat /\ ExistsBijection(1 .. Cardinality(S), S)
  BY FS_CardinalityType
<1>2. \E f \in Injection(1 .. Cardinality(S), S) : TRUE
  BY <1>1 DEF ExistsBijection, Bijection
<1>3. InOrder(S) \in Injection(1 .. Cardinality(S), S)
  BY <1>2, Zenon DEF InOrder
<1>4. Cardinality(1 .. Cardinality(S)) = Cardinality(S)
  BY <1>1, FS_Interval
<1>5. InOrder(S) \in Surjection(1 .. Cardinality(S), S)
  BY <1>3, <1>4, FS_Injection, Zenon
<1> QED
  BY <1>1, <1>5 DEF Surjection

LEMMA CatalogIsFinite ==
    /\ IsFiniteSet(Required) /\ IsFiniteSet(Managed) /\ IsFiniteSet(Assets)
    /\ Required \subseteq CRDs /\ Managed \subseteq CRDs /\ Required \subseteq Managed
<1>1. Required \in SUBSET CRDs /\ Managed \in SUBSET CRDs
  BY CRDAssumption DEF Required, Managed
<1> QED
  BY <1>1, FS_Subset, CRDAssumption DEF Managed

LEMMA EachOfOK ==
    ASSUME NEW S, IsFiniteSet(S), NEW use PROVE EachOf(S, use) \in Seq([use : {use}, crd : S, asset : {NoCRD}])
<1> DEFINE T == [use : {use}, crd : S, asset : {NoCRD}]
           n == Cardinality(S)
<1>1. n \in Nat /\ InOrder(S) \in [1 .. n -> S]
  BY InOrderIs
<1>2. \A i \in 1 .. n : Lookup(use, InOrder(S)[i], NoCRD) \in T
  BY <1>1 DEF Lookup
<1>3. EachOf(S, use) = [i \in 1 .. n |-> Lookup(use, InOrder(S)[i], NoCRD)]
  BY DEF EachOf
<1> HIDE DEF n, T
<1>4. EachOf(S, use) \in [1 .. n -> T]
  BY <1>2, <1>3
<1>5. n \in Nat
  BY <1>1
<1>6. EachOf(S, use) \in Seq(T)
  BY <1>4, <1>5
<1> QED
  BY <1>6 DEF T

LEMMA AssetPlanOK == ASSUME NEW a \in Assets PROVE AssetPlan(a) \in Seq(AssetLookups)
<1>1. ASSUME NEW c \in CRDs \cup {NoCRD}, c \in Needs(a) \cup {NoCRD} PROVE Check(c, a) \in Seq(AssetLookups)
  <2>1. CASE c = NoCRD
    BY <2>1 DEF Check
  <2>2. CASE c # NoCRD
    <3>1. Lookup("asset", c, a) \in AssetLookups
      BY <1>1, <2>2 DEF Lookup, AssetLookups
    <3> QED
      BY <2>2, <3>1 DEF Check
  <2> QED
    BY <2>1, <2>2
<1>2. RequiredCRD[a] \in CRDs \cup {NoCRD} /\ GateCRD[a] \in CRDs \cup {NoCRD}
  BY CRDAssumption
<1>3. Check(RequiredCRD[a], a) \in Seq(AssetLookups) /\ Check(GateCRD[a], a) \in Seq(AssetLookups)
  BY <1>1, <1>2 DEF Needs
<1> QED
  BY <1>3 DEF AssetPlan

\* h is the loop over the catalog: what it has planned after each asset.
PlansUpTo(h) ==
    /\ h[0] = <<>>
    /\ \A n \in 0 .. Cardinality(Assets) : n # Cardinality(Assets) =>
         h[n + 1] = h[n] \o AssetPlan(InOrder(Assets)[n + 1])

LEMMA AssetPlansUnfold == \E h : PlansUpTo(h) /\ AssetPlans = h[Cardinality(Assets)]
<1> DEFINE N == Cardinality(Assets)
           q == InOrder(Assets)
           V == Seq(AssetLookups)
           R == [n \in 1 .. N |-> [s \in V |-> s \o AssetPlan(q[n])]]
           Is(g) == g = [n \in 0 .. N |-> IF n = 0 THEN <<>> ELSE g[n - 1] \o AssetPlan(q[n])]
<1>1. N \in Nat /\ q \in [1 .. N -> Assets]
  BY InOrderIs, CatalogIsFinite
<1>2. <<>> \in V
  OBVIOUS
<1>3. AssetPlans = (CHOOSE g : Is(g))[N]
  BY DEF AssetPlans
<1> HIDE DEF N, q
<1>4. \A n \in 1 .. N : AssetPlan(q[n]) \in V
  BY <1>1, AssetPlanOK
<1>5. \A n \in 1 .. N, s \in V : s \o AssetPlan(q[n]) \in V
  BY <1>4
<1> HIDE DEF V
<1>6. R \in [1 .. N -> [V -> V]] /\ \A n \in 1 .. N, s \in V : R[n][s] = s \o AssetPlan(q[n])
  BY <1>5
<1> HIDE DEF R
<1>7. PICK f : Computes(f, N, <<>>, R, V)
  BY <1>1, <1>2, <1>6, RecursionExists, Zenon
<1>8. Is(f)
  <2>1. f \in [0 .. N -> V] /\ f[0] = <<>> /\ \A n \in 1 .. N : f[n] = R[n][f[n - 1]]
    BY <1>7 DEF Computes
  <2>2. \A n \in 1 .. N : n - 1 \in 0 .. N
    BY <1>1
  <2>3. \A n \in 1 .. N : f[n] = f[n - 1] \o AssetPlan(q[n])
    BY <1>6, <2>1, <2>2, Zenon
  <2>4. \A n \in 0 .. N : n = 0 \/ n \in 1 .. N
    BY <1>1
  <2>5. \A n \in 0 .. N : f[n] = IF n = 0 THEN <<>> ELSE f[n - 1] \o AssetPlan(q[n])
    BY <2>1, <2>3, <2>4, Zenon
  <2> QED
    BY <2>1, <2>5, Zenon
<1> DEFINE h == CHOOSE g : Is(g)
<1>9. Is(h)
  <2> HIDE DEF Is
  <2> QED
    BY <1>8
<1>10. AssetPlans = h[N]
  BY <1>3
<1> HIDE DEF h
<1>11. h[0] = <<>>
  BY <1>1, <1>9
<1>12. ASSUME NEW n \in 0 .. N, n # N PROVE h[n + 1] = h[n] \o AssetPlan(q[n + 1])
  <2>1. n + 1 \in 0 .. N /\ n + 1 # 0 /\ (n + 1) - 1 = n
    BY <1>1, <1>12
  <2> QED
    BY <1>9, <2>1, Zenon
<1>13. PlansUpTo(h)
  BY <1>11, <1>12, Zenon DEF PlansUpTo, N, q
<1> QED
  BY <1>10, <1>13 DEF N

\* The lookups of the loop over the catalog: nothing but what assets need, and all of it.
LEMMA AssetPlansOK ==
    /\ AssetPlans \in Seq(AssetLookups)
    /\ \A a \in Assets : \A c \in Needs(a) :
         \E i \in 1 .. Len(AssetPlans) : AssetPlans[i] = Lookup("asset", c, a)
<1> DEFINE N == Cardinality(Assets)
           q == InOrder(Assets)
           V == Seq(AssetLookups)
           Has(p, a) == \A c \in Needs(a) : \E i \in 1 .. Len(p) : p[i] = Lookup("asset", c, a)
<1>1. N \in Nat /\ q \in [1 .. N -> Assets] /\ \A a \in Assets : \E n \in 1 .. N : q[n] = a
  BY InOrderIs, CatalogIsFinite
<1>2. PICK h : PlansUpTo(h) /\ AssetPlans = h[N]
  BY AssetPlansUnfold
<1>3. h[0] = <<>> /\ \A n \in 0 .. N : n # N => h[n + 1] = h[n] \o AssetPlan(q[n + 1])
  BY <1>2, Zenon DEF PlansUpTo
<1> DEFINE S == {n \in 0 .. N : h[n] \in V /\ \A m \in 1 .. n : Has(h[n], q[m])}
<1> HIDE DEF N, q
<1>4. 0 \in S
  <2>1. <<>> \in V /\ 0 \in 0 .. N
    BY <1>1
  <2>2. \A m \in 1 .. 0 : Has(h[0], q[m])
    OBVIOUS
  <2> QED
    BY <1>3, <2>1, <2>2, Zenon
<1>5. ASSUME NEW n \in 0 .. N, n \in S, n # N PROVE n + 1 \in S
  <2> DEFINE a == q[n + 1]
             new == AssetPlan(a)
  <2>1. n + 1 \in 0 .. N /\ a \in Assets
    BY <1>1, <1>5
  <2>2. new \in V /\ h[n] \in V /\ h[n + 1] = h[n] \o new
    BY <1>3, <1>5, <2>1, AssetPlanOK, Zenon
  <2>3. Has(new, a)
    <3>1. SUFFICES ASSUME NEW c \in Needs(a) PROVE \E i \in 1 .. Len(new) : new[i] = Lookup("asset", c, a)
      OBVIOUS
    <3> DEFINE l == Lookup("asset", c, a)
    <3> HIDE DEF a, l
    <3>2. CASE c = RequiredCRD[a]
      <4>1. Check(RequiredCRD[a], a) = <<l>>
        BY <3>2 DEF Needs, Check, l
      <4>2. Check(GateCRD[a], a) = <<>> \/ Check(GateCRD[a], a) = <<Lookup("asset", GateCRD[a], a)>>
        BY DEF Check
      <4>3. new = <<l>> \o Check(GateCRD[a], a)
        BY <4>1 DEF AssetPlan
      <4> QED
        BY <4>2, <4>3 DEF l
    <3>3. CASE c = GateCRD[a]
      <4>1. Check(GateCRD[a], a) = <<l>>
        BY <3>3 DEF Needs, Check, l
      <4>2. Check(RequiredCRD[a], a) = <<>> \/ Check(RequiredCRD[a], a) = <<Lookup("asset", RequiredCRD[a], a)>>
        BY DEF Check
      <4>3. new = Check(RequiredCRD[a], a) \o <<l>>
        BY <4>1 DEF AssetPlan
      <4>4. Len(new) \in 1 .. Len(new) /\ new[Len(new)] = l
        BY <4>2, <4>3
      <4> QED
        BY <4>4 DEF l
    <3> QED
      BY <3>2, <3>3 DEF Needs
  <2> HIDE DEF new, a
  <2>4. h[n + 1] \in V
    BY <2>2
  <2>5. \A m \in 1 .. n : Has(h[n + 1], q[m])
    <3>1. \A i \in 1 .. Len(h[n]) : i \in 1 .. Len(h[n + 1]) /\ h[n + 1][i] = h[n][i]
      BY <2>2
    <3>2. \A m \in 1 .. n : Has(h[n], q[m])
      BY <1>5, Zenon
    <3> QED
      BY <3>1, <3>2, Zenon
  <2>6. Has(h[n + 1], a)
    <3>1. \A i \in 1 .. Len(new) : Len(h[n]) + i \in 1 .. Len(h[n + 1]) /\ h[n + 1][Len(h[n]) + i] = new[i]
      BY <2>2
    <3> QED
      BY <2>3, <3>1
  <2>7. \A m \in 1 .. n + 1 : m \in 1 .. n \/ m = n + 1
    OBVIOUS
  <2> QED
    BY <2>1, <2>4, <2>5, <2>6, <2>7, Zenon DEF a
<1>6. N \in S
  <2> HIDE DEF S
  <2>1. \A n \in 0 .. N : n \in S
    BY <1>1, <1>4, <1>5, UpToInduction, Zenon
  <2> QED
    BY <1>1, <2>1
<1>7. AssetPlans \in V /\ \A m \in 1 .. N : Has(AssetPlans, q[m])
  BY <1>2, <1>6
<1>8. \A a \in Assets : Has(AssetPlans, a)
  BY <1>1, <1>7
<1> QED
  BY <1>7, <1>8

PlanOK == plan \in Seq(Lookups) /\ skipped \subseteq Assets /\ retry \in BOOLEAN /\ missing \subseteq CRDs

KindsOK ==
    /\ installed \subseteq CRDs /\ known \subseteq CRDs /\ watched \subseteq Required /\ listed \subseteq watched
    /\ active \subseteq Assets

FlagsOK ==
    /\ phase \in {"down", "setup", "starting", "up"} /\ crdMoves \in 0 .. MaxCRDMoves
    /\ stopping \in BOOLEAN /\ pending \in BOOLEAN /\ pass \in BOOLEAN

LEMMA PlansOK == SetupPlan \in Seq(Lookups) /\ PassPlan \in Seq(Lookups)
<1>1. EachOf(Required, "setup") \in Seq(Lookups)
  <2> DEFINE T == [use : {"setup"}, crd : Required, asset : {NoCRD}]
  <2>1. T \subseteq Lookups
    BY DEF Lookups, SetupLookups
  <2>2. EachOf(Required, "setup") \in Seq(T)
    BY EachOfOK, CatalogIsFinite
  <2> HIDE DEF T
  <2> QED
    BY <2>1, <2>2
<1>2. EachOf(Managed, "metric") \in Seq(Lookups)
  <2>1. MetricLookups \subseteq Lookups
    BY DEF Lookups
  <2>2. EachOf(Managed, "metric") \in Seq(MetricLookups)
    BY EachOfOK, CatalogIsFinite, Zenon DEF MetricLookups
  <2> QED
    BY <2>1, <2>2
<1>3. AssetPlans \in Seq(Lookups)
  <2>1. AssetLookups \subseteq Lookups
    BY DEF Lookups
  <2> QED
    BY <2>1, AssetPlansOK
<1> QED
  BY <1>1, <1>2, <1>3 DEF SetupPlan, PassPlan

LEMMA LookupsAre ==
    ASSUME NEW l \in Lookups
    PROVE  /\ l.crd \in CRDs
           /\ l.use \in {"setup", "fetch"} => l.crd \in Required
           /\ l.use = "asset" => l.asset \in Assets
           /\ l.use \in {"setup", "fetch", "metric", "asset"}
           /\ l \in [use : {"setup", "fetch", "metric", "asset"}, crd : CRDs, asset : Assets \cup {NoCRD}]
<1>1. CASE l \in SetupLookups
  BY <1>1, CatalogIsFinite DEF SetupLookups
<1>2. CASE l \in MetricLookups
  BY <1>2, CatalogIsFinite DEF MetricLookups
<1>3. CASE l \in AssetLookups
  BY <1>3 DEF AssetLookups
<1> QED
  BY <1>1, <1>2, <1>3 DEF Lookups

LEMMA AnswerOK ==
    ASSUME PlanOK, plan # <<>>, Head(plan).use # "fetch", NEW answer, Answer(answer) PROVE PlanOK'
<1> DEFINE l == Head(plan)
           rest == Tail(plan)
<1>1. l \in Lookups /\ rest \in Seq(Lookups)
  BY DEF PlanOK
<1>2. l.use \in {"setup", "metric", "asset"} /\ l.crd \in CRDs
  BY <1>1, LookupsAre
<1>3. CASE l.use = "setup"
  <2>1. /\ plan' = (IF answer = "yes" THEN <<Lookup("fetch", l.crd, NoCRD)>> ELSE <<>>) \o rest
        /\ UNCHANGED <<skipped, retry, missing>>
    BY <1>3, Zenon DEF Answer
  <2>2. Lookup("fetch", l.crd, NoCRD) \in Lookups
    BY <1>1, <1>3, LookupsAre DEF Lookup, Lookups, SetupLookups
  <2> HIDE DEF l, rest
  <2>3. plan' \in Seq(Lookups)
    BY <1>1, <2>1, <2>2
  <2> QED
    BY <2>1, <2>3 DEF PlanOK
<1>4. CASE l.use = "metric"
  <2>1. /\ plan' = rest /\ skipped' = skipped /\ retry' = (retry \/ answer = "error")
        /\ missing' = CASE answer = "yes" -> missing \ {l.crd}
                        [] answer = "no" -> missing \cup {l.crd}
                        [] OTHER -> missing
    BY <1>4, Zenon DEF Answer
  <2>2. missing' \subseteq CRDs
    BY <1>2, <2>1 DEF PlanOK
  <2>3. retry' \in BOOLEAN
    BY <2>1
  <2> QED
    BY <1>1, <2>1, <2>2, <2>3 DEF PlanOK
<1>5. CASE l.use = "asset"
  <2>1. l.asset \in Assets
    BY <1>1, <1>5, LookupsAre
  <2>2. /\ UNCHANGED <<retry, missing>>
        /\ \/ plan' = rest /\ skipped' = skipped
           \/ Skip(l.asset)
    BY <1>5, Zenon DEF Answer
  <2>3. plan' \in {rest, Tail(rest)} /\ (plan' = Tail(rest) => rest # <<>> \/ plan' = rest) /\ skipped' \subseteq Assets
    BY <2>1, <2>2 DEF Skip, PlanOK
  <2> HIDE DEF rest
  <2>4. plan' \in Seq(Lookups)
    BY <1>1, <2>3
  <2> QED
    BY <2>2, <2>3, <2>4 DEF PlanOK
<1> QED
  BY <1>2, <1>3, <1>4, <1>5

LEMMA PlanTyped == ASSUME PlanOK, StaleInv, [Next]_vars PROVE PlanOK'
<1>1. CASE CacheHit
  BY <1>1, AnswerOK DEF CacheHit, Asking
<1>2. CASE LookupGet
  <2>1. CASE UNCHANGED <<plan, skipped, retry, missing>>
    BY <2>1 DEF PlanOK
  <2>2. CASE Answer("error")
    BY <1>2, <2>2, AnswerOK DEF LookupGet, Asking
  <2> QED
    BY <1>2, <2>1, <2>2 DEF LookupGet
<1>3. CASE LookupSet
  <2>1. plan # <<>> /\ Head(plan).use # "fetch" /\ Answer(YesNo(flight.exists))
    BY <1>3 DEF LookupSet, StaleInv, FlightInv
  <2> QED
    BY <2>1, AnswerOK
<1>4. CASE Fetch \/ SetupDone \/ Synced
  <2>1. UNCHANGED <<skipped, retry, missing>> /\ (plan' = plan \/ (plan # <<>> /\ plan' = Tail(plan)))
    BY <1>4 DEF Fetch, SetupDone, Synced
  <2> QED
    BY <2>1 DEF PlanOK
<1>5. CASE PassBegin
  BY <1>5, PlansOK DEF PassBegin, PlanOK
<1>6. CASE PassEnd
  BY <1>6, Zenon DEF PassEnd, PlanOK
<1>7. CASE CRDStart
  BY <1>7, PlansOK DEF CRDStart, PlanOK
<1>8. CASE NoProcess
  <2>1. plan' = <<>> /\ skipped' = {} /\ retry' = FALSE /\ missing' = {}
    BY <1>8 DEF NoProcess
  <2>2. <<>> \in Seq(Lookups)
    OBVIOUS
  <2>3. plan' \in Seq(Lookups) /\ skipped' \subseteq Assets /\ retry' \in BOOLEAN /\ missing' \subseteq CRDs
    BY <2>1, <2>2, Zenon
  <2> QED
    BY <2>3 DEF PlanOK
<1>9. ASSUME UNCHANGED <<plan, skipped, retry, missing>> PROVE PlanOK'
  BY <1>9 DEF PlanOK
<1>10. CASE Events \/ Timer \/ Clock \/ CertRestart \/ TLSSteps \/ ChannelEvent \/ UNCHANGED vars
  <2>1. UNCHANGED <<plan, skipped, retry, missing>>
    BY <1>10, Zenon DEF Events, CRDEvent, CRDCreated, CRDDeleted, Handled, ListKind, Timer, Requeue, Clock, Tick, CertRestart,
                 TLSSteps, crdVars, ChannelEvent, vars
  <2> QED
    BY <1>9, <2>1
<1>11. CASE Disturbance /\ ~Crash
  <2>1. UNCHANGED <<plan, skipped, retry, missing>>
    BY <1>11 DEF Disturbance, WatchEvent, CRDUpdated, Handled, CRDChanges, crdVars
  <2> QED
    BY <1>9, <2>1
<1> QED
  BY <1>1, <1>2, <1>3, <1>4, <1>5, <1>6, <1>7, <1>8, <1>10, <1>11
     DEF Next, Controller, Pass, Process, Start, Stop, CRDStop, Disturbance, Crash, CRDCrash

LEMMA KindsTyped == ASSUME KindsOK, PlanOK, [Next]_vars PROVE KindsOK'
<1>1. CASE Fetch
  <2>1. Head(plan) \in Lookups /\ Head(plan).use = "fetch"
    BY <1>1 DEF Fetch, PlanOK
  <2>2. Head(plan).crd \in Required
    BY <2>1, LookupsAre
  <2>3. UNCHANGED <<installed, known, listed, active>> /\ (watched' = watched \/ watched' = watched \cup {Head(plan).crd})
    BY <1>1 DEF Fetch
  <2> QED
    BY <2>2, <2>3 DEF KindsOK
<1>2. CASE PassEnd
  BY <1>2 DEF PassEnd, KindsOK
<1>3. ASSUME UNCHANGED <<installed, known, watched, listed, active>> PROVE KindsOK'
  BY <1>3 DEF KindsOK
<1>4. CASE CacheHit \/ LookupGet \/ LookupSet \/ SetupDone \/ Synced \/ PassBegin
  <2>1. UNCHANGED <<installed, known, watched, listed, active>>
    BY <1>4 DEF CacheHit, LookupGet, LookupSet, SetupDone, Synced, PassBegin
  <2> QED
    BY <1>3, <2>1
<1>5. CASE Events
  <2>1. ASSUME NEW c \in CRDs, CRDCreated(c) \/ CRDDeleted(c) PROVE KindsOK'
    BY <2>1 DEF CRDCreated, CRDDeleted, Handled, KindsOK
  <2>2. ASSUME NEW c \in CRDs, ListKind(c) PROVE KindsOK'
    BY <2>2 DEF ListKind, KindsOK
  <2> QED
    BY <1>5, <2>1, <2>2 DEF Events, CRDEvent
<1>6. CASE Timer \/ Clock \/ Start \/ CertRestart \/ TLSSteps \/ ChannelEvent \/ UNCHANGED vars
  <2>1. UNCHANGED <<installed, known, watched, listed, active>>
    BY <1>6, Zenon DEF Timer, Requeue, Clock, Tick, Start, CRDStart, CertRestart, TLSSteps, crdVars, ChannelEvent, vars
  <2> QED
    BY <1>3, <2>1
<1>7. CASE NoProcess
  BY <1>7 DEF NoProcess, KindsOK
<1>8. ASSUME NEW c \in CRDs, CRDChanges(c) PROVE KindsOK'
  BY <1>8 DEF CRDChanges, KindsOK
<1>9. CASE Disturbance /\ ~Crash
  <2>1. (\E c \in CRDs : CRDChanges(c)) \/ UNCHANGED <<installed, known, watched, listed, active>>
    BY <1>9 DEF Disturbance, WatchEvent, CRDUpdated, Handled, crdVars
  <2> QED
    BY <1>3, <1>8, <2>1
<1> QED
  BY <1>1, <1>2, <1>4, <1>5, <1>6, <1>7, <1>9
     DEF Next, Controller, Pass, Process, Stop, CRDStop, Disturbance, Crash, CRDCrash

LEMMA FlagsTyped == ASSUME FlagsOK, retry \in BOOLEAN, [Next]_vars PROVE FlagsOK'
<1>1. crdMoves' \in 0 .. MaxCRDMoves
  <2>1. crdMoves' = crdMoves \/ Disturb
    BY Zenon DEF Next, Controller, CacheHit, LookupGet, LookupSet, Fetch, SetupDone, Synced, Pass, PassBegin, PassEnd, Events,
           CRDEvent, CRDCreated, CRDDeleted, ListKind, Timer, Requeue, Clock, Tick, Process, Start, CRDStart, Stop, CRDStop,
           CertRestart, TLSSteps, crdVars, ChannelEvent, Disturbance, WatchEvent, CRDUpdated, CRDChanges, Crash, Calm, vars
  <2> QED
    BY <2>1, CRDAssumption DEF Disturb, FlagsOK
<1>2. phase' \in {"down", "setup", "starting", "up"}
  <2>1. phase' = phase \/ phase' \in {"down", "setup", "starting", "up"}
    BY Zenon DEF Next, Controller, CacheHit, LookupGet, LookupSet, Fetch, SetupDone, Synced, Pass, PassBegin, PassEnd, Events,
           CRDEvent, CRDCreated, CRDDeleted, Handled, ListKind, Timer, Requeue, Clock, Tick, Process, Start, CRDStart, Stop,
           CRDStop, NoProcess, CertRestart, TLSSteps, crdVars, ChannelEvent, Disturbance, WatchEvent, CRDUpdated, CRDChanges,
           Crash, CRDCrash, vars
  <2> QED
    BY <2>1 DEF FlagsOK
<1>3. ASSUME UNCHANGED <<stopping, pending, pass>> PROVE stopping' \in BOOLEAN /\ pending' \in BOOLEAN /\ pass' \in BOOLEAN
  BY <1>3 DEF FlagsOK
<1>4. stopping' \in BOOLEAN /\ pending' \in BOOLEAN /\ pass' \in BOOLEAN
  <2>1. CASE CacheHit \/ LookupGet \/ LookupSet \/ Fetch \/ SetupDone \/ Clock \/ Start \/ TLSSteps \/ UNCHANGED vars
    <3>1. UNCHANGED <<stopping, pending, pass>>
      BY <2>1, Zenon DEF CacheHit, LookupGet, LookupSet, Fetch, SetupDone, Clock, Tick, Start, CRDStart, TLSSteps, crdVars, vars
    <3> QED
      BY <1>3, <3>1
  <2>2. CASE Synced \/ Timer \/ WatchEvent \/ ChannelEvent
    <3>1. UNCHANGED <<stopping, pass>> /\ pending' = TRUE
      BY <2>2 DEF Synced, Timer, Requeue, WatchEvent, ChannelEvent
    <3> QED
      BY <3>1 DEF FlagsOK
  <2>3. CASE Pass
    <3>1. stopping' = stopping /\ pass' \in BOOLEAN /\ (pending' = FALSE \/ pending' = (pending \/ retry))
      BY <2>3, Zenon DEF Pass, PassBegin, PassEnd
    <3>2. pending' \in BOOLEAN
      BY <3>1, Zenon DEF FlagsOK
    <3> QED
      BY <3>1, <3>2 DEF FlagsOK
  <2>4. ASSUME NEW c, NEW restart, Handled(c, restart) PROVE stopping' \in BOOLEAN /\ pending' \in BOOLEAN /\ pass' \in BOOLEAN
    <3>1. stopping' = (stopping \/ (c \in Managed /\ restart)) /\ pending' = TRUE /\ pass' = pass
      BY <2>4 DEF Handled
    <3>2. stopping' \in BOOLEAN
      BY <3>1, Zenon DEF FlagsOK
    <3> QED
      BY <3>1, <3>2 DEF FlagsOK
  <2>5. CASE Events
    <3>1. ASSUME NEW c \in CRDs, CRDCreated(c) \/ CRDDeleted(c) PROVE \E restart : Handled(c, restart)
      BY <3>1, Zenon DEF CRDCreated, CRDDeleted
    <3>2. ASSUME NEW c \in CRDs, ListKind(c) PROVE UNCHANGED <<stopping, pending, pass>>
      BY <3>2 DEF ListKind
    <3> QED
      BY <1>3, <2>4, <2>5, <3>1, <3>2, Zenon DEF Events, CRDEvent
  <2>6. CASE CertRestart
    BY <2>6 DEF CertRestart, FlagsOK
  <2>7. CASE NoProcess
    BY <2>7, Zenon DEF NoProcess
  <2>8. ASSUME NEW c \in CRDs, CRDUpdated(c) PROVE stopping' \in BOOLEAN /\ pending' \in BOOLEAN /\ pass' \in BOOLEAN
    BY <2>4, <2>8, Zenon DEF CRDUpdated
  <2>9. ASSUME NEW c \in CRDs, CRDChanges(c) PROVE UNCHANGED <<stopping, pending, pass>>
    BY <2>9 DEF CRDChanges
  <2>10. CASE UNCHANGED crdVars
    BY <1>3, <2>10 DEF crdVars
  <2>11. CASE Disturbance
    BY <1>3, <2>2, <2>7, <2>8, <2>9, <2>10, <2>11, Zenon DEF Disturbance, Crash, CRDCrash
  <2> QED
    BY <2>1, <2>2, <2>3, <2>5, <2>6, <2>7, <2>11, Zenon DEF Next, Controller, Process, Stop, CRDStop
<1> QED
  BY <1>1, <1>2, <1>4 DEF FlagsOK

LEMMA TLSTyped == ASSUME TLSTypeOK, [Next]_vars PROVE TLSTypeOK'
<1> DEFINE ReadOK == CASE tlsPc = "setProfile" -> read \in AnyProfile
                       [] tlsPc = "setCA" -> read \in CAs \cup {BadCA}
                       [] OTHER -> tlsPc \in {"idle", "notify", "readCA"} /\ read = NoObject
           ClusterOK == /\ apiServer \in AnyProfile \cup {NoObject} /\ hcoProfile \in AnyProfile
                        /\ configMap \in CAs \cup {BadCA, NoObject} /\ cert \in BOOLEAN
           CachesOK == /\ rendered \in Profiles \cup {Default}
                       /\ hcCache \in AnyProfile /\ apiCache \in AnyProfile /\ pool \in CAs \cup {NoObject}
           TLSFlagsOK == /\ secure \in BOOLEAN /\ watching \in BOOLEAN /\ channel \in BOOLEAN
                         /\ tlsPending \in BOOLEAN /\ tlsMoves \in 0 .. MaxTLSMoves
<1>1. TLSTypeOK <=> ClusterOK /\ CachesOK /\ TLSFlagsOK /\ ReadOK
  BY DEF TLSTypeOK
<1>2. (TLSTypeOK <=> ClusterOK /\ CachesOK /\ TLSFlagsOK /\ ReadOK)'
  BY DEF TLSTypeOK
<1>3. ClusterOK /\ CachesOK /\ TLSFlagsOK /\ ReadOK
  BY <1>1
<1>4. ASSUME UNCHANGED clusterTLS PROVE ClusterOK'
  BY <1>3, <1>4 DEF clusterTLS
<1>5. ASSUME UNCHANGED <<rendered, hcCache, apiCache, pool>> PROVE CachesOK'
  BY <1>3, <1>5
<1>6. ASSUME UNCHANGED <<tlsPc, read>> PROVE ReadOK'
  BY <1>3, <1>6
<1>7. ASSUME UNCHANGED <<secure, watching, channel, tlsPending, tlsMoves>> PROVE TLSFlagsOK'
  BY <1>3, <1>7
<1>8. ASSUME TLSDisturb PROVE tlsMoves' \in 0 .. MaxTLSMoves
  BY <1>3, <1>8, TLSAssumption DEF TLSDisturb
<1>9. tlsMoves \in 0 .. MaxTLSMoves
  BY <1>3
<1> HIDE DEF ReadOK, ClusterOK, CachesOK, TLSFlagsOK
<1>10. ASSUME UNCHANGED tlsVars PROVE TLSTypeOK'
  BY <1>2, <1>4, <1>5, <1>6, <1>7, <1>10 DEF tlsVars, clusterTLS
<1>11. CASE Pass
  <2>1. UNCHANGED <<clusterTLS, apiCache, pool, secure, watching, channel, tlsPending, tlsPc, read, tlsMoves>>
    BY <1>11 DEF Pass
  <2>2. \/ hcCache' = hcoProfile /\ rendered' = rendered
        \/ rendered' = Resolve(NoProfile, apiCache) /\ hcCache' = hcCache
    BY <1>11 DEF Pass, TrackHCO, RenderTLS
  <2>3. Resolve(NoProfile, apiCache) \in Profiles \cup {Default}
    BY <1>3 DEF CachesOK, Resolve, AnyProfile
  <2>4. CachesOK'
    BY <1>3, <2>1, <2>2, <2>3 DEF CachesOK, ClusterOK
  <2> QED
    BY <1>2, <1>4, <1>6, <1>7, <2>1, <2>4
<1>12. CASE TLSSteps
  <2>1. CASE ReadAPIServer
    <3>1. UNCHANGED <<clusterTLS, rendered, hcCache, apiCache, pool, secure, watching, channel, tlsMoves>> /\ tlsPending' = FALSE
      BY <2>1 DEF ReadAPIServer, TLSBegin, TLSCalm
    <3>2. \/ apiServer # NoObject /\ tlsPc' = "setProfile" /\ read' = apiServer
          \/ tlsPc = "idle" /\ tlsPc' = "readCA" /\ read' = read
      BY <2>1 DEF ReadAPIServer, TLSBegin, At
    <3>3. ReadOK'
      BY <1>3, <3>2 DEF ReadOK, ClusterOK
    <3>4. TLSFlagsOK'
      BY <1>3, <3>1, Zenon DEF TLSFlagsOK
    <3> QED
      BY <1>2, <1>4, <1>5, <3>1, <3>3, <3>4
  <2>2. CASE SetProfile
    <3>1. /\ UNCHANGED <<clusterTLS, rendered, hcCache, pool, secure, watching, channel, tlsPending, tlsMoves>>
          /\ tlsPc = "setProfile" /\ apiCache' = read /\ read' = NoObject /\ tlsPc' \in {"notify", "readCA"}
      BY <2>2 DEF SetProfile, At
    <3>2. ReadOK'
      BY <3>1 DEF ReadOK
    <3>3. read \in AnyProfile
      BY <1>3, <3>1 DEF ReadOK
    <3>4. CachesOK'
      BY <1>3, <3>1, <3>3 DEF CachesOK
    <3> QED
      BY <1>2, <1>4, <1>7, <3>1, <3>2, <3>4
  <2>3. CASE Notify
    <3>1. /\ UNCHANGED <<clusterTLS, rendered, hcCache, apiCache, pool, secure, watching, tlsPending, read, tlsMoves>>
          /\ tlsPc = "notify" /\ tlsPc' = "readCA" /\ channel' = TRUE
      BY <2>3 DEF Notify, At
    <3>2. ReadOK' /\ TLSFlagsOK'
      BY <1>3, <3>1 DEF ReadOK, TLSFlagsOK
    <3> QED
      BY <1>2, <1>4, <1>5, <3>1, <3>2
  <2>4. CASE ReadCA
    <3>1. /\ UNCHANGED <<clusterTLS, rendered, hcCache, apiCache, pool, secure, watching, channel>> /\ tlsPc = "readCA"
          /\ \/ configMap # NoObject /\ read' = configMap /\ tlsPc' = "setCA" /\ UNCHANGED <<tlsPending, tlsMoves>>
             \/ tlsPc' = "idle" /\ UNCHANGED <<read, tlsPending, tlsMoves>>
             \/ TLSDisturb /\ tlsPc' = "idle" /\ read' = NoObject /\ tlsPending' = TRUE
      BY <2>4 DEF ReadCA, Retried, At
    <3>2. ReadOK'
      BY <1>3, <3>1 DEF ReadOK, ClusterOK
    <3>3. tlsMoves' \in 0 .. MaxTLSMoves
      BY <1>8, <1>9, <3>1
    <3>4. TLSFlagsOK'
      BY <1>3, <3>1, <3>3, Zenon DEF TLSFlagsOK
    <3> QED
      BY <1>2, <1>4, <1>5, <3>1, <3>2, <3>4
  <2>5. CASE SetCA
    <3>1. /\ UNCHANGED <<clusterTLS, rendered, hcCache, apiCache, secure, watching, channel, tlsMoves>> /\ tlsPc = "setCA"
          /\ pool' = PoolAfter(read) /\ tlsPc' = "idle" /\ read' = NoObject /\ (tlsPending' = TRUE \/ tlsPending' = tlsPending)
      BY <2>5 DEF SetCA, Retried, At
    <3>2. ReadOK' /\ TLSFlagsOK'
      BY <1>3, <3>1, Zenon DEF ReadOK, TLSFlagsOK
    <3>3. read \in CAs \cup {BadCA}
      BY <1>3, <3>1 DEF ReadOK
    <3>4. CachesOK'
      BY <1>3, <3>1, <3>3 DEF CachesOK, PoolAfter
    <3> QED
      BY <1>2, <1>4, <3>1, <3>2, <3>4
  <2> QED
    BY <1>12, <2>1, <2>2, <2>3, <2>4, <2>5 DEF TLSSteps, TLSStep
<1>13. CASE ChannelEvent
  <2>1. UNCHANGED <<clusterTLS, rendered, hcCache, apiCache, pool, secure, watching, tlsPending, tlsPc, read, tlsMoves>> /\ channel' = FALSE
    BY <1>13 DEF ChannelEvent
  <2>2. TLSFlagsOK'
    BY <1>3, <2>1, Zenon DEF TLSFlagsOK
  <2> QED
    BY <1>2, <1>4, <1>5, <1>6, <2>1, <2>2
<1>14. CASE Start
  <2>1. /\ UNCHANGED <<clusterTLS, rendered, hcCache, channel, tlsPc, read>> /\ secure' = cert /\ tlsPending' = cert
        /\ tlsMoves' = tlsMoves \/ TLSDisturb
        /\ watching' \in BOOLEAN
        /\ apiCache' = NoProfile \/ (apiServer # NoObject /\ apiCache' = apiServer)
        /\ pool' \in CAs \cup {NoObject}
    BY <1>14, Zenon DEF Start, TLSStart, TLSCalm
  <2>2. CachesOK'
    BY <1>3, <2>1 DEF CachesOK, ClusterOK, AnyProfile
  <2>3. tlsMoves' \in 0 .. MaxTLSMoves
    BY <1>8, <1>9, <2>1
  <2>4. TLSFlagsOK'
    BY <1>3, <2>1, <2>3 DEF TLSFlagsOK, ClusterOK
  <2> QED
    BY <1>2, <1>4, <1>6, <2>1, <2>2, <2>4
<1>15. CASE Stop \/ Crash
  <2>1. TLSStop /\ (tlsMoves' = tlsMoves \/ TLSDisturb)
    BY <1>15 DEF Stop, Crash, TLSCalm
  <2>2. ReadOK'
    BY <2>1 DEF TLSStop, ReadOK
  <2>3. tlsMoves' \in 0 .. MaxTLSMoves
    BY <1>8, <1>9, <2>1
  <2>4. TLSFlagsOK'
    BY <2>1, <2>3, Zenon DEF TLSFlagsOK, TLSStop
  <2>5. CachesOK'
    BY <1>3, <2>1 DEF CachesOK, TLSStop, AnyProfile
  <2> QED
    BY <1>2, <1>4, <2>1, <2>2, <2>4, <2>5 DEF TLSStop
<1>16. CASE TLSChanges \/ CertMounted
  <2>1. /\ UNCHANGED <<rendered, hcCache, apiCache, pool, secure, watching, channel, tlsPc, read>> /\ TLSDisturb
        /\ tlsPending' \in {tlsPending, tlsPending \/ (secure /\ watching), tlsPending \/ secure}
    BY <1>16 DEF TLSChanges, CertMounted
  <2>2. tlsPending' \in BOOLEAN
    BY <1>3, <2>1, Zenon DEF TLSFlagsOK
  <2>3. TLSFlagsOK'
    BY <1>3, <1>8, <2>1, <2>2 DEF TLSFlagsOK
  <2>4. ClusterOK'
    BY <1>3, <1>16, TLSAssumption, Zenon DEF ClusterOK, TLSChanges, CertMounted, AnyProfile
  <2> QED
    BY <1>2, <1>5, <1>6, <2>1, <2>3, <2>4
<1>17. UNCHANGED vars => UNCHANGED tlsVars
  BY DEF vars, tlsVars
<1> QED
  BY <1>10, <1>11, <1>12, <1>13, <1>14, <1>15, <1>16, <1>17
     DEF Next, Controller, Events, Timer, Clock, Process, CertRestart, Disturbance

ProcessInv == PlanOK /\ KindsOK /\ FlagsOK /\ TLSTypeOK

LEMMA ProcessInvariant == Spec => []ProcessInv
<1> USE DEF ProcessInv
<1>1. Init => ProcessInv
  <2> SUFFICES ASSUME Init PROVE ProcessInv
    OBVIOUS
  <2>1. PlanOK
    <3>1. plan = <<>> /\ skipped = {} /\ retry = FALSE /\ missing = {}
      BY DEF Init, CRDInit
    <3>2. <<>> \in Seq(Lookups)
      OBVIOUS
    <3> QED
      BY <3>1, <3>2, Zenon DEF PlanOK
  <2>2. KindsOK /\ FlagsOK
    BY Zenon DEF Init, CRDInit, KindsOK, FlagsOK
  <2>3. TLSTypeOK
    BY Zenon DEF Init, TLSInit, TLSTypeOK, AnyProfile
  <2> QED
    BY <2>1, <2>2, <2>3
<1>2. ProcessInv /\ StaleInv /\ [Next]_vars => ProcessInv'
  <2> SUFFICES ASSUME ProcessInv, StaleInv, [Next]_vars PROVE ProcessInv'
    OBVIOUS
  <2>1. retry \in BOOLEAN
    BY DEF PlanOK
  <2> QED
    BY <2>1, PlanTyped, KindsTyped, FlagsTyped, TLSTyped
<1> QED
  BY <1>1, <1>2, StaleInvariant, PTL DEF Spec

\* The variables of the process keep their values' ranges for every catalog, every
\* time to live and any number of disturbances; in particular only required CRDs are
\* ever watched, and an answer that is on its way always has the lookup that waits
\* for it (crd_checker.go 64-90, platform_controller.go 659-700).
THEOREM OperatorTypeCorrect == Spec => []OperatorTypeOK
<1>1. ProcessInv /\ StaleInv => OperatorTypeOK
  <2> SUFFICES ASSUME ProcessInv, StaleInv PROVE OperatorTypeOK
    OBVIOUS
  <2> DEFINE T == [use : {"setup", "fetch", "metric", "asset"}, crd : CRDs, asset : Assets \cup {NoCRD}]
  <2>1. Lookups \subseteq T
    BY LookupsAre
  <2> HIDE DEF T
  <2>2. plan \in Seq(T)
    BY <2>1 DEF PlanOK, ProcessInv
  <2>3. flight # None => plan # <<>>
    BY DEF StaleInv, FlightInv
  <2>4. CRDTypeOK
    BY <2>2, <2>3 DEF CRDTypeOK, T, ProcessInv, PlanOK, KindsOK, FlagsOK, StaleInv, AgesOK
  <2> QED
    BY <2>4 DEF OperatorTypeOK, ProcessInv
<1> QED
  BY <1>1, ProcessInvariant, StaleInvariant, PTL

LEMMA ResolveIsWanted ==
    ASSUME NEW hc \in AnyProfile, NEW api \in AnyProfile
    PROVE  /\ Resolve(hc, api) = Wanted(hc, api)
           /\ Resolve(hc, api) \in Profiles \cup {Default}
  BY TLSAssumption DEF Resolve, Wanted, AnyProfile

\* At every connection the metrics endpoint serves the policy that the documented
\* precedence gives for the profiles it has cached, whatever order the watch events,
\* passes and restarts filled the two caches in; it is never an unset profile or one
\* without ciphers (profile.go 76-84 and 110-115, cache.go 53-54).
ServesUsablePolicy ==
    /\ Served = Wanted(hcCache, apiCache)
    /\ Served \in Profiles \cup {Default}

\* From the ranges of the two caches: nothing but a profile of a custom resource or
\* NoProfile gets into them, so that Resolve falls back where it should.
THEOREM UsablePolicyIsAlwaysServed == Spec => []ServesUsablePolicy
<1>1. OperatorTypeOK => ServesUsablePolicy
  BY ResolveIsWanted DEF OperatorTypeOK, TLSTypeOK, ServesUsablePolicy, Served
<1> QED
  BY <1>1, OperatorTypeCorrect, PTL
=============================================================================
