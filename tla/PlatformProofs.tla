--------------------------- MODULE PlatformProofs ---------------------------
(***************************************************************************)
(* Proofs about the passes of the platform controller, for any number of   *)
(* disturbances of any kind: what it may delete and what it may apply.     *)
(***************************************************************************)
EXTENDS PlatformController, InductionProofs

(* The history sets only shrink during a pass, so what was established for   *)
(* all their members at one request still holds at the next one.             *)

WorldInv ==
    /\ objects \in [Objects -> {"absent", "unlabelled", "labelled"}]
    /\ cluster = [exists |-> cluster.exists, labelled |-> cluster.labelled, unmanaged |-> cluster.unmanaged,
                  ignore |-> cluster.ignore, spec |-> cluster.spec, status |-> cluster.status,
                  observed |-> cluster.observed]

HistoryInv ==
    /\ cold \subseteq MachineConfigs
    /\ \A m \in hot : m \in Keys(cluster.status) /\ objects[m] = "labelled"
    /\ \A m \in cold : ~EffectiveIn(cluster.status, m)
    /\ \A x \in bare : objects[x] # "labelled"

\* Requests between the two checks of the status.
Between == {"select", "aggregate", "applyPolicy", "asset", "applyAsset", "generation", "statusAfter"}

PcInv ==
    /\ pc = "ordinaryDelete" => Ordinary \notin bare
    /\ pc = "retiredDelete" => Retired \notin bare /\ Retired \notin hot
    /\ pc \in {"retiredBefore", "retiredAfter"} /\ Retired \in hot => Retired \in Keys(seen)
    /\ pc \in Between /\ Retired \in hot /\ Tombstoned => action
    /\ pc = "retiredGet" /\ Tombstoned => Retired \notin hot
    /\ pc = "applyAsset" => Head(todo) \notin cold

PassInv == WorldInv /\ HistoryInv /\ PcInv

\* An action of the status read holds the MachineConfig back.
LEMMA HotIsBlocked ==
    ASSUME HistoryInv, Retired \in hot, Retired \in Keys(seen), Tombstoned
    PROVE  Blocked
<1>1. objects[Retired] = "labelled"
  BY DEF HistoryInv
<1>2. PolicyWith(seen).files = seen /\ MachineConfigOf(Retired).files = {Retired}
  BY DEF PolicyWith, EmptyPolicy, MachineConfigOf
<1>3. MachineConfigOf(Retired)["files"] \cap Keys(PolicyWith(seen)["files"]) # {}
  BY <1>2
<1>4. HasEffectiveAction(MachineConfigOf(Retired), PolicyWith(seen))
  BY <1>3 DEF HasEffectiveAction, KeyedSections
<1> QED
  BY <1>1, <1>4 DEF Blocked

LEMMA ReturnKeeps == ASSUME WorldInv', Return PROVE PassInv'
  BY DEF Return, PassInv, HistoryInv, PcInv, Between

\* The history after a step is right about the world after it, and smaller.
LEMMA RememberKeeps ==
    ASSUME HistoryInv, Remember(objects', cluster'.status)
    PROVE  HistoryInv' /\ hot' \subseteq hot /\ cold' \subseteq cold /\ bare' \subseteq bare
  BY DEF HistoryInv, Remember, EffectiveIn

LEMMA ElsewhereKeeps ==
    ASSUME PassInv, Elsewhere, release' = release, WorldInv' PROVE PassInv'
<1>1. HistoryInv' /\ hot' \subseteq hot /\ cold' \subseteq cold /\ bare' \subseteq bare
  BY RememberKeeps DEF PassInv, Elsewhere
<1>2. UNCHANGED <<pc, todo, action, seen>>
  BY DEF Elsewhere, locals
<1>3. PcInv'
  BY <1>1, <1>2 DEF PassInv, PcInv, Tombstoned
<1> QED
  BY <1>1, <1>3 DEF PassInv

\* Requests that change nothing.
LEMMA WorldKept == ASSUME WorldInv, UNCHANGED <<objects, cluster>> PROVE WorldInv'
  BY DEF WorldInv

LEMMA HistoryKept == ASSUME HistoryInv, UNCHANGED <<objects, cluster, hot, cold, bare>> PROVE HistoryInv'
  BY DEF HistoryInv, EffectiveIn

LEMMA WritesKeep ==
    ASSUME WorldInv, NEW x, NEW o \in {"absent", "unlabelled", "labelled"}, objects' = [objects EXCEPT ![x] = o],
           cluster' = cluster
    PROVE  WorldInv'
  BY DEF WorldInv

LEMMA ApplyKeepsStatus ==
    ASSUME WorldInv, NEW d, cluster' = ApplyFiles(cluster, d), objects' = objects
    PROVE  WorldInv' /\ cluster'.status = cluster.status
<1>1. \E s, b : cluster' = [cluster EXCEPT !.exists = TRUE, !.labelled = TRUE, !.spec = s, !.observed = b]
  BY DEF ApplyFiles
<1>2. PICK s, b : cluster' = [cluster EXCEPT !.exists = TRUE, !.labelled = TRUE, !.spec = s, !.observed = b]
  BY <1>1
<1>3. cluster' = [exists |-> TRUE, labelled |-> TRUE, unmanaged |-> cluster.unmanaged, ignore |-> cluster.ignore,
                  spec |-> s, status |-> cluster.status, observed |-> b]
  BY <1>2 DEF WorldInv
<1> QED
  BY <1>3 DEF WorldInv

-----------------------------------------------------------------------------
(* The requests of a pass *)

LEMMA EarlyStepsKeep ==
    ASSUME PassInv, Begin \/ OrdinaryGet \/ OrdinaryDelete \/ ReconcileHCO \/ BuildContext PROVE PassInv'
<1> USE DEF PassInv
<1>1. CASE Begin
  <2>1. HistoryInv'
    <3>1. UNCHANGED <<objects, cluster>> /\ pc' = "ordinaryGet"
      BY <1>1 DEF Begin, world, Goto
    <3>2. /\ hot' = {m \in Keys(cluster.status) : objects[m] = "labelled"}
          /\ cold' = {m \in MachineConfigs : ~EffectiveIn(cluster.status, m)}
          /\ bare' = {x \in Objects : objects[x] # "labelled"}
      BY <1>1 DEF Begin
    <3> QED
      BY <3>1, <3>2 DEF HistoryInv, EffectiveIn
  <2>2. WorldInv' /\ PcInv'
    BY <1>1, WorldKept DEF Begin, world, Goto, PcInv, Between
  <2> QED
    BY <2>1, <2>2
<1>2. CASE OrdinaryGet
  <2>1. /\ UNCHANGED <<objects, cluster, hot, cold, bare>>
        /\ pc' = "hco" \/ (pc' = "ordinaryDelete" /\ objects[Ordinary] = "labelled")
    BY <1>2 DEF OrdinaryGet, world, KeepHistory, Goto, Deletable
  <2>2. PcInv'
    BY <2>1 DEF PcInv, Between, HistoryInv
  <2> QED
    BY <2>1, <2>2, WorldKept, HistoryKept
<1>3. CASE OrdinaryDelete
  <2>1. pc' = "hco"
    BY <1>3 DEF OrdinaryDelete, Goto
  <2>2. PcInv'
    BY <2>1 DEF PcInv, Between
  <2>3. CASE TombstoneDelete(Ordinary) /\ Remember(objects', cluster.status)
    <3>1. cluster' = cluster /\ objects' = [objects EXCEPT ![Ordinary] = "absent"]
      BY <2>3 DEF TombstoneDelete
    <3>2. WorldInv'
      BY <3>1, WritesKeep
    <3>3. HistoryInv'
      BY <2>3, <3>1, RememberKeeps
    <3> QED
      BY <2>2, <3>2, <3>3
  <2>4. CASE UNCHANGED world /\ KeepHistory
    BY <2>2, <2>4, WorldKept, HistoryKept DEF world, KeepHistory
  <2> QED
    BY <1>3, <2>3, <2>4 DEF OrdinaryDelete
<1>4. CASE ReconcileHCO
  <2>1. UNCHANGED <<objects, cluster, hot, cold, bare>> /\ pc' = "context"
    BY <1>4 DEF ReconcileHCO, history, Goto
  <2>2. PcInv'
    BY <2>1 DEF PcInv, Between
  <2> QED
    BY <2>1, <2>2, WorldKept, HistoryKept
<1>5. CASE BuildContext
  <2>1. UNCHANGED <<objects, cluster>> /\ WorldInv'
    BY <1>5, WorldKept DEF BuildContext, world
  <2>2. CASE pc' = "statusBefore" /\ UNCHANGED history
    <3>1. PcInv'
      BY <2>2 DEF PcInv, Between
    <3> QED
      BY <2>1, <2>2, <3>1, HistoryKept DEF history
  <2> QED
    BY <1>5, <2>1, <2>2, ReturnKeeps DEF BuildContext, Goto
<1> QED
  BY <1>1, <1>2, <1>3, <1>4, <1>5

\* The two checks of the status, and what depends on their answers.
LEMMA ChecksKeep ==
    ASSUME PassInv, StatusBefore \/ RetiredBefore \/ Generation \/ StatusAfter \/ RetiredAfter \/ RetiredGet
    PROVE  PassInv'
<1> USE DEF PassInv
<1>1. UNCHANGED <<release, objects, cluster>>
  BY DEF StatusBefore, StatusAfter, ReadStatus, RetiredBefore, Generation, RetiredAfter, RetiredGet, world
<1>2. WorldInv'
  BY <1>1, WorldKept
<1>3. CASE Return
  BY <1>2, <1>3, ReturnKeeps
<1>4. CASE UNCHANGED history /\ ~Return
  <2>1. HistoryInv' /\ UNCHANGED <<hot, cold, bare>>
    BY <1>1, <1>4, HistoryKept DEF history
  <2>2. CASE StatusBefore \/ StatusAfter
    <3>1. seen' = cluster.status /\ pc' \in {"retiredBefore", "retiredAfter"}
      BY <2>2 DEF StatusBefore, StatusAfter, ReadStatus, Goto
    <3>2. PcInv'
      BY <2>1, <3>1 DEF PcInv, Between, HistoryInv
    <3> QED
      BY <1>2, <2>1, <3>2
  <2>3. CASE RetiredBefore
    <3>1. pc = "retiredBefore" /\ pc' = "select" /\ action' = Blocked
      BY <2>3 DEF RetiredBefore, Goto
    <3>2. Retired \in hot /\ Tombstoned => Blocked
      BY <3>1, HotIsBlocked DEF PcInv
    <3>3. PcInv'
      BY <1>1, <2>1, <3>1, <3>2 DEF PcInv, Between, Tombstoned
    <3> QED
      BY <1>2, <2>1, <3>3
  <2>4. CASE Generation
    <3>1. pc = "generation" /\ pc' = "statusAfter" /\ action' = action
      BY <1>4, <2>4 DEF Generation, Goto
    <3>2. PcInv'
      BY <1>1, <2>1, <3>1 DEF PcInv, Between, Tombstoned
    <3> QED
      BY <1>2, <2>1, <3>2
  <2>5. CASE RetiredAfter
    <3>1. pc = "retiredAfter" /\ pc' = "retiredGet" /\ ~Blocked
      BY <1>4, <2>5 DEF RetiredAfter, Goto
    <3>2. Retired \in hot => ~Tombstoned
      BY <3>1, HotIsBlocked DEF PcInv
    <3>3. PcInv'
      BY <1>1, <2>1, <3>1, <3>2 DEF PcInv, Between, Tombstoned
    <3> QED
      BY <1>2, <2>1, <3>3
  <2>6. CASE RetiredGet
    <3>1. pc = "retiredGet" /\ pc' = "retiredDelete" /\ Tombstoned /\ objects[Retired] = "labelled"
      BY <1>4, <2>6 DEF RetiredGet, Goto, Deletable
    <3>2. PcInv'
      BY <2>1, <3>1 DEF PcInv, Between, HistoryInv
    <3> QED
      BY <1>2, <2>1, <3>2
  <2> QED
    BY <2>2, <2>3, <2>4, <2>5, <2>6
<1> QED
  BY <1>3, <1>4 DEF StatusBefore, StatusAfter, ReadStatus, RetiredBefore, Generation, RetiredAfter, RetiredGet

\* reconcileAssets
LEMMA AssetStepsKeep ==
    ASSUME PassInv, SelectAssets \/ AggregatePolicy \/ ApplyPolicy \/ CheckAsset \/ ApplyAsset \/ AssetsDone
    PROVE  PassInv'
<1> USE DEF PassInv
<1>1. release' = release /\ pc \in Between
  BY DEF SelectAssets, AggregatePolicy, ApplyPolicy, CheckAsset, ApplyAsset, AssetsDone, world, Between
<1>2. WorldInv' /\ (~ApplyAsset => objects' = objects /\ cluster'.status = cluster.status)
  <2>1. CASE ApplyPolicy
    <3>1. cluster' = ApplyFiles(cluster, desired) /\ objects' = objects
      BY <2>1 DEF ApplyPolicy
    <3> QED
      BY <3>1, ApplyKeepsStatus
  <2>2. CASE ApplyAsset
    <3>1. cluster' = cluster /\ \E x : objects' = objects \/ objects' = [objects EXCEPT ![x] = "labelled"]
      BY <2>2 DEF ApplyAsset
    <3> QED
      BY <2>2, <3>1, WritesKeep, WorldKept
  <2>3. CASE UNCHANGED world
    BY <2>3, WorldKept DEF world
  <2> QED
    BY <2>1, <2>2, <2>3 DEF SelectAssets, AggregatePolicy, CheckAsset, AssetsDone
<1>3. CASE Return
  BY <1>2, <1>3, ReturnKeeps
<1>4. CASE ApplyAsset
  <2>1. cluster' = cluster /\ Remember(objects', cluster.status) /\ pc' = "asset" /\ action' = action
    BY <1>4 DEF ApplyAsset, AssetDone, Goto
  <2>2. HistoryInv' /\ hot' \subseteq hot
    BY <2>1, RememberKeeps
  <2>3. PcInv'
    BY <1>1, <2>1, <2>2 DEF PcInv, Between, Tombstoned
  <2> QED
    BY <1>2, <2>2, <2>3
<1>5. CASE ~Return /\ ~ApplyAsset
  <2>1. UNCHANGED <<hot, cold, bare, action>>
    BY <1>5 DEF SelectAssets, AggregatePolicy, ApplyPolicy, CheckAsset, AssetDone, AssetsDone, KeepHistory, history
  <2>2. HistoryInv'
    BY <1>2, <1>5, <2>1 DEF HistoryInv, EffectiveIn
  <2>3. CASE CheckAsset
    <3>1. CASE pc' = "asset"
      BY <1>1, <1>2, <2>1, <2>2, <3>1 DEF PcInv, Between, Tombstoned
    <3>2. CASE pc' = "applyAsset" /\ todo' = todo
               /\ (Head(todo) \in MachineConfigs => EffectiveIn(cluster.status, Head(todo)))
      <4>1. Head(todo) \notin cold
        BY <3>2 DEF HistoryInv
      <4> QED
        BY <1>1, <1>2, <2>1, <2>2, <3>2, <4>1 DEF PcInv, Between, Tombstoned
    <3> QED
      BY <2>3, <3>1, <3>2 DEF CheckAsset, AssetDone, Goto
  <2>4. CASE AssetsDone
    <3>1. pc' = (IF action THEN "generation" ELSE "retiredGet")
      BY <1>5, <2>4 DEF AssetsDone, Goto
    <3>2. PcInv'
      BY <1>1, <2>1, <3>1 DEF PcInv, Between, Tombstoned
    <3> QED
      BY <1>2, <2>2, <3>2
  <2>5. CASE SelectAssets \/ AggregatePolicy \/ ApplyPolicy
    <3>1. pc' \in {"aggregate", "asset", "applyPolicy"}
      BY <1>5, <2>5 DEF SelectAssets, AggregatePolicy, ApplyPolicy, Goto
    <3>2. PcInv'
      BY <1>1, <2>1, <3>1 DEF PcInv, Between, Tombstoned
    <3> QED
      BY <1>2, <2>2, <3>2
  <2> QED
    BY <1>5, <2>3, <2>4, <2>5
<1> QED
  BY <1>3, <1>4, <1>5

LEMMA DeleteKeeps == ASSUME PassInv, RetiredDelete PROVE PassInv'
<1>1. Return
  BY DEF RetiredDelete
<1>2. CASE TombstoneDelete(Retired)
  <2>1. cluster' = cluster /\ objects' = [objects EXCEPT ![Retired] = "absent"]
    BY <1>2 DEF TombstoneDelete
  <2> QED
    BY <1>1, <2>1, WritesKeep, ReturnKeeps DEF PassInv
<1>3. CASE UNCHANGED world
  BY <1>1, <1>3, WorldKept, ReturnKeeps DEF PassInv, world
<1> QED
  BY <1>2, <1>3 DEF RetiredDelete

-----------------------------------------------------------------------------
(* Everyone else *)

LEMMA OthersKeep ==
    ASSUME PassInv, MCOSync \/ UserChangesHCO \/ UserChangesObject \/ AdminOverrides \/ AdminEntry PROVE PassInv'
<1>1. Elsewhere /\ release' = release
  BY DEF MCOSync, UserChangesHCO, UserChangesObject, AdminOverrides, AdminEntry
<1>2. WorldInv'
  <2>1. CASE MCOSync
    <3>1. /\ cluster' = [cluster EXCEPT !.status = cluster.spec, !.observed = TRUE] /\ objects' = objects
      BY <2>1 DEF MCOSync
    <3> QED
      BY <3>1 DEF PassInv, WorldInv
  <2>2. CASE UserChangesHCO
    BY <2>2, WorldKept DEF UserChangesHCO, PassInv
  <2>3. CASE UserChangesObject
    <3>1. PICK x \in Touched, o \in {"absent", "unlabelled", "labelled"} : objects' = [objects EXCEPT ![x] = o] /\ cluster' = cluster
      BY <2>3 DEF UserChangesObject
    <3> QED
      BY <3>1, WritesKeep DEF PassInv
  <2>4. CASE AdminOverrides
    <3>1. /\ objects' = objects
          /\ \E v : \/ cluster' = [cluster EXCEPT !.labelled = v]
                    \/ cluster' = [cluster EXCEPT !.unmanaged = v]
                    \/ cluster' = [cluster EXCEPT !.ignore = v]
      BY <2>4 DEF AdminOverrides
    <3> QED
      BY <3>1 DEF PassInv, WorldInv
  <2>5. CASE AdminEntry
    <3>1. PICK f : objects' = objects /\ cluster' = [cluster EXCEPT !.exists = TRUE, !.spec = f, !.observed = FALSE]
      BY <2>5 DEF AdminEntry
    <3> QED
      BY <3>1 DEF PassInv, WorldInv
  <2> QED
    BY <2>1, <2>2, <2>3, <2>4, <2>5
<1> QED
  BY <1>1, <1>2, ElsewhereKeeps

LEMMA EndsKeep == ASSUME PassInv, Abort \/ Upgrade PROVE PassInv'
<1>1. Return /\ UNCHANGED <<objects, cluster>>
  BY DEF Abort, Upgrade, world
<1> QED
  BY <1>1, WorldKept, ReturnKeeps DEF PassInv

LEMMA PassInvariant == Spec => []PassInv
<1>1. Init => PassInv
  <2> SUFFICES ASSUME Init PROVE PassInv
    OBVIOUS
  <2>1. WorldInv
    BY DEF Init, WorldInv, NoCluster
  <2>2. HistoryInv /\ PcInv
    BY DEF Init, HistoryInv, PcInv, Between
  <2> QED
    BY <2>1, <2>2 DEF PassInv
<1>2. PassInv /\ [Next]_vars => PassInv'
  <2> SUFFICES ASSUME PassInv, [Next]_vars PROVE PassInv'
    OBVIOUS
  <2>1. CASE UNCHANGED vars
    BY <2>1 DEF vars, PassInv, WorldInv, HistoryInv, PcInv, Tombstoned, EffectiveIn
  <2>2. CASE PassStep
    BY <2>2, EarlyStepsKeep, ChecksKeep, AssetStepsKeep, DeleteKeeps DEF PassStep
  <2> QED
    BY <2>1, <2>2, OthersKeep, EndsKeep DEF Next, OthersStep
<1> QED
  BY <1>1, <1>2, PTL DEF Spec

-----------------------------------------------------------------------------
(* The aggregate of the catalog.  No two of its policies share a file, so    *)
(* it is never an error, and has the entries of the active dependents.       *)

RestartEntries(K) == [files |-> [k \in K |-> "restart"], units |-> <<>>, sshkey |-> Absent]

Active(c, m) == m \in c.enabled /\ m \notin c.excluded

LEMMA NotAbsent ==
    ASSUME NEW K \in SUBSET MachineConfigs
    PROVE  /\ [k \in K |-> "restart"] \in FileEntries /\ [k \in K |-> "restart"] # Absent
           /\ <<>> # Absent /\ RestartEntries(K) # Absent
           /\ [files |-> [k \in K |-> "restart"], units |-> Absent, sshkey |-> Absent] # Absent
<1>1. [k \in K |-> "restart"] \in [K -> {"restart", "reboot"}] /\ <<>> \in [{} -> {"restart", "reboot"}]
  OBVIOUS
<1>2. [k \in K |-> "restart"] \in FileEntries /\ <<>> \in FileEntries
  BY <1>1 DEF FileEntries, MachineConfigs
<1> DEFINE F == [k \in K |-> "restart"]
<1> HIDE DEF F
<1>3. /\ [files |-> F, units |-> <<>>, sshkey |-> Absent] \in [files : FileEntries, units : {<<>>, Absent}, sshkey : {Absent}]
      /\ [files |-> F, units |-> Absent, sshkey |-> Absent] \in [files : FileEntries, units : {<<>>, Absent}, sshkey : {Absent}]
  BY <1>2 DEF F
<1> QED
  BY <1>2, <1>3, PlatformAssumption DEF F, RestartEntries

LEMMA AddRestart ==
    ASSUME NEW K \in SUBSET MachineConfigs, NEW m \in MachineConfigs, NEW c
    PROVE  AddDependent(RestartEntries(K), DependentIn(c, m)) = RestartEntries(IF Active(c, m) THEN K \cup {m} ELSE K)
<1> DEFINE d == DependentIn(c, m)
           f == [k \in {m} |-> "restart"]
           e == [k \in K |-> "restart"]
<1>1. /\ d.active = (m \in c.enabled) /\ d.excluded = (m \in c.excluded) /\ d.rendered
      /\ d.policy = PolicyOf(m) /\ d.mc = MachineConfigOf(m)
  BY DEF DependentIn
<1>2. RestartEntries(K) # Absent /\ e # Absent /\ <<>> # Absent
  BY NotAbsent
<1>3. f # Absent /\ PolicyOf(m) = [files |-> f, units |-> Absent, sshkey |-> Absent] /\ PolicyOf(m) # Absent
  <2>1. PolicyOf(m) = [files |-> f, units |-> Absent, sshkey |-> Absent]
    BY DEF PolicyOf, EmptyPolicy
  <2>2. {m} \in SUBSET MachineConfigs
    OBVIOUS
  <2> QED
    BY <2>1, <2>2, NotAbsent
<1>4. CASE ~Active(c, m)
  BY <1>1, <1>2, <1>4 DEF AddDependent, Active
<1>5. CASE Active(c, m)
  <2>1. Covers(PolicyOf(m), MachineConfigOf(m))
    BY <1>3 DEF Covers, MachineConfigOf, KeyedSections, Keys
  <2>2. AddDependent(RestartEntries(K), d) = MergePolicy(RestartEntries(K), PolicyOf(m))
    BY <1>1, <1>2, <1>3, <1>5, <2>1 DEF AddDependent, Active
  <2>3. Overlay(f, e) = [k \in K \cup {m} |-> "restart"]
    BY DEF Overlay
  <2>4. MergeEntries(e, f) = [k \in K \cup {m} |-> "restart"]
    BY <1>3, <2>3 DEF MergeEntries
  <2>5. MergeEntries(<<>>, Absent) = <<>>
    BY DEF MergeEntries
  <2>6. [k \in K \cup {m} |-> "restart"] # Absent
    <3>1. K \cup {m} \in SUBSET MachineConfigs
      OBVIOUS
    <3> QED
      BY <3>1, NotAbsent
  <2>7. MergePolicy(RestartEntries(K), PolicyOf(m)) = RestartEntries(K \cup {m})
    BY <1>2, <1>3, <2>4, <2>5, <2>6 DEF MergePolicy, RestartEntries, SSHKeyConflict, MergeSSHKey
  <2> QED
    BY <1>5, <2>2, <2>7
<1> QED
  BY <1>4, <1>5

\* The loop over the dependents of a release, step by step.
LEMMA CatalogUnfolds ==
    ASSUME NEW c, NEW ms \in Seq(MachineConfigs)
    PROVE  LET ds == [i \in DOMAIN ms |-> DependentIn(c, ms[i])] IN
           \E h : /\ h[0] = RestartEntries({})
                  /\ \A n \in 1 .. Len(ms) : h[n] = AddDependent(h[n - 1], DependentIn(c, ms[n]))
                  /\ AggregateEntries(ds) = h[Len(ms)]
<1> DEFINE ds == [i \in DOMAIN ms |-> DependentIn(c, ms[i])]
           N == Len(ms)
           V == {RestartEntries(K) : K \in SUBSET MachineConfigs}
           R == [n \in 1 .. N |-> [e \in V |-> AddDependent(e, DependentIn(c, ms[n]))]]
           Is(g) == g = [n \in 0 .. N |-> IF n = 0 THEN NoEntries ELSE AddDependent(g[n - 1], ds[n])]
<1>1. N \in Nat /\ Len(ds) = N /\ \A n \in 1 .. N : ds[n] = DependentIn(c, ms[n]) /\ ms[n] \in MachineConfigs
  OBVIOUS
<1>2. NoEntries = RestartEntries({})
  <2>1. [k \in {} |-> "restart"] = <<>>
    OBVIOUS
  <2> QED
    BY <2>1 DEF NoEntries, RestartEntries
<1>3. NoEntries \in V
  BY <1>2
<1>4. ASSUME NEW e \in V, NEW n \in 1 .. N PROVE AddDependent(e, DependentIn(c, ms[n])) \in V
  <2>1. PICK K \in SUBSET MachineConfigs : e = RestartEntries(K)
    OBVIOUS
  <2>2. AddDependent(e, DependentIn(c, ms[n])) = RestartEntries(IF Active(c, ms[n]) THEN K \cup {ms[n]} ELSE K)
    BY <1>1, <2>1, AddRestart
  <2>3. (IF Active(c, ms[n]) THEN K \cup {ms[n]} ELSE K) \in SUBSET MachineConfigs
    BY <1>1
  <2> QED
    BY <2>2, <2>3
<1> HIDE DEF V
<1>5. R \in [1 .. N -> [V -> V]]
  BY <1>4
<1>6. \A n \in 1 .. N, e \in V : R[n][e] = AddDependent(e, DependentIn(c, ms[n]))
  OBVIOUS
<1> HIDE DEF R
<1>7. PICK f : Computes(f, N, NoEntries, R, V)
  BY <1>1, <1>3, <1>5, RecursionExists
<1>8. AggregateEntries(ds) = (CHOOSE g : Is(g))[N]
  BY <1>1 DEF AggregateEntries
<1>9. \A n \in 1 .. N : ds[n] = DependentIn(c, ms[n])
  BY <1>1
<1>10. N \in Nat
  BY <1>1
<1> HIDE DEF ds, N
<1>11. Is(f)
  <2>1. f \in [0 .. N -> V] /\ f[0] = NoEntries /\ \A n \in 1 .. N : f[n] = R[n][f[n - 1]]
    BY <1>7 DEF Computes
  <2>2. \A n \in 1 .. N : n - 1 \in 0 .. N
    BY <1>10
  <2>3. \A n \in 1 .. N : f[n] = AddDependent(f[n - 1], ds[n])
    BY <1>6, <1>9, <2>1, <2>2
  <2>4. \A n \in 0 .. N : f[n] = IF n = 0 THEN NoEntries ELSE AddDependent(f[n - 1], ds[n])
    BY <1>10, <2>1, <2>3
  <2> QED
    BY <2>1, <2>4
<1> DEFINE h == CHOOSE g : Is(g)
<1>12. Is(h)
  <2> HIDE DEF Is
  <2> QED
    BY <1>11
<1>13. AggregateEntries(ds) = h[N]
  BY <1>8
<1> HIDE DEF h
<1>14. h[0] = NoEntries /\ \A n \in 1 .. N : h[n] = AddDependent(h[n - 1], DependentIn(c, ms[n]))
  BY <1>9, <1>10, <1>12
<1> QED
  BY <1>2, <1>13, <1>14 DEF ds, N

\* The entries of the aggregate are those of the active dependents of the release.
LEMMA AggregateIs ==
    ASSUME NEW c, release \in {1, 2}
    PROVE  AggregateIn(c) = RestartEntries({m \in Range(Dependents) : Active(c, m)})
<1> DEFINE In(m) == IF Active(c, m) THEN {m} ELSE {}
<1>1. {Retired} \subseteq MachineConfigs /\ {Dependent} \subseteq MachineConfigs /\ {} \subseteq MachineConfigs
  BY DEF MachineConfigs
<1>2. ASSUME NEW K \in SUBSET MachineConfigs, NEW m \in MachineConfigs
      PROVE  AddDependent(RestartEntries(K), DependentIn(c, m)) = RestartEntries(K \cup In(m))
  <2>1. K \cup In(m) = IF Active(c, m) THEN K \cup {m} ELSE K
    OBVIOUS
  <2> HIDE DEF In
  <2> QED
    BY <2>1, AddRestart, Zenon
<1>3. Dependents \in Seq(MachineConfigs)
  <2>1. Retired \in MachineConfigs /\ Dependent \in MachineConfigs
    BY DEF MachineConfigs
  <2>2. <<Dependent>> \in Seq(MachineConfigs) /\ <<Retired, Dependent>> \in Seq(MachineConfigs)
    BY <2>1
  <2> QED
    BY <2>2, Zenon DEF Dependents
<1>4. PICK h : /\ h[0] = RestartEntries({})
               /\ \A n \in 1 .. Len(Dependents) : h[n] = AddDependent(h[n - 1], DependentIn(c, Dependents[n]))
               /\ AggregateIn(c) = h[Len(Dependents)]
  BY <1>3, CatalogUnfolds, Zenon DEF AggregateIn
<1>5. CASE release = 2
  <2>1. Dependents = <<Dependent>> /\ Len(Dependents) = 1 /\ Dependents[1] = Dependent /\ Range(Dependents) = {Dependent}
    BY <1>5 DEF Dependents, Range
  <2>2. h[1] = AddDependent(h[0], DependentIn(c, Dependent))
    BY <1>4, <2>1
  <2>3. h[1] = RestartEntries({} \cup In(Dependent))
    BY <1>1, <1>2, <1>4, <2>2
  <2>4. {} \cup In(Dependent) = {m \in Range(Dependents) : Active(c, m)}
    BY <2>1
  <2> QED
    BY <1>4, <2>1, <2>3, <2>4
<1>6. CASE release = 1
  <2>1. /\ Len(Dependents) = 2 /\ Dependents[1] = Retired /\ Dependents[2] = Dependent
        /\ Range(Dependents) = {Retired, Dependent}
    BY <1>6 DEF Dependents, Range
  <2>2. h[1] = AddDependent(h[0], DependentIn(c, Retired)) /\ h[2] = AddDependent(h[1], DependentIn(c, Dependent))
    BY <1>4, <2>1
  <2>3. h[1] = RestartEntries({} \cup In(Retired))
    BY <1>1, <1>2, <1>4, <2>2
  <2>4. {} \cup In(Retired) \in SUBSET MachineConfigs
    BY <1>1
  <2>5. h[2] = RestartEntries(({} \cup In(Retired)) \cup In(Dependent))
    BY <1>1, <1>2, <2>2, <2>3, <2>4
  <2>6. ({} \cup In(Retired)) \cup In(Dependent) = {m \in Range(Dependents) : Active(c, m)}
    BY <2>1
  <2> QED
    BY <1>4, <2>1, <2>5, <2>6
<1> QED
  BY <1>5, <1>6

-----------------------------------------------------------------------------
(* The values of the variables *)

\* The dependents of the release that are active in the context c.
ActiveIn(c) == {m \in Range(Dependents) : Active(c, m)}

\* A policy the operator manages is about to be written from the context alone.
LocalsInv ==
    /\ LocalsOK /\ todo \in Seq(MachineConfigs \cup {Plain})
    /\ pc = "applyPolicy" /\ managed => desired = [k \in ActiveIn(ctx) |-> "restart"]

TypeInv == WorldOK /\ LocalsInv /\ HistoryOK

LEMMA IsFileEntries ==
    /\ \A K \in SUBSET MachineConfigs : [K -> {"restart", "reboot"}] \subseteq FileEntries
    /\ \A f \in FileEntries : DOMAIN f \subseteq MachineConfigs /\ f \in [DOMAIN f -> {"restart", "reboot"}]
  BY DEF FileEntries, MachineConfigs

LEMMA NoFilesOK == NoFiles \in FileEntries
<1>1. NoFiles \in [{} -> {"restart", "reboot"}]
  BY DEF NoFiles
<1> QED
  BY <1>1, IsFileEntries

LEMMA OverlayOK == ASSUME NEW f \in FileEntries, NEW g \in FileEntries PROVE Overlay(f, g) \in FileEntries
<1>1. DOMAIN f \cup DOMAIN g \in SUBSET MachineConfigs
  BY IsFileEntries
<1>2. Overlay(f, g) \in [DOMAIN f \cup DOMAIN g -> {"restart", "reboot"}]
  BY IsFileEntries DEF Overlay
<1> QED
  BY <1>1, <1>2, IsFileEntries

LEMMA RestrictionOK ==
    ASSUME NEW f \in FileEntries, NEW K \in SUBSET DOMAIN f PROVE [k \in K |-> f[k]] \in FileEntries
<1>1. K \in SUBSET MachineConfigs
  BY IsFileEntries
<1>2. [k \in K |-> f[k]] \in [K -> {"restart", "reboot"}]
  BY IsFileEntries
<1> QED
  BY <1>1, <1>2, IsFileEntries

LEMMA AggregateOK ==
    ASSUME NEW c, release \in {1, 2}
    PROVE  /\ AggregateIn(c).files = [k \in ActiveIn(c) |-> "restart"]
           /\ AggregateIn(c).files \in FileEntries
           /\ ActiveIn(c) \subseteq MachineConfigs
<1>1. AggregateIn(c).files = [k \in ActiveIn(c) |-> "restart"]
  <2>1. AggregateIn(c) = RestartEntries(ActiveIn(c))
    <3>1. AggregateIn(c) = RestartEntries({m \in Range(Dependents) : Active(c, m)})
      BY AggregateIs
    <3> QED
      BY <3>1, Zenon DEF ActiveIn
  <2>2. RestartEntries(ActiveIn(c)).files = [k \in ActiveIn(c) |-> "restart"]
    BY DEF RestartEntries
  <2> QED
    BY <2>1, <2>2
<1>2. Range(Dependents) \subseteq MachineConfigs
  BY DEF Range, Dependents, MachineConfigs
<1>3. ActiveIn(c) \in SUBSET MachineConfigs
  BY <1>2 DEF ActiveIn
<1>4. [k \in ActiveIn(c) |-> "restart"] \in [ActiveIn(c) -> {"restart", "reboot"}]
  OBVIOUS
<1> QED
  BY <1>1, <1>3, <1>4, IsFileEntries

LEMMA KeysOK == ASSUME NEW f \in FileEntries PROVE Keys(f) \subseteq MachineConfigs
  BY IsFileEntries DEF Keys

\* What is written to the singleton is a policy.
LEMMA ApplyFilesOK ==
    ASSUME WorldOK, NEW d \in FileEntries
    PROVE  ApplyFiles(cluster, d) \in
             [exists : BOOLEAN, labelled : BOOLEAN, unmanaged : BOOLEAN, ignore : {"none", "files", "bad"},
              spec : FileEntries, status : FileEntries, observed : BOOLEAN]
<1> DEFINE kept == {k \in DOMAIN cluster.spec : cluster.spec[k] = "reboot"}
           spec == Overlay(d, [k \in kept |-> cluster.spec[k]])
<1>1. cluster.spec \in FileEntries
  BY DEF WorldOK
<1>2. spec \in FileEntries
  BY <1>1, OverlayOK, RestrictionOK
<1>3. ApplyFiles(cluster, d) = [cluster EXCEPT !.exists = TRUE, !.labelled = TRUE, !.spec = spec,
                                               !.observed = @ /\ spec = cluster.spec]
  BY DEF ApplyFiles
<1> HIDE DEF spec
<1>4. (cluster.observed /\ spec = cluster.spec) \in BOOLEAN
  OBVIOUS
<1> QED
  BY <1>2, <1>3, <1>4 DEF WorldOK

LEMMA WorldTyped == ASSUME TypeInv, [Next]_vars PROVE WorldOK'
<1> DEFINE ClusterType == [exists : BOOLEAN, labelled : BOOLEAN, unmanaged : BOOLEAN,
                           ignore : {"none", "files", "bad"}, spec : FileEntries,
                           status : FileEntries, observed : BOOLEAN]
<1> USE DEF TypeInv
<1>0. ASSUME UNCHANGED world PROVE WorldOK'
  BY <1>0 DEF WorldOK, world
<1>1. ASSUME NEW x, NEW o \in {"absent", "unlabelled", "labelled"}, objects' = [objects EXCEPT ![x] = o],
             UNCHANGED <<release, hco, enabled, excluded, cluster, broken>>
      PROVE  WorldOK'
  BY <1>1 DEF WorldOK
<1>2. ASSUME cluster' \in ClusterType, UNCHANGED <<release, hco, enabled, excluded, objects, broken>>
      PROVE  WorldOK'
  BY <1>2 DEF WorldOK
<1>3. CASE \/ Begin \/ OrdinaryGet \/ BuildContext \/ StatusBefore \/ StatusAfter \/ RetiredBefore \/ SelectAssets
           \/ AggregatePolicy \/ CheckAsset \/ AssetsDone \/ Generation \/ RetiredAfter \/ RetiredGet \/ Abort
  BY <1>0, <1>3 DEF Begin, OrdinaryGet, BuildContext, StatusBefore, StatusAfter, ReadStatus, RetiredBefore, SelectAssets,
                    AggregatePolicy, CheckAsset, AssetsDone, Generation, RetiredAfter, RetiredGet, Abort
<1>4. CASE OrdinaryDelete \/ RetiredDelete
  BY <1>0, <1>1, <1>4 DEF OrdinaryDelete, RetiredDelete, TombstoneDelete
<1>5. CASE ReconcileHCO
  BY <1>5 DEF ReconcileHCO, WorldOK
<1>6. CASE ApplyPolicy
  <2>1. cluster' = ApplyFiles(cluster, desired) /\ UNCHANGED <<release, hco, enabled, excluded, objects, broken>>
    BY <1>6 DEF ApplyPolicy
  <2>2. ApplyFiles(cluster, desired) \in ClusterType
    BY ApplyFilesOK DEF LocalsInv, LocalsOK
  <2> QED
    BY <1>2, <2>1, <2>2
<1>7. CASE ApplyAsset
  <2>1. /\ UNCHANGED <<release, hco, enabled, excluded, cluster, broken>>
        /\ objects' = objects \/ objects' = [objects EXCEPT ![Head(todo)] = "labelled"]
    BY <1>7 DEF ApplyAsset
  <2> QED
    BY <1>0, <1>1, <2>1 DEF world
<1>8. CASE MCOSync
  <2>1. /\ cluster' = [cluster EXCEPT !.status = cluster.spec, !.observed = TRUE]
        /\ UNCHANGED <<release, hco, enabled, excluded, objects, broken>>
    BY <1>8 DEF MCOSync
  <2>2. cluster' \in ClusterType
    BY <2>1 DEF WorldOK
  <2> QED
    BY <1>2, <2>1, <2>2
<1>9. CASE UserChangesHCO
  <2>1. UNCHANGED <<release, objects, cluster, broken>>
    BY <1>9 DEF UserChangesHCO
  <2>2. enabled' \subseteq MachineConfigs /\ excluded' \subseteq {Dependent, "cluster"} /\ hco' \in {"present", "absent", "optedOut"}
    BY <1>9 DEF UserChangesHCO, WorldOK, MachineConfigs
  <2> QED
    BY <2>1, <2>2 DEF WorldOK
<1>10. CASE UserChangesObject
  <2>1. PICK x \in Touched, o \in {"absent", "unlabelled", "labelled"} : objects' = [objects EXCEPT ![x] = o]
    BY <1>10 DEF UserChangesObject
  <2> QED
    BY <1>1, <1>10, <2>1 DEF UserChangesObject
<1>11. CASE AdminOverrides
  <2>1. \/ cluster' = [cluster EXCEPT !.labelled = ~@]
        \/ cluster' = [cluster EXCEPT !.unmanaged = ~@]
        \/ \E i \in {"none", "files", "bad"} : cluster' = [cluster EXCEPT !.ignore = i]
    BY <1>11 DEF AdminOverrides
  <2>2. cluster' \in ClusterType
    BY <2>1 DEF WorldOK
  <2> QED
    BY <1>2, <1>11, <2>2 DEF AdminOverrides
<1>12. CASE AdminEntry
  <2> DEFINE Edited(m) == {Overlay([k \in {m} |-> "reboot"], cluster.spec),
                           [k \in DOMAIN cluster.spec \ {m} |-> cluster.spec[k]]}
  <2>0. PICK m \in MachineConfigs : \E f \in Edited(m) :
          cluster' = [cluster EXCEPT !.exists = TRUE, !.spec = f, !.observed = FALSE]
    BY <1>12 DEF AdminEntry
  <2>1. PICK f \in Edited(m) : cluster' = [cluster EXCEPT !.exists = TRUE, !.spec = f, !.observed = FALSE]
    BY <2>0
  <2>2. cluster.spec \in FileEntries
    BY DEF WorldOK
  <2>3. [k \in {m} |-> "reboot"] \in [{m} -> {"restart", "reboot"}] /\ {m} \in SUBSET MachineConfigs
    OBVIOUS
  <2>4. [k \in {m} |-> "reboot"] \in FileEntries
    BY <2>3, IsFileEntries
  <2>5. f \in FileEntries
    BY <2>1, <2>2, <2>4, OverlayOK, RestrictionOK
  <2>6. cluster' \in ClusterType
    BY <2>1, <2>5 DEF WorldOK
  <2> QED
    BY <1>2, <1>12, <2>6 DEF AdminEntry
<1>13. CASE Upgrade
  BY <1>13 DEF Upgrade, WorldOK
<1>14. CASE UNCHANGED vars
  BY <1>0, <1>14 DEF vars, world
<1> QED
  BY <1>3, <1>4, <1>5, <1>6, <1>7, <1>8, <1>9, <1>10, <1>11, <1>12, <1>13, <1>14 DEF Next, PassStep, OthersStep

\* Requests that leave the operator's own variables alone, or move on to a
\* request at which LocalsInv asks for nothing more than values.
LEMMA LocalsKept ==
    ASSUME LocalsInv, UNCHANGED <<release, pc, ctx, todo, failed, action, managed, desired, seen>>
    PROVE  LocalsInv'
  BY DEF LocalsInv, LocalsOK, ActiveIn, Active, Dependents

LEMMA ReturnTyped == ASSUME Return PROVE LocalsInv'
<1>1. /\ pc' = "idle" /\ todo' = <<>> /\ ctx' = [enabled |-> {}, excluded |-> {}]
      /\ failed' = FALSE /\ action' = FALSE /\ managed' = FALSE
  BY DEF Return
<1>2. desired' \in FileEntries /\ seen' \in FileEntries
  BY NoFilesOK DEF Return
<1>3. ctx' \in [enabled : SUBSET MachineConfigs, excluded : SUBSET {Dependent, "cluster"}]
  BY <1>1
<1>4. todo' \in Seq(MachineConfigs \cup {Plain}) /\ Len(todo') <= 3
  BY <1>1
<1> QED
  BY <1>1, <1>2, <1>3, <1>4 DEF LocalsInv, LocalsOK

LEMMA MovesOn ==
    ASSUME LocalsInv, UNCHANGED <<ctx, todo, failed, action, managed, desired>>, seen' \in FileEntries,
           pc' \in {"ordinaryGet", "ordinaryDelete", "hco", "context", "statusBefore", "retiredBefore", "select",
                    "aggregate", "asset", "generation", "statusAfter", "retiredAfter", "retiredGet", "retiredDelete"}
    PROVE  LocalsInv'
  BY DEF LocalsInv, LocalsOK

LEMMA AssetDoneTyped ==
    ASSUME LocalsInv, todo # <<>>, NEW e \in BOOLEAN, AssetDone(e) PROVE LocalsInv'
<1>1. Tail(todo) \in Seq(MachineConfigs \cup {Plain}) /\ Len(Tail(todo)) <= 3
  BY DEF LocalsInv, LocalsOK
<1> QED
  BY <1>1 DEF AssetDone, Goto, LocalsInv, LocalsOK

LEMMA SelectedOK ==
    ASSUME NEW e PROVE /\ Selected(e) \o <<Plain>> \in Seq(MachineConfigs \cup {Plain})
                       /\ Len(Selected(e) \o <<Plain>>) <= 3
<1> DEFINE T == MachineConfigs \cup {Plain}
           r == IF release = 1 /\ Retired \in e THEN <<Retired>> ELSE <<>>
           d == IF Dependent \in e THEN <<Dependent>> ELSE <<>>
<1>1. Retired \in T /\ Dependent \in T /\ Plain \in T
  BY DEF MachineConfigs
<1> HIDE DEF T
<1>2. r \in Seq(T) /\ Len(r) <= 1
  BY <1>1
<1>3. d \in Seq(T) /\ Len(d) <= 1
  BY <1>1
<1>4. Selected(e) = r \o d
  BY DEF Selected
<1>5. <<Plain>> \in Seq(T) /\ Len(<<Plain>>) = 1
  BY <1>1
<1> HIDE DEF r, d
<1>6. r \o d \in Seq(T) /\ Len(r \o d) = Len(r) + Len(d)
  BY <1>2, <1>3
<1>7. (r \o d) \o <<Plain>> \in Seq(T) /\ Len((r \o d) \o <<Plain>>) = Len(r) + Len(d) + 1
  BY <1>5, <1>6
<1>8. Len((r \o d) \o <<Plain>>) <= 3
  BY <1>2, <1>3, <1>7
<1> QED
  BY <1>4, <1>7, <1>8 DEF T

LEMMA LocalsTyped == ASSUME TypeInv, [Next]_vars PROVE LocalsInv'
<1> USE DEF TypeInv
<1>0. NoFiles \in FileEntries /\ cluster.status \in FileEntries /\ cluster.spec \in FileEntries /\ seen \in FileEntries
  BY NoFilesOK DEF WorldOK, LocalsInv, LocalsOK
<1>1. CASE Begin \/ OrdinaryGet \/ OrdinaryDelete \/ ReconcileHCO
  <2>1. /\ UNCHANGED <<ctx, todo, failed, action, managed, desired, seen>>
        /\ pc' \in {"ordinaryGet", "ordinaryDelete", "hco", "context"}
    BY <1>1 DEF Begin, OrdinaryGet, OrdinaryDelete, ReconcileHCO, Goto
  <2> QED
    BY <1>0, <2>1, MovesOn
<1>2. CASE BuildContext
  <2>1. CASE hco = "absent"
    BY <1>2, <2>1, ReturnTyped DEF BuildContext
  <2>2. CASE hco # "absent"
    BY <1>2, <2>2 DEF BuildContext, Goto, LocalsInv, LocalsOK, WorldOK
  <2> QED
    BY <2>1, <2>2
<1>3. CASE StatusBefore \/ StatusAfter \/ RetiredBefore
  <2>1. /\ UNCHANGED <<ctx, todo, failed, managed, desired>> /\ seen' \in FileEntries
        /\ action' = action \/ action' = Blocked
        /\ pc' \in {"retiredBefore", "retiredAfter", "select"}
    BY <1>0, <1>3 DEF StatusBefore, StatusAfter, ReadStatus, RetiredBefore, Goto
  <2>2. action' \in BOOLEAN
    BY <2>1, Zenon DEF LocalsInv, LocalsOK, Blocked
  <2> QED
    BY <2>1, <2>2 DEF LocalsInv, LocalsOK
<1>4. CASE RetiredAfter
  <2>1. CASE Blocked
    BY <1>4, <2>1, ReturnTyped DEF RetiredAfter
  <2>2. CASE ~Blocked
    BY <1>0, <1>4, <2>2, MovesOn DEF RetiredAfter, Goto
  <2> QED
    BY <2>1, <2>2
<1>5. CASE SelectAssets
  <2>1. /\ UNCHANGED <<failed, action, managed, desired, seen>> /\ pc' \in {"aggregate", "asset"}
        /\ ctx' = ctx \/ \E m \in ctx.enabled : ctx' = [ctx EXCEPT !.enabled = @ \ {m}]
        /\ todo' = Selected(ctx'.enabled) \o <<Plain>>
    BY <1>5 DEF SelectAssets, Goto
  <2>2. ctx' \in [enabled : SUBSET MachineConfigs, excluded : SUBSET {Dependent, "cluster"}]
    BY <2>1 DEF LocalsInv, LocalsOK
  <2>3. todo' \in Seq(MachineConfigs \cup {Plain}) /\ Len(todo') <= 3
    BY <2>1, SelectedOK
  <2> QED
    BY <2>1, <2>2, <2>3 DEF LocalsInv, LocalsOK
<1>6. CASE AggregatePolicy
  <2>1. CASE PolicyUntouched
    BY <1>0, <1>6, <2>1, MovesOn DEF AggregatePolicy, Goto
  <2>2. CASE ~PolicyUntouched /\ cluster.ignore # "bad"
    <3>1. /\ UNCHANGED <<ctx, todo, failed, action, seen>> /\ pc' = "applyPolicy" /\ release' = release
          /\ managed' = (cluster.ignore = "none")
          /\ desired' = IF cluster.ignore = "files" THEN cluster.spec ELSE AggregateIn(ctx).files
      BY <1>6, <2>2 DEF AggregatePolicy, Goto, world
    <3>2. AggregateIn(ctx).files = [k \in ActiveIn(ctx) |-> "restart"] /\ AggregateIn(ctx).files \in FileEntries
      BY AggregateOK DEF WorldOK
    <3>3. ActiveIn(ctx)' = ActiveIn(ctx)
      BY <3>1 DEF ActiveIn, Active, Dependents
    <3>4. desired' \in FileEntries /\ managed' \in BOOLEAN
      BY <1>0, <3>1, <3>2
    <3>5. managed' => desired' = [k \in ActiveIn(ctx)' |-> "restart"]
      BY <3>1, <3>2, <3>3
    <3>6. LocalsOK' /\ todo' \in Seq(MachineConfigs \cup {Plain})
      BY <3>1, <3>4 DEF LocalsInv, LocalsOK
    <3> QED
      BY <3>5, <3>6 DEF LocalsInv
  <2>3. CASE ~PolicyUntouched /\ cluster.ignore = "bad"
    BY <1>6, <2>3, ReturnTyped DEF AggregatePolicy
  <2> QED
    BY <2>1, <2>2, <2>3
<1>7. CASE ApplyPolicy
  <2>1. Return \/ (pc' = "asset" /\ desired' = NoFiles /\ UNCHANGED <<ctx, todo, failed, action, managed, seen>>)
    BY <1>7 DEF ApplyPolicy, Goto
  <2> QED
    BY <1>0, <2>1, ReturnTyped DEF LocalsInv, LocalsOK
<1>8. CASE CheckAsset
  <2>1. todo # <<>>
    BY <1>8 DEF CheckAsset
  <2>2. \/ AssetDone(FALSE) \/ AssetDone(TRUE)
        \/ pc' = "applyAsset" /\ UNCHANGED <<ctx, todo, failed, action, managed, desired, seen>>
    BY <1>8 DEF CheckAsset, Goto
  <2> QED
    BY <2>1, <2>2, AssetDoneTyped DEF LocalsInv, LocalsOK
<1>9. CASE ApplyAsset
  <2>1. todo # <<>> /\ (AssetDone(FALSE) \/ AssetDone(TRUE))
    BY <1>9 DEF ApplyAsset, LocalsInv, LocalsOK
  <2> QED
    BY <2>1, AssetDoneTyped
<1>10. CASE AssetsDone
  <2>1. \/ Return
        \/ pc' \in {"generation", "retiredGet"} /\ UNCHANGED <<ctx, todo, failed, action, managed, desired, seen>>
    BY <1>10 DEF AssetsDone, Goto
  <2> QED
    BY <1>0, <2>1, ReturnTyped, MovesOn
<1>11. CASE Generation \/ RetiredGet
  <2>1. \/ Return
        \/ pc' \in {"statusAfter", "retiredDelete"} /\ UNCHANGED <<ctx, todo, failed, action, managed, desired, seen>>
    BY <1>11 DEF Generation, RetiredGet, Goto
  <2> QED
    BY <1>0, <2>1, ReturnTyped, MovesOn
<1>12. CASE RetiredDelete \/ Abort \/ Upgrade
  BY <1>12, ReturnTyped DEF RetiredDelete, Abort, Upgrade
<1>13. CASE MCOSync \/ OthersStep \/ UNCHANGED vars
  <2>1. UNCHANGED <<release, pc, ctx, todo, failed, action, managed, desired, seen>>
    BY <1>13 DEF MCOSync, OthersStep, UserChangesHCO, UserChangesObject, AdminOverrides, AdminEntry, Elsewhere, locals, vars
  <2> QED
    BY <2>1, LocalsKept
<1> QED
  BY <1>1, <1>2, <1>3, <1>4, <1>5, <1>6, <1>7, <1>8, <1>9, <1>10, <1>11, <1>12, <1>13 DEF Next, PassStep

LEMMA HistoryTyped == ASSUME TypeInv, [Next]_vars PROVE HistoryOK'
<1> USE DEF TypeInv
<1>1. moves' \in 0 .. MaxMoves
  <2>1. moves' = moves \/ Disturb
    BY DEF Next, PassStep, OthersStep, vars, history, Begin, OrdinaryGet, OrdinaryDelete, ReconcileHCO, BuildContext,
           StatusBefore, StatusAfter, ReadStatus, RetiredBefore, SelectAssets, AggregatePolicy, ApplyPolicy, CheckAsset,
           ApplyAsset, AssetsDone, Generation, RetiredAfter, RetiredGet, RetiredDelete, TombstoneDelete, RequestFails,
           Works, MCOSync, UserChangesHCO, UserChangesObject, AdminOverrides, AdminEntry, Abort, Upgrade
  <2> QED
    BY <2>1, PlatformAssumption DEF Disturb, HistoryOK
<1>2. hot' \subseteq MachineConfigs /\ cold' \subseteq MachineConfigs /\ bare' \subseteq Objects
  <2>1. CASE Begin
    <3>1. Keys(cluster.status) \subseteq MachineConfigs
      BY KeysOK DEF WorldOK
    <3> QED
      BY <2>1, <3>1 DEF Begin
  <2>2. ASSUME NEW o, NEW s, Remember(o, s) PROVE hot' \subseteq hot /\ cold' \subseteq cold /\ bare' \subseteq bare
    BY <2>2 DEF Remember
  <2>3. \/ Begin \/ UNCHANGED <<hot, cold, bare>> \/ Return
        \/ Remember(objects', cluster.status) \/ Remember(objects', cluster'.status)
    BY DEF Next, PassStep, OthersStep, vars, history, KeepHistory, OrdinaryGet, OrdinaryDelete, ReconcileHCO, BuildContext,
           StatusBefore, StatusAfter, ReadStatus, RetiredBefore, SelectAssets, AggregatePolicy, ApplyPolicy, CheckAsset,
           ApplyAsset, AssetsDone, Generation, RetiredAfter, RetiredGet, RetiredDelete,
           MCOSync, UserChangesHCO, UserChangesObject, AdminOverrides, AdminEntry, Elsewhere, Abort, Upgrade
  <2>4. CASE Return
    BY <2>4 DEF Return
  <2> QED
    BY <2>1, <2>2, <2>3, <2>4 DEF HistoryOK
<1> QED
  BY <1>1, <1>2 DEF HistoryOK

LEMMA TypeInvariant == Spec => []TypeInv
<1>1. Init => TypeInv
  <2> SUFFICES ASSUME Init PROVE TypeInv
    OBVIOUS
  <2>1. cluster \in [exists : BOOLEAN, labelled : BOOLEAN, unmanaged : BOOLEAN, ignore : {"none", "files", "bad"},
                     spec : FileEntries, status : FileEntries, observed : BOOLEAN]
    BY NoFilesOK DEF Init, NoCluster
  <2>2. broken \subseteq Objects
    BY DEF Init, Objects, MachineConfigs
  <2>3. objects \in [Objects -> {"absent", "unlabelled", "labelled"}]
    BY DEF Init
  <2>4. WorldOK
    BY <2>1, <2>2, <2>3 DEF Init, WorldOK
  <2>5. LocalsInv
    <3>1. /\ pc = "idle" /\ todo = <<>> /\ ctx = [enabled |-> {}, excluded |-> {}]
          /\ failed = FALSE /\ action = FALSE /\ managed = FALSE
      BY DEF Init
    <3>2. desired \in FileEntries /\ seen \in FileEntries
      BY NoFilesOK DEF Init
    <3>3. ctx \in [enabled : SUBSET MachineConfigs, excluded : SUBSET {Dependent, "cluster"}]
      BY <3>1
    <3>4. todo \in Seq(MachineConfigs \cup {Plain}) /\ Len(todo) <= 3
      BY <3>1
    <3> QED
      BY <3>1, <3>2, <3>3, <3>4 DEF LocalsInv, LocalsOK
  <2>6. HistoryOK
    BY PlatformAssumption DEF Init, HistoryOK
  <2> QED
    BY <2>4, <2>5, <2>6 DEF TypeInv
<1>2. TypeInv /\ [Next]_vars => TypeInv'
  BY WorldTyped, LocalsTyped, HistoryTyped DEF TypeInv
<1> QED
  BY <1>1, <1>2, PTL DEF Spec

-----------------------------------------------------------------------------
(* Theorems *)

\* No tombstone deletes an object that carried the label at no time of the pass.
THEOREM ForeignObjectsAlwaysSurvive == Spec => ForeignObjectsSurvive
<1> DEFINE Survive == (OrdinaryDelete \/ RetiredDelete) =>
                        \A x \in Objects : objects[x] # "absent" /\ objects'[x] = "absent" => x \notin bare
<1>1. PassInv /\ [Next]_vars => Survive
  <2> SUFFICES ASSUME PassInv, OrdinaryDelete \/ RetiredDelete, NEW x \in Objects,
                      objects[x] # "absent", objects'[x] = "absent"
               PROVE  x \notin bare
    OBVIOUS
  <2>1. objects' # objects
    OBVIOUS
  <2>2. CASE OrdinaryDelete
    <3>1. pc = "ordinaryDelete" /\ objects' = [objects EXCEPT ![Ordinary] = "absent"]
      BY <2>1, <2>2 DEF OrdinaryDelete, TombstoneDelete, world
    <3>2. x = Ordinary
      BY <3>1 DEF PassInv, WorldInv
    <3> QED
      BY <3>1, <3>2 DEF PassInv, PcInv
  <2>3. CASE RetiredDelete
    <3>1. pc = "retiredDelete" /\ objects' = [objects EXCEPT ![Retired] = "absent"]
      BY <2>1, <2>3 DEF RetiredDelete, TombstoneDelete, world
    <3>2. x = Retired
      BY <3>1 DEF PassInv, WorldInv
    <3> QED
      BY <3>1, <3>2 DEF PassInv, PcInv
  <2> QED
    BY <2>2, <2>3
<1> QED
  BY <1>1, PassInvariant, PTL DEF Spec, ForeignObjectsSurvive

\* No MachineConfig is deleted in a pass all through which an action applied to it.
THEOREM EffectiveActionAlwaysHoldsDeletion == Spec => EffectiveActionHoldsDeletion
<1> DEFINE Holds == RetiredDelete /\ objects' # objects => Retired \notin hot
<1>1. PassInv /\ [Next]_vars => Holds
  BY DEF PassInv, PcInv, RetiredDelete
<1> QED
  BY <1>1, PassInvariant, PTL DEF Spec, EffectiveActionHoldsDeletion

\* No dependent is applied in a pass all through which its policy was not effective.
THEOREM DependentsAlwaysWait == Spec => DependentsWaitForPolicy
<1> DEFINE Wait == ApplyAsset => Head(todo) \notin cold
<1>1. PassInv /\ [Next]_vars => Wait
  BY DEF PassInv, PcInv, ApplyAsset
<1> QED
  BY <1>1, PassInvariant, PTL DEF Spec, DependentsWaitForPolicy

\* The variables keep their values' ranges, and an asset is applied only while one
\* is at hand: the loop over assetsToReconcile never reads past its end, whatever
\* fails or changes in between (patcher.go lines 600-646).
THEOREM PlatformTypeCorrect == Spec => []PlatformTypeOK
<1>1. TypeInv => PlatformTypeOK
  BY DEF TypeInv, LocalsInv, PlatformTypeOK
<1> QED
  BY <1>1, TypeInvariant, PTL

\* A policy that the operator manages ends up, at every single write, with exactly
\* the entries of the dependents that were active in the pass's context; all its
\* older entries go, and an administrator's entry stays unless it is of the file of
\* an active dependent (node_disruption_policy.go lines 50-112 and 182-247).
WritesAggregate ==
    [][ApplyPolicy /\ managed =>
         /\ {k \in DOMAIN cluster'.spec : cluster'.spec[k] = "restart"} = ActiveIn(ctx)
         /\ \A k \in DOMAIN cluster.spec \ ActiveIn(ctx) :
              k \in DOMAIN cluster'.spec <=> cluster.spec[k] = "reboot"]_vars

\* Every write of a managed policy leaves the aggregate there, and the administrators'
\* other entries.
THEOREM ManagedPolicyIsTheAggregate == Spec => WritesAggregate
<1> DEFINE Writes == ApplyPolicy /\ managed =>
             /\ {k \in DOMAIN cluster'.spec : cluster'.spec[k] = "restart"} = ActiveIn(ctx)
             /\ \A k \in DOMAIN cluster.spec \ ActiveIn(ctx) :
                  k \in DOMAIN cluster'.spec <=> cluster.spec[k] = "reboot"
<1>1. TypeInv /\ [Next]_vars => Writes
  <2> SUFFICES ASSUME TypeInv, ApplyPolicy, managed
               PROVE  /\ {k \in DOMAIN cluster'.spec : cluster'.spec[k] = "restart"} = ActiveIn(ctx)
                      /\ \A k \in DOMAIN cluster.spec \ ActiveIn(ctx) :
                           k \in DOMAIN cluster'.spec <=> cluster.spec[k] = "reboot"
    OBVIOUS
  <2> DEFINE kept == {k \in DOMAIN cluster.spec : cluster.spec[k] = "reboot"}
             rest == [k \in kept |-> cluster.spec[k]]
  <2>1. desired = [k \in ActiveIn(ctx) |-> "restart"]
    BY DEF TypeInv, LocalsInv, ApplyPolicy
  <2>2. cluster' = [cluster EXCEPT !.exists = TRUE, !.labelled = TRUE, !.spec = Overlay(desired, rest),
                                   !.observed = @ /\ Overlay(desired, rest) = cluster.spec]
    BY DEF ApplyPolicy, ApplyFiles
  <2> HIDE DEF rest
  <2>3. cluster'.spec = Overlay(desired, rest)
    BY <2>2 DEF TypeInv, WorldOK
  <2>4. Overlay(desired, rest) = [k \in ActiveIn(ctx) \cup kept |-> IF k \in ActiveIn(ctx) THEN "restart" ELSE "reboot"]
    BY <2>1 DEF Overlay, rest
  <2> QED
    BY <2>3, <2>4
<1> QED
  BY <1>1, TypeInvariant, PTL DEF Spec, WritesAggregate
-----------------------------------------------------------------------------
(* Rest: everything is as the release wants it.  That passes bring the       *)
(* cluster there is a liveness property and is model-checked; that they      *)
(* leave it there, whatever pass is under way, is proved.                    *)

\* The HCO lets the operator manage the singleton, which has the entries of the
\* active dependents; every asset that can be written is there, and no tombstoned
\* object that can be deleted.
WorldAtRest ==
    /\ hco = "present"
    /\ "cluster" \notin excluded /\ ~cluster.unmanaged /\ cluster.ignore = "none"
    /\ OperatorEntries = ActiveDependents
    /\ \A x \in (ActiveDependents \cup {Plain}) \ broken : objects[x] = "labelled"
    /\ release = 2 => objects[Retired] # "labelled"
    /\ objects[Ordinary] # "labelled" \/ Ordinary \in broken

AfterContext == pc \notin {"idle", "ordinaryGet", "ordinaryDelete", "hco", "context"}

AtAssets == pc \in {"aggregate", "applyPolicy", "asset", "applyAsset"}

\* The pass under way read the world as it is, and is about to undo none of it.
PassAtRest ==
    /\ AfterContext => ctx = [enabled |-> enabled, excluded |-> excluded]
    /\ AtAssets => \A i \in 1 .. Len(todo) : todo[i] \in (enabled \cap Range(Dependents)) \cup {Plain}
    /\ pc = "applyPolicy" => managed
    /\ pc = "applyAsset" => Head(todo) \notin excluded
    /\ pc = "ordinaryDelete" => Ordinary \in broken
    /\ pc # "retiredDelete"

PlatformAtRest == WorldAtRest /\ PassAtRest

\* At rest no pass of the operator changes anything as long as nobody else does: not
\* an object, and not the policy, so MCO is given no new generation and no node is
\* disrupted (platform_controller.go lines 137-264, node_disruption_policy.go lines
\* 41-112, patcher.go lines 600-646).
PlatformRestIsKept ==
    [][PlatformAtRest /\ moves' = moves /\ release' = release =>
         /\ PlatformAtRest'
         /\ UNCHANGED <<objects, hco, enabled, excluded>>
         /\ cluster'.spec = cluster.spec /\ (cluster.observed => cluster'.observed)]_vars

\* What stays of the world in a step at rest.
WorldStays ==
    /\ UNCHANGED <<release, hco, enabled, excluded, objects, broken>>
    /\ cluster'.unmanaged = cluster.unmanaged /\ cluster'.ignore = cluster.ignore
    /\ cluster'.spec = cluster.spec /\ (cluster.observed => cluster'.observed)

LEMMA WorldRests == ASSUME WorldAtRest, WorldStays PROVE WorldAtRest'
  BY DEF WorldAtRest, WorldStays, OperatorEntries, ActiveDependents, Dependents

LEMMA SameWorld == ASSUME UNCHANGED world PROVE WorldStays
  BY DEF world, WorldStays

\* A step that leaves disturbances and the release alone is one of the passes or
\* of MCO.
LEMMA CalmPlatform ==
    ASSUME TypeInv, Next, moves' = moves, release' = release PROVE PassStep \/ MCOSync
<1>1. moves \in Nat /\ release \in {1, 2}
  BY PlatformAssumption DEF TypeInv, HistoryOK, WorldOK
<1>2. ~Disturb
  BY <1>1 DEF Disturb
<1>3. ~Upgrade
  BY <1>1 DEF Upgrade
<1> QED
  BY <1>2, <1>3 DEF Next, OthersStep, UserChangesHCO, UserChangesObject, AdminOverrides, AdminEntry, Abort

\* Applying the aggregate once more changes neither the policy nor its generation.
LEMMA ApplyAtRest ==
    ASSUME TypeInv, WorldAtRest, PassAtRest, pc = "applyPolicy", cluster' = ApplyFiles(cluster, desired)
    PROVE  /\ cluster'.unmanaged = cluster.unmanaged /\ cluster'.ignore = cluster.ignore
           /\ cluster'.spec = cluster.spec /\ (cluster.observed => cluster'.observed)
<1> DEFINE kept == {k \in DOMAIN cluster.spec : cluster.spec[k] = "reboot"}
           rest == [k \in kept |-> cluster.spec[k]]
           new  == Overlay(desired, rest)
<1>1. ActiveIn(ctx) = ActiveDependents
  <2>1. ctx = [enabled |-> enabled, excluded |-> excluded]
    BY DEF PassAtRest, AfterContext
  <2>2. ctx.enabled = enabled /\ ctx.excluded = excluded
    BY <2>1
  <2> QED
    BY <2>2 DEF ActiveIn, Active, ActiveDependents
<1>2. desired = [k \in OperatorEntries |-> "restart"]
  BY <1>1 DEF TypeInv, LocalsInv, PassAtRest, WorldAtRest
<1>3. cluster.spec \in FileEntries
  BY DEF TypeInv, WorldOK
<1>4. cluster.spec \in [DOMAIN cluster.spec -> {"restart", "reboot"}]
  BY <1>3, IsFileEntries
<1>5. new = [k \in OperatorEntries \cup kept |-> IF k \in OperatorEntries THEN "restart" ELSE cluster.spec[k]]
  BY <1>2 DEF Overlay
<1>6. new = cluster.spec
  <2>1. OperatorEntries \cup kept = DOMAIN cluster.spec
    BY <1>4 DEF OperatorEntries
  <2>2. \A k \in DOMAIN cluster.spec : new[k] = cluster.spec[k]
    BY <1>5, <2>1 DEF OperatorEntries
  <2> QED
    BY <1>4, <1>5, <2>1, <2>2
<1>7. cluster' = [cluster EXCEPT !.exists = TRUE, !.labelled = TRUE, !.spec = new,
                                 !.observed = @ /\ new = cluster.spec]
  BY DEF ApplyFiles
<1> HIDE DEF new
<1> QED
  BY <1>6, <1>7 DEF TypeInv, WorldOK

\* A pass that ends is at rest.
LEMMA EndsAtRest == ASSUME Return PROVE PassAtRest'
  BY DEF Return, PassAtRest, AfterContext, AtAssets

\* A pass that goes on to a request other than those about assets and deletions.
LEMMA GoesOnAtRest ==
    ASSUME PassAtRest, WorldStays, ctx' = ctx, AfterContext' => AfterContext,
           pc' \notin {"aggregate", "applyPolicy", "asset", "applyAsset", "ordinaryDelete", "retiredDelete"}
    PROVE  PassAtRest'
  BY DEF PassAtRest, WorldStays, AfterContext, AtAssets

\* A pass that goes on among the assets.
LEMMA AssetsAtRest ==
    ASSUME PassAtRest, WorldStays, ctx' = ctx, AfterContext, pc' \in {"aggregate", "asset"},
           \A i \in 1 .. Len(todo') : todo'[i] \in (enabled \cap Range(Dependents)) \cup {Plain}
    PROVE  PassAtRest'
<1>1. Dependents' = Dependents
  BY DEF WorldStays, Dependents
<1> QED
  BY <1>1 DEF PassAtRest, WorldStays, AfterContext, AtAssets

\* The requests before the assets.
LEMMA EarlyAtRest ==
    ASSUME TypeInv, PlatformAtRest, moves' = moves,
           Begin \/ OrdinaryGet \/ OrdinaryDelete \/ ReconcileHCO \/ BuildContext \/ StatusBefore \/ RetiredBefore
    PROVE  WorldStays /\ PassAtRest'
<1> USE DEF PlatformAtRest
<1>1. ~Disturb
  BY PlatformAssumption DEF TypeInv, HistoryOK, Disturb
<1>2. CASE Begin
  <2>1. WorldStays
    BY <1>2, SameWorld DEF Begin
  <2> QED
    BY <1>2, <2>1, GoesOnAtRest DEF Begin, Goto, AfterContext
<1>3. CASE OrdinaryGet
  <2>1. WorldStays
    BY <1>3, SameWorld DEF OrdinaryGet
  <2>2. pc' = "hco"
    BY <1>1, <1>3 DEF OrdinaryGet, Works, RequestFails, Deletable, Goto, WorldAtRest
  <2> QED
    BY <1>3, <2>1, <2>2, GoesOnAtRest DEF OrdinaryGet, AfterContext
<1>4. CASE OrdinaryDelete
  <2>1. WorldStays
    BY <1>1, <1>4, SameWorld DEF OrdinaryDelete, TombstoneDelete, Works, RequestFails, PassAtRest
  <2> QED
    BY <1>4, <2>1, GoesOnAtRest DEF OrdinaryDelete, Goto, AfterContext
<1>5. CASE ReconcileHCO
  <2>1. WorldStays
    BY <1>5 DEF ReconcileHCO, WorldAtRest, WorldStays
  <2> QED
    BY <1>5, <2>1, GoesOnAtRest DEF ReconcileHCO, Goto, AfterContext
<1>6. CASE BuildContext
  <2>1. WorldStays
    BY <1>6, SameWorld DEF BuildContext
  <2>2. ctx' = [enabled |-> enabled', excluded |-> excluded'] /\ pc' = "statusBefore"
    BY <1>6, <2>1 DEF BuildContext, WorldAtRest, WorldStays, Goto
  <2> QED
    BY <2>1, <2>2 DEF PassAtRest, AtAssets
<1>7. CASE StatusBefore \/ RetiredBefore
  <2>1. WorldStays
    BY <1>7, SameWorld DEF StatusBefore, ReadStatus, RetiredBefore
  <2> QED
    BY <1>7, <2>1, GoesOnAtRest DEF StatusBefore, ReadStatus, RetiredBefore, Goto, AfterContext
<1> QED
  BY <1>2, <1>3, <1>4, <1>5, <1>6, <1>7

\* The MachineConfigs selected are dependents of the release.
LEMMA SelectedDependents ==
    ASSUME release \in {1, 2}, NEW e
    PROVE  \A i \in 1 .. Len(Selected(e) \o <<Plain>>) :
             (Selected(e) \o <<Plain>>)[i] \in (e \cap Range(Dependents)) \cup {Plain}
<1>1. Dependent \in Range(Dependents) /\ (release = 1 => Retired \in Range(Dependents))
  <2>1. CASE release = 1
    <3>1. Dependents = <<Retired, Dependent>>
      BY <2>1 DEF Dependents
    <3> QED
      BY <3>1 DEF Range
  <2>2. CASE release = 2
    <3>1. Dependents = <<Dependent>>
      BY <2>2 DEF Dependents
    <3> QED
      BY <2>2, <3>1 DEF Range
  <2> QED
    BY <2>1, <2>2
<1> DEFINE T == (e \cap Range(Dependents)) \cup {Plain}
           r == IF release = 1 /\ Retired \in e THEN <<Retired>> ELSE <<>>
           d == IF Dependent \in e THEN <<Dependent>> ELSE <<>>
<1>2. /\ release = 1 /\ Retired \in e => Retired \in T
      /\ Dependent \in e => Dependent \in T
      /\ Plain \in T
  BY <1>1
<1> HIDE DEF T
<1>3. r \in Seq(T) /\ d \in Seq(T) /\ <<Plain>> \in Seq(T)
  BY <1>2
<1>4. Selected(e) = r \o d
  BY DEF Selected
<1> HIDE DEF r, d
<1>5. (r \o d) \o <<Plain>> \in Seq(T)
  BY <1>3
<1>6. \A i \in 1 .. Len((r \o d) \o <<Plain>>) : ((r \o d) \o <<Plain>>)[i] \in T
  BY <1>5
<1> QED
  BY <1>4, <1>6 DEF T

\* The requests about the policy.
LEMMA PolicyAtRest ==
    ASSUME TypeInv, PlatformAtRest, moves' = moves, SelectAssets \/ AggregatePolicy \/ ApplyPolicy
    PROVE  WorldStays /\ PassAtRest'
<1> USE DEF PlatformAtRest
<1>1. ~Disturb
  BY PlatformAssumption DEF TypeInv, HistoryOK, Disturb
<1>2. CASE SelectAssets
  <2>1. WorldStays
    BY <1>2, SameWorld DEF SelectAssets
  <2>2. ctx' = ctx /\ pc' = "aggregate" /\ AfterContext
    BY <1>1, <1>2 DEF SelectAssets, Goto, AfterContext
  <2>3. todo' = Selected(enabled) \o <<Plain>>
    BY <1>2, <2>2 DEF SelectAssets, PassAtRest
  <2>4. \A i \in 1 .. Len(todo') : todo'[i] \in (enabled \cap Range(Dependents)) \cup {Plain}
    BY <2>3, SelectedDependents DEF TypeInv, WorldOK
  <2> QED
    BY <2>1, <2>2, <2>4, AssetsAtRest
<1>3. CASE AggregatePolicy
  <2>1. WorldStays
    BY <1>3, SameWorld DEF AggregatePolicy
  <2>2. pc = "aggregate" /\ cluster.ignore = "none" /\ AfterContext
    BY <1>3 DEF AggregatePolicy, WorldAtRest, AfterContext
  <2>3. CASE pc' = "asset"
    BY <1>3, <2>1, <2>2, <2>3, AssetsAtRest DEF AggregatePolicy, PassAtRest, AtAssets, Goto
  <2>4. CASE pc' = "applyPolicy" /\ managed' /\ ctx' = ctx /\ todo' = todo
    <3>1. Dependents' = Dependents
      BY <2>1 DEF WorldStays, Dependents
    <3> QED
      BY <2>1, <2>2, <2>4, <3>1 DEF PassAtRest, WorldStays, AfterContext, AtAssets
  <2> QED
    BY <1>3, <2>2, <2>3, <2>4 DEF AggregatePolicy, Goto
<1>4. CASE ApplyPolicy
  <2>1. WorldStays
    BY <1>4, ApplyAtRest DEF ApplyPolicy, WorldStays
  <2>2. pc = "applyPolicy" /\ pc' = "asset" /\ ctx' = ctx /\ todo' = todo
    BY <1>1, <1>4 DEF ApplyPolicy, Goto
  <2> QED
    BY <2>1, <2>2, AssetsAtRest DEF PassAtRest, AtAssets, AfterContext
<1> QED
  BY <1>2, <1>3, <1>4

\* The first asset is done with.
LEMMA AssetDoneAtRest ==
    ASSUME TypeInv, PassAtRest, WorldStays, AtAssets, todo # <<>>, NEW e, AssetDone(e)
    PROVE  PassAtRest'
<1>1. todo' = Tail(todo) /\ pc' = "asset" /\ ctx' = ctx /\ AfterContext
  BY DEF AssetDone, Goto, AtAssets, AfterContext
<1>2. \A i \in 1 .. Len(Tail(todo)) : Tail(todo)[i] = todo[i + 1] /\ i + 1 \in 1 .. Len(todo)
  BY DEF TypeInv, LocalsInv
<1>3. \A i \in 1 .. Len(todo') : todo'[i] \in (enabled \cap Range(Dependents)) \cup {Plain}
  BY <1>1, <1>2 DEF PassAtRest
<1> QED
  BY <1>1, <1>3, AssetsAtRest

\* The loop over the assets.
LEMMA LoopAtRest ==
    ASSUME TypeInv, PlatformAtRest, moves' = moves, CheckAsset \/ ApplyAsset \/ AssetsDone
    PROVE  WorldStays /\ PassAtRest'
<1> USE DEF PlatformAtRest
<1>1. ~Disturb
  BY PlatformAssumption DEF TypeInv, HistoryOK, Disturb
<1>2. CASE CheckAsset
  <2>1. WorldStays
    BY <1>2, SameWorld DEF CheckAsset
  <2>2. AtAssets /\ AfterContext /\ todo # <<>> /\ ctx.excluded = excluded
    BY <1>2 DEF CheckAsset, AtAssets, AfterContext, PassAtRest
  <2>3. CASE \E e : AssetDone(e)
    BY <2>1, <2>2, <2>3, AssetDoneAtRest
  <2>4. CASE pc' = "applyAsset" /\ ctx' = ctx /\ todo' = todo /\ Head(todo) \notin ctx.excluded
    <3>1. Dependents' = Dependents
      BY <2>1 DEF WorldStays, Dependents
    <3> QED
      BY <2>1, <2>2, <2>4, <3>1 DEF PassAtRest, WorldStays, AfterContext, AtAssets
  <2> QED
    BY <1>1, <1>2, <2>3, <2>4 DEF CheckAsset, Goto
<1>3. CASE ApplyAsset
  <2> DEFINE x == Head(todo)
  <2>1. AtAssets /\ todo # <<>> /\ todo \in Seq(MachineConfigs \cup {Plain})
    BY <1>3 DEF ApplyAsset, AtAssets, TypeInv, LocalsInv, LocalsOK
  <2>2. 1 \in 1 .. Len(todo) /\ x = todo[1]
    BY <2>1
  <2>3. x \in (enabled \cap Range(Dependents)) \cup {Plain} /\ x \notin excluded
    BY <1>3, <2>1, <2>2 DEF PassAtRest, ApplyAsset
  <2> HIDE DEF x
  <2>4. x \in ActiveDependents \cup {Plain}
    BY <2>3 DEF ActiveDependents
  <2>5. objects' = objects
    <3>1. CASE Works(x) /\ objects' = [objects EXCEPT ![x] = "labelled"]
      <4>1. objects[x] = "labelled"
        BY <2>4, <3>1 DEF Works, WorldAtRest
      <4> QED
        BY <3>1, <4>1 DEF TypeInv, WorldOK
    <3> QED
      BY <1>3, <3>1 DEF ApplyAsset, x
  <2>6. WorldStays
    BY <1>3, <2>5 DEF ApplyAsset, WorldStays
  <2>7. \E e : AssetDone(e)
    BY <1>3 DEF ApplyAsset
  <2> QED
    BY <2>1, <2>6, <2>7, AssetDoneAtRest
<1>4. CASE AssetsDone
  <2>1. WorldStays
    BY <1>4, SameWorld DEF AssetsDone
  <2>2. CASE Return
    BY <2>1, <2>2, EndsAtRest
  <2>3. CASE pc' \in {"generation", "retiredGet"} /\ ctx' = ctx
    BY <1>4, <2>1, <2>3, GoesOnAtRest DEF AssetsDone, AfterContext
  <2> QED
    BY <1>4, <2>2, <2>3 DEF AssetsDone, Goto
<1> QED
  BY <1>2, <1>3, <1>4

\* The barrier and the tombstones of MachineConfigs, and MCO.
LEMMA LateAtRest ==
    ASSUME TypeInv, PlatformAtRest, moves' = moves,
           Generation \/ StatusAfter \/ RetiredAfter \/ RetiredGet \/ RetiredDelete \/ MCOSync
    PROVE  WorldStays /\ PassAtRest'
<1> USE DEF PlatformAtRest
<1>1. CASE Generation \/ StatusAfter \/ RetiredAfter
  <2>1. WorldStays
    BY <1>1, SameWorld DEF Generation, StatusAfter, ReadStatus, RetiredAfter
  <2>2. CASE Return
    BY <2>1, <2>2, EndsAtRest
  <2>3. CASE pc' \in {"statusAfter", "retiredAfter", "retiredGet"} /\ ctx' = ctx
    BY <1>1, <2>1, <2>3, GoesOnAtRest DEF Generation, StatusAfter, ReadStatus, RetiredAfter, AfterContext
  <2> QED
    BY <1>1, <2>2, <2>3 DEF Generation, StatusAfter, ReadStatus, RetiredAfter, Goto
<1>2. CASE RetiredGet
  <2>1. WorldStays
    BY <1>2, SameWorld DEF RetiredGet
  <2>2. Return
    BY <1>2 DEF RetiredGet, Tombstoned, Deletable, WorldAtRest
  <2> QED
    BY <2>1, <2>2, EndsAtRest
<1>3. ~RetiredDelete
  BY DEF RetiredDelete, PassAtRest
<1>4. CASE MCOSync
  <2>1. WorldStays
    BY <1>4 DEF MCOSync, WorldStays, TypeInv, WorldOK
  <2>2. UNCHANGED <<pc, ctx, todo, managed>> /\ Dependents' = Dependents
    BY <1>4 DEF MCOSync, Elsewhere, locals, Dependents
  <2> QED
    BY <2>1, <2>2 DEF PassAtRest, WorldStays, AfterContext, AtAssets
<1> QED
  BY <1>1, <1>2, <1>3, <1>4

LEMMA StepAtRest ==
    ASSUME TypeInv, [Next]_vars, PlatformAtRest, moves' = moves, release' = release
    PROVE  PlatformAtRest' /\ WorldStays
<1>1. CASE UNCHANGED vars
  <2>1. WorldStays
    BY <1>1 DEF vars, WorldStays
  <2>2. PassAtRest'
    BY <1>1 DEF vars, PlatformAtRest, PassAtRest, AfterContext, AtAssets, Dependents
  <2> QED
    BY <2>1, <2>2, WorldRests DEF PlatformAtRest
<1>2. CASE Next
  <2>1. PassStep \/ MCOSync
    BY <1>2, CalmPlatform
  <2>2. WorldStays /\ PassAtRest'
    BY <2>1, EarlyAtRest, PolicyAtRest, LoopAtRest, LateAtRest DEF PassStep
  <2> QED
    BY <2>2, WorldRests DEF PlatformAtRest
<1> QED
  BY <1>1, <1>2

\* Rest lasts until somebody disturbs it, and passes write nothing in it.
THEOREM PlatformRestKept == Spec => PlatformRestIsKept
<1> DEFINE Stays == PlatformAtRest /\ moves' = moves /\ release' = release =>
             /\ PlatformAtRest'
             /\ UNCHANGED <<objects, hco, enabled, excluded>>
             /\ cluster'.spec = cluster.spec /\ (cluster.observed => cluster'.observed)
<1>1. TypeInv /\ [Next]_vars => Stays
  BY StepAtRest DEF WorldStays
<1> QED
  BY <1>1, TypeInvariant, PTL DEF Spec, PlatformRestIsKept

PolicyIsAggregate ==
    hco = "present" /\ ~PolicyHeld /\ ~Disowned => OperatorEntries = ActiveDependents

AssetsApplied ==
    hco = "present" /\ ~PolicyHeld =>
      \A x \in (ActiveDependents \cup {Plain}) \ broken : objects[x] = "labelled"

TombstonesCleared ==
    release = 2 /\ hco = "present" /\ ~PolicyHeld /\ broken \subseteq {Ordinary}
      /\ Retired \notin DOMAIN cluster.spec \ OperatorEntries => objects[Retired] # "labelled"

\* What is left of the three convergence properties for the model checker, as long as
\* the HCO is there and administrators leave the singleton to the operator, is only
\* that rest is reached once disturbances and releases have come to an end.
THEOREM PlatformRestIsConvergence ==
    Spec /\ <>(PlatformAtRest /\ [][moves' = moves /\ release' = release]_vars)
      => PolicyBecomesAggregate /\ AssetsAreApplied /\ TombstonesAreCleared
<1> DEFINE Calm == moves' = moves /\ release' = release
<1>1. TypeInv /\ [Next]_vars /\ [Calm]_vars /\ PlatformAtRest => PlatformAtRest'
  <2>1. [Calm]_vars => Calm
    BY DEF vars
  <2> QED
    BY <2>1, StepAtRest
<1>2. PlatformAtRest => PolicyIsAggregate
  BY DEF PlatformAtRest, WorldAtRest, PolicyIsAggregate
<1>3. PlatformAtRest => AssetsApplied
  BY DEF PlatformAtRest, WorldAtRest, AssetsApplied
<1>4. PlatformAtRest => TombstonesCleared
  BY DEF PlatformAtRest, WorldAtRest, TombstonesCleared
<1>5. <>[]PolicyIsAggregate => PolicyBecomesAggregate
  BY PTL DEF PolicyBecomesAggregate, PolicyIsAggregate
<1>6. <>[]AssetsApplied => AssetsAreApplied
  BY PTL DEF AssetsAreApplied, AssetsApplied
<1>7. <>[]TombstonesCleared => TombstonesAreCleared
  BY PTL DEF TombstonesAreCleared, TombstonesCleared
<1>8. Spec /\ <>(PlatformAtRest /\ [][Calm]_vars) => <>[]PlatformAtRest
  BY <1>1, TypeInvariant, PTL DEF Spec
<1> QED
  BY <1>2, <1>3, <1>4, <1>5, <1>6, <1>7, <1>8, PTL
=============================================================================
