-------------------------- MODULE PolicyAggregate ---------------------------
(***************************************************************************)
(* nodeDisruptionPolicyAggregateEntries as the loop it is: the policies of *)
(* the dependent MachineConfigs are merged one by one, in any order, for   *)
(* the assets come from a sort by reconcile_order that is not stable.      *)
(***************************************************************************)
EXTENDS NodeDisruptionPolicy

CONSTANTS PolicyKeys,     \* paths and unit names
          PolicyActions,
          DependentSets   \* sets of dependents, as AddDependent takes them

Sections == UNION {[K -> PolicyActions] : K \in SUBSET PolicyKeys}
Policies == [files : Sections \cup {Absent}, units : Sections \cup {Absent}, sshkey : PolicyActions \cup {Absent}]
Merges   == [files : Sections, units : Sections, sshkey : PolicyActions \cup {Absent}]

ASSUME PolicyAssumption ==
    /\ Absent \notin PolicyActions /\ Absent \notin Sections /\ Absent \notin Policies /\ Absent \notin Merges
    /\ \A D \in DependentSets : \A d \in D :
         /\ d.active \in BOOLEAN /\ d.rendered \in BOOLEAN /\ d.excluded \in BOOLEAN
         /\ d.policy \in Policies \cup {Absent}
         /\ d.mc \in [files : SUBSET PolicyKeys, units : SUBSET PolicyKeys, ssh : BOOLEAN, other : BOOLEAN]

VARIABLES dependents,   \* of the catalog
          merged,       \* those the loop has been through
          aggregate     \* the entries so far, or Absent after an error

policyVars == <<dependents, merged, aggregate>>

MergeDependent(d) ==
    /\ aggregate # Absent /\ d \in dependents \ merged
    /\ merged' = merged \cup {d} /\ aggregate' = AddDependent(aggregate, d)
    /\ UNCHANGED dependents

PolicyInit(D) == dependents = D /\ merged = {} /\ aggregate = NoEntries

PolicyStep == \E d \in dependents : MergeDependent(d)

-----------------------------------------------------------------------------
(* Properties *)

Included(D) == {d \in D : d.active /\ d.rendered /\ ~d.excluded}

\* Two policies want different actions for one thing.
Disagree(p, q) ==
    \/ \E s \in KeyedSections : \E k \in Keys(p[s]) \cap Keys(q[s]) : p[s][k] # q[s][k]
    \/ p.sshkey # Absent /\ q.sshkey # Absent /\ p.sshkey # q.sshkey

\* There is an action for everything the MachineConfig changes.
ActsOn(p, mc) ==
    /\ ~mc.other /\ (mc.ssh => p.sshkey # Absent)
    /\ \A s \in KeyedSections : \A k \in mc[s] : p[s] # Absent /\ k \in DOMAIN p[s]

Faulty(d) == d.policy = Absent \/ (d.policy # Absent /\ ~ActsOn(d.policy, d.mc))

Conflicting(D) ==
    \/ \E d \in Included(D) : Faulty(d)
    \/ \E d, e \in {i \in Included(D) : ~Faulty(i)} : Disagree(d.policy, e.policy)

\* The aggregate is refused exactly if a policy is missing, does not cover its
\* MachineConfig, or disagrees with another one; the order of the assets makes no
\* difference (node_disruption_policy.go 212-302).
ConflictsAreRefused ==
    merged = dependents \/ aggregate = Absent => (aggregate = Absent <=> Conflicting(dependents))

\* Something is asked for, and no list is empty: other policies are errors when
\* their MachineConfig's turn comes.
WellFormed(p) == p # EmptyPolicy /\ \A s \in KeyedSections : p[s] # Absent => DOMAIN p[s] # {}

\* Once MCO's status holds the aggregate, the policy of every included dependent
\* is effective and covers all that its MachineConfig changes, so none of them
\* waits for ever; and the aggregate has no entry besides theirs
\* (node_disruption_policy.go 317-342, 537-609).
AggregateServesAll ==
    aggregate # Absent =>
      /\ \A d \in Included(merged) :
           /\ WellFormed(d.policy) => EntriesMatch(aggregate, d.policy) = "yes"
           /\ ActsOn(aggregate, d.mc)
      /\ \A s \in KeyedSections : \A k \in DOMAIN aggregate[s] :
           \E d \in Included(merged) : k \in Keys(d.policy[s])
=============================================================================
