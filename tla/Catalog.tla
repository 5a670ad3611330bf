------------------------------ MODULE Catalog -------------------------------
(***************************************************************************)
(* What is derived from the catalog and from lists of the cluster, each a  *)
(* loop whose order the code does not choose: the operator's permissions,  *)
(* the assets of a pass, the aggregate policy of their MachineConfigs, and *)
(* the storage class of their templates.  The loops share no state, so a   *)
(* behaviour runs one of them; the others have nothing to do.              *)
(***************************************************************************)
EXTENDS RBACGenerator, Activation, PolicyAggregate, StorageClasses

vars == <<catalog, walked, seen, resources, collected,
          world, assets, context, counted, optedIn, considered, taken,
          dependents, merged, aggregate, classes, passed, selected>>

NoDocuments == [active |-> {}, tombstones |-> {}]

Init ==
    \/ /\ \E c \in Catalogs : RBACInit(c)
       /\ ActivationInit(NoArg, {}) /\ PolicyInit({}) /\ ClassInit({})
    \/ /\ \E w \in Worlds, as \in AssetSets : ActivationInit(w, as)
       /\ RBACInit(NoDocuments) /\ PolicyInit({}) /\ ClassInit({})
    \/ /\ \E D \in DependentSets : PolicyInit(D)
       /\ RBACInit(NoDocuments) /\ ActivationInit(NoArg, {}) /\ ClassInit({})
    \/ /\ \E C \in ClassSets : ClassInit(C)
       /\ RBACInit(NoDocuments) /\ ActivationInit(NoArg, {}) /\ PolicyInit({})

Next ==
    \/ catalog # NoDocuments /\ RBACStep /\ UNCHANGED <<activationVars, policyVars, classVars>>
    \/ assets # {} /\ ActivationStep /\ UNCHANGED <<rbacVars, policyVars, classVars>>
    \/ PolicyStep /\ UNCHANGED <<rbacVars, activationVars, classVars>>
    \/ ClassStep /\ UNCHANGED <<rbacVars, activationVars, policyVars>>

Spec == Init /\ [][Next]_vars

-----------------------------------------------------------------------------
(* Properties *)

\* Values of the variables; every loop stays within its list.
CatalogTypeOK ==
    /\ walked.active \subseteq catalog.active /\ walked.tombstones \subseteq catalog.tombstones
    /\ walked.roles \in BOOLEAN /\ seen \subseteq APIs \X Kinds \X (Names \cup {NoName})
    /\ resources \in Seq([api : APIs, kind : Kinds, name : Names \cup {NoName}, needsDelete : BOOLEAN])
    /\ collected \subseteq PolicyRules
    /\ taken \subseteq considered /\ considered \subseteq counted /\ counted \subseteq assets
    /\ considered # {} => counted = assets
    /\ merged \subseteq dependents /\ aggregate \in Merges \cup {Absent}
    /\ passed \subseteq classes /\ selected \in passed \cup {NoClass}
=============================================================================
