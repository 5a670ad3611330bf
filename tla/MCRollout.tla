----------------------------- MODULE MCRollout ------------------------------
(* Rendered states and pools are interchangeable: one state at first, and of *)
(* the initial selections that differ only in the names of pools, one.       *)
EXTENDS MachineConfigRollout, FiniteSets

CONSTANT Selections   \* initial selections, one for each number of pools
ASSUME SelectionsAssumption ==
    \A S \in SUBSET Pools : \E T \in Selections : T \subseteq Pools /\ Cardinality(S) = Cardinality(T)

RunInit == MCInit /\ golden = (CHOOSE g \in Goldens : TRUE) /\ selected \in Selections
RunSpec ==
    /\ RunInit /\ [][MCNext]_mcVars
    /\ WF_mcVars(MCReconcileStep)
    /\ WF_mcVars(Refill /\ UNCHANGED <<pools, staging, bypassSeen, first>>)
=============================================================================
