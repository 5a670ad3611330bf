----------------------------- MODULE MCPatcher ------------------------------
(* One of the rendered states at first: their names are interchangeable, so  *)
(* that the behaviours from any other are the same up to renaming.           *)
EXTENDS Patcher

RunInit == Init /\ golden = CHOOSE g \in Goldens : TRUE
RunSpec == RunInit /\ [][Next]_vars /\ WF_vars(ReconcileStep) /\ WF_vars(Refill)
=============================================================================
