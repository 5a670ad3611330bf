------------------------- MODULE MCOperatorProcess --------------------------
(* Two CRDs: the HCO's, and one that asset "kind" requires and that gates    *)
(* asset "gated", whose kind is built in.                                    *)
EXTENDS OperatorProcess

CONSTANT Soft

MCAssets      == {"kind", "gated"}
MCRequiredCRD == [a \in MCAssets |-> IF a = "kind" THEN Soft ELSE NoCRD]
MCGateCRD     == [a \in MCAssets |-> IF a = "gated" THEN Soft ELSE NoCRD]

\* Where the TLS settings have a part in the disturbances, all CRDs are there at
\* first; where the CRDs have a part, there is no certificate at first.  The names
\* of the bundles are interchangeable.
RunInit ==
    /\ Init
    /\ configMap = CHOOSE ca \in CAs : TRUE
    /\ tlsMoves < MaxTLSMoves => installed = CRDs
    /\ crdMoves < MaxCRDMoves => ~cert

RunSpec == RunInit /\ [][Next]_vars /\ Fairness
=============================================================================
