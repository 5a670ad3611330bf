\* The compliance gauge of a cluster-scoped asset, in the long run.
CONSTANTS
    Capacity = 1
    Threshold = 2
    Goldens = {"v1", "v2"}
    Overrides = {"none"}
    NotRendered = NotRendered
    Applicable = TRUE
    Namespaced = FALSE
    IsMachineConfig = FALSE
    MaxMoves = 3
SPECIFICATION Spec
PROPERTIES ComplianceSettles
