\* The staging and the compliance series of one MachineConfig, in the long run.
CONSTANTS
    Capacity = 1
    Threshold = 2
    Goldens = {"v1", "v2"}
    Overrides = {"none"}
    NotRendered = NotRendered
    Applicable = TRUE
    Namespaced = FALSE
    IsMachineConfig = TRUE
    MaxMoves = 3
    Pools = {p1}
    NotStaged = NotStaged
SPECIFICATION MCSpec
PROPERTIES StagedMeansDeferred
