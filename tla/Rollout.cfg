\* One MachineConfig with two rendered states, two pools, a bucket of one update.
CONSTANTS
    Capacity = 1
    Threshold = 2
    Goldens = {"v1", "v2"}
    Overrides = {"none"}
    NotRendered = NotRendered
    Applicable = TRUE
    Namespaced = FALSE
    IsMachineConfig = TRUE
    MaxMoves = 3
    Pools = {p1, p2}
    NotStaged = NotStaged
    Selections = {{}, {p1}, {p1, p2}}
SPECIFICATION RunSpec
INVARIANTS MCTypeOK MirrorIsConfigMap StagedSinceKept
PROPERTIES RolloutReleases HeldMeansStaged
