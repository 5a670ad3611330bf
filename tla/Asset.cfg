\* One namespaced asset that may render nothing, a bucket of one update, two
\* rendered states, every customization annotation.
CONSTANTS
    Capacity = 1
    Threshold = 3
    Goldens = {"v1", "v2"}
    Overrides = {"none","patch","rejectedPatch","misfitPatch","ignore","badIgnore"}
    NotRendered = NotRendered
    Applicable = FALSE
    Namespaced = TRUE
    IsMachineConfig = FALSE
    MaxMoves = 4
SPECIFICATION RunSpec
INVARIANTS TypeOK EveryPauseAnnounced
PROPERTIES HandsOffWhilePaused ResumeIsHonoured CustomizationReported Converges
