\* Step 1.6 on an object the operator never paused.
CONSTANTS
    Capacity = 1
    Threshold = 3
    Goldens = {"v1", "v2"}
    Overrides = {"none"}
    NotRendered = NotRendered
    Applicable = TRUE
    Namespaced = TRUE
    IsMachineConfig = FALSE
    MaxMoves = 3
SPECIFICATION Spec
PROPERTIES ResumeOnlyByUser
