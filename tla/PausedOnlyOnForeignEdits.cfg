\* Pauses after nothing but changes of the rendered asset and failed applies.
CONSTANTS
    Capacity = 2
    Threshold = 3
    Goldens = {"v1", "v2"}
    Overrides = {"none"}
    NotRendered = NotRendered
    Applicable = TRUE
    Namespaced = TRUE
    IsMachineConfig = FALSE
    MaxMoves = 4
SPECIFICATION Spec
PROPERTIES PausedOnlyOnForeignEdits
