CONSTANTS
    Absent = Absent
    Retired = retired
    Dependent = dependent
    Plain = plain
    Ordinary = ordinary
    AdminEdits = FALSE
    Touched = {}
    Faults = FALSE
    MaxMoves = 2
SPECIFICATION Spec
PROPERTY DeletedAfterObservation
CHECK_DEADLOCK FALSE
