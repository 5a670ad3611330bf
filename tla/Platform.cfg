CONSTANTS
    Absent = Absent
    Retired = retired
    Dependent = dependent
    Plain = plain
    Ordinary = ordinary
    AdminEdits = TRUE
    Touched = {retired}
    Faults = TRUE
    MaxMoves = 2
SPECIFICATION Spec
INVARIANT PlatformTypeOK
PROPERTY ForeignObjectsSurvive
PROPERTY EffectiveActionHoldsDeletion
PROPERTY DependentsWaitForPolicy
PROPERTY PolicyBecomesAggregate
PROPERTY AssetsAreApplied
PROPERTY TombstonesAreCleared
CHECK_DEADLOCK FALSE
