SPECIFICATION Spec
CONSTANTS
    MaxOps = 3
    MaxStarts = 2
INVARIANTS
    InhibitHasOwner
    OriginalRoleIsRecorded
    DacKeepsTheCharger
    CardHasOneOwner
CHECK_DEADLOCK FALSE
