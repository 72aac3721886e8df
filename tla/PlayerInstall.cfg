SPECIFICATION Spec
CONSTANTS
    packagedOne = packagedOne
    newer = newer
    Images = {packagedOne, newer}
    Good = {packagedOne, newer}
    Stamp <- StampOf
    NoImage = NoImage
    Archives = 2
    MaxFaults = 2
INVARIANTS
    InstalledIsWhole
    NotOfferedAgain
PROPERTIES
    UpdateIsNotLost
CHECK_DEADLOCK FALSE
