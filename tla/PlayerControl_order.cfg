SPECIFICATION Spec
CONSTANTS
    a = a
    b = b
    NoTrack = NoTrack
    Tracks <- TwoTracks
    Lists <- OneLists
    PlayModes = {"SHUFFLE", "SHUFFLE_ONCE"}
    Failures = {}
    MaxQueue = 3
    ExternalDac = FALSE
SYMMETRY Interchangeable
INVARIANTS
    BagIsPermutation
    EditHitsWhatWasShown
PROPERTIES
    PlayNextIsNext
CHECK_DEADLOCK FALSE
