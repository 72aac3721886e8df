SPECIFICATION Spec
CONSTANTS
    a = a
    b = b
    NoTrack = NoTrack
    Tracks <- TwoTracks
    Lists <- ShortLists
    PlayModes = {"SEQUENTIAL", "REPEAT_ALL", "REPEAT_ONE"}
    Failures = {}
    MaxQueue = 3
    ExternalDac = FALSE
INVARIANT PlayingIsCurrent
CHECK_DEADLOCK FALSE
