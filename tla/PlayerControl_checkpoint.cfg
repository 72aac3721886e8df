SPECIFICATION Spec
CONSTANTS
    a = a
    b = b
    NoTrack = NoTrack
    Tracks <- TwoTracks
    Lists <- ShortLists
    PlayModes = {"SEQUENTIAL"}
    Failures = {}
    MaxQueue = 3
    ExternalDac = FALSE
INVARIANT CheckpointIsWritable
CHECK_DEADLOCK FALSE
