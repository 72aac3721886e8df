SPECIFICATION Spec
CONSTANTS
    a = a
    b = b
    NoTrack = NoTrack
    Tracks <- TwoTracks
    Lists <- ShortLists
    PlayModes = {"SEQUENTIAL", "REPEAT_ALL", "REPEAT_ONE", "SHUFFLE", "SHUFFLE_ONCE"}
    Failures = {"DECODER", "OUTPUT"}
    MaxQueue = 2
    ExternalDac = FALSE
SYMMETRY Interchangeable
INVARIANTS
    TypeOK
    CheckpointSurvivesRestart
    NeverBackToAFailedTrack
CHECK_DEADLOCK FALSE
