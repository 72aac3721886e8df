SPECIFICATION Safety
CONSTANTS
    a = a
    b = b
    Tracks = {a, b}
    NoTrack = NoTrack
    LocalTracks = {a}
    Formats <- const_Formats
    Crossfades = {TRUE, FALSE}
    MaxGen = 2
    MaxArm = 3
    MaxClip = 2
    Waits = FALSE
INVARIANTS
    WorkerOwnsTheTrack
    RequestIsServed
    ProgressIsTrusted
    TagsAreOfTheRequest
PROPERTIES
    OnlyClipsTakeIdleOutput
    StopAcknowledgedReleased
CHECK_DEADLOCK FALSE
