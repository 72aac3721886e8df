SPECIFICATION Spec
CONSTANTS
    a = a
    b = b
    Tracks = {a}
    NoTrack = NoTrack
    LocalTracks = {a}
    Formats <- const_Formats
    Crossfades = {}
    MaxGen = 2
    MaxArm = 2
    MaxClip = 2
    Waits = TRUE
INVARIANTS
    WaitResultIsRight
PROPERTIES
    StopIsAcknowledged
    RequestIsAnswered
    WaiterReturns
    PauseReleasesOutput
    ImplementsSession
CHECK_DEADLOCK FALSE
