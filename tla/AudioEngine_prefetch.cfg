SPECIFICATION Safety
CONSTANTS
    a = a
    b = b
    Tracks = {a, b}
    NoTrack = NoTrack
    LocalTracks = {a, b}
    Formats <- const_Formats
    Crossfades = {TRUE, FALSE}
    MaxGen = 1
    MaxArm = 3
    MaxClip = 2
    Waits = FALSE
INVARIANTS
    DecodesWhatItNames
CHECK_DEADLOCK FALSE
