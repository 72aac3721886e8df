SPECIFICATION Spec
CONSTANTS
    MaxChange = 3
    MaxStarts = 1
INVARIANTS
    ClosedWhileEnding
    FlushedIsSaved
    PowerLossKeepsSettings
PROPERTIES
    FlushReturns
    AcceptedIsWritten
CHECK_DEADLOCK FALSE
