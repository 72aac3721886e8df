SPECIFICATION Spec
CONSTANTS
    a = a
    b = b
    c = c
    wifi = wifi
    bluetooth = bluetooth
    Worker = Worker
    Paths <- ThreePaths
    Callers <- RequestThreads
    InflightMax = 2
    MaxSeq = 3
INVARIANTS
    ArraysFit
    OneWriterPerPath
    LastRequestIsShown
PROPERTIES
    LaterRequestWins
    SavedUnlessSuperseded
    EveryCallReturns
    LastRequestIsWritten
CHECK_DEADLOCK FALSE
