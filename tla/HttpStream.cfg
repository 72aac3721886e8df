SPECIFICATION Spec
CONSTANTS
    Length = 4
    Capacity = 3
    Chunk = 2
    Validators = {"strong", "dated", "weak", "none"}
    MaxCalls = 3
INVARIANTS
    RingHoldsTheEntity
PROPERTIES
    ShortReadMeansTheEnd
    StopsWithoutTheServer
CHECK_DEADLOCK FALSE
