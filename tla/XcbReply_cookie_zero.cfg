SPECIFICATION Spec
CONSTANTS
    Seq16 = 4
    Seq32 = 8
    Shapes <- VoidShapes
    OwnerFlags <- NoFlags
    Batches <- NoBatches
    OwnerContract = "expected"
    Discarding = "none"
    EventTypes <- NoEvents
    Faults <- NoFaults
    MaxPending = 2
    MaxRequest = 8
    MaxPacket = 2
INVARIANT
    CookieNonZero
CHECK_DEADLOCK FALSE
