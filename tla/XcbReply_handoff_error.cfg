SPECIFICATION Spec
CONSTANTS
    Seq16 = 4
    Seq32 = 32
    Shapes <- VoidShapes
    OwnerFlags <- CheckedOwner
    Batches <- SomeBatches
    OwnerContract = "expected"
    Discarding = "none"
    EventTypes <- NoEvents
    Faults <- NoFaults
    MaxPending = 2
    MaxRequest = 3
    MaxPacket = 2
INVARIANT
    UncheckedErrorAtHandoff
CHECK_DEADLOCK FALSE
