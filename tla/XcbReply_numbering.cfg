SPECIFICATION Spec
CONSTANTS
    Seq16 = 4
    Seq32 = 32
    Shapes <- SeqShapes
    OwnerFlags <- CheckedOwner
    Batches <- LongBatches
    OwnerContract = "expected"
    Discarding = "none"
    EventTypes <- AllEvents
    Faults <- NoFaults
    MaxPending = 1
    MaxRequest = 5
    MaxPacket = 2
INVARIANTS
    SequenceExact
    WindowInv
CHECK_DEADLOCK FALSE
