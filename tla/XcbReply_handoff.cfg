SPECIFICATION Spec
CONSTANTS
    Seq16 = 4
    Seq32 = 32
    Shapes <- QueryShapes
    OwnerFlags <- AnyOwner
    Batches <- SomeBatches
    OwnerContract = "expected"
    Discarding = "inner"
    EventTypes <- PlainEvents
    Faults <- AllFaults
    MaxPending = 2
    MaxRequest = 3
    MaxPacket = 2
INVARIANTS
    ErrorsRouted
    OwnerEntryEnds
    OnlyDiscardedDropped
    NullIsFinal
PROPERTY
    Implements
CHECK_DEADLOCK FALSE
