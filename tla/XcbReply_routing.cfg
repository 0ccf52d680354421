SPECIFICATION Spec
CONSTANTS
    Seq16 = 4
    Seq32 = 32
    Shapes <- AnswerShapes
    OwnerFlags <- NoFlags
    Batches <- NoBatches
    OwnerContract = "expected"
    Discarding = "any"
    EventTypes <- PlainEvents
    Faults <- MapFaults
    MaxPending = 2
    MaxRequest = 3
    MaxPacket = 3
INVARIANTS
    TypeOK
    RoutedToOwner
    ErrorsRouted
    NothingLost
    NullIsFinal
    RepliesInOrder
    DiscardHonoured
    OnlyDiscardedDropped
    FramingExact
PROPERTY
    Implements
CHECK_DEADLOCK FALSE
