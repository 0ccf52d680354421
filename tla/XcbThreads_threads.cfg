SPECIFICATION FairSpec
CONSTANTS
    t1 = t1
    t2 = t2
    t3 = t3
    t4 = t4
    NoThread = NoThread
    Thread <- Four
    Programs <- ThreadPrograms
INVARIANTS
    ThreadsTypeOK
    NoOrphans
    ReplyWakesReader
    SocketExclusive
    WireInOrder
    WrittenIsOnWire
    AssertionsHold
PROPERTY
    AllReturn
CHECK_DEADLOCK FALSE
