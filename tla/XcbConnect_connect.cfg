SPECIFICATION Spec
CONSTANTS
    t1 = t1
    t2 = t2
    NoThread = NoThread
    Thread <- Two
    IntHalf = 8
    ULONG_MAX = 63
    Programs <- ConnectPrograms
INVARIANTS
    ConnectTypeOK
    ReleasedOnce
    NothingLeaks
    ConnectedWhole
    ParseRight
    ReachesServer
    AuthorizedRight
    NoncesDiffer
CHECK_DEADLOCK FALSE
