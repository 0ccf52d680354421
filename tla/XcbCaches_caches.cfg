SPECIFICATION FairSpec
CONSTANTS
    t1 = t1
    t2 = t2
    NoThread = NoThread
    Thread <- Two
    WordBits = 4
    big_requests = big_requests
    xc_misc = xc_misc
    other = other
    Programs <- CachePrograms
INVARIANTS
    CachesTypeOK
    CacheCoherent
    MaxLengthRight
    SentAcceptedButFull
    IdsUnique
    RangesUsedUp
PROPERTY
    CachesReturn
CHECK_DEADLOCK FALSE
