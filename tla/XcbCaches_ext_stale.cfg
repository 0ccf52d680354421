SPECIFICATION Spec
CONSTANTS
    t1 = t1
    t2 = t2
    NoThread = NoThread
    Thread <- Two
    WordBits = 4
    big_requests = big_requests
    xc_misc = xc_misc
    other = other
    Programs <- GrowingPrograms
INVARIANT
    CacheStaysPut
CHECK_DEADLOCK FALSE
