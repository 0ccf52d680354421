SPECIFICATION FairSpec
CONSTANTS
    t1 = t1
    t2 = t2
    t3 = t3
    t4 = t4
    NoThread = NoThread
    Thread <- Two
    Programs <- StealingPrograms
PROPERTY
    AllReturn
CHECK_DEADLOCK FALSE
