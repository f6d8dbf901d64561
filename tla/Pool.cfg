SPECIFICATION FairSpec
CONSTANTS
    c1 = c1
    c2 = c2
    c3 = c3
    nobody = nobody
    Caller <- MCCaller
    MaxBuf = 2
    Initial = 0
CHECK_DEADLOCK FALSE
INVARIANTS
    PoolTypeOK
    EachBufferInOnePlace
    WaitingListIsLive
PROPERTIES
    CommittedAcquireReturns
    CommitAllocatesAll
