\* Two calls for three bytes, one aborting thread, fair scheduling.
SPECIFICATION FairSpec
CONSTANTS
    w1 = w1
    a1 = a1
    NullPtr = NullPtr
    NoCall = NoCall
    Writer = w1
    Aborters = {a1}
    MessageLength = 3
    TxSize = 2
    IntMax = 7
    TimeoutConfigs <- MCTimeoutConfigs
    MaxCalls = 2
INVARIANTS
    TypeOK
    CountsWhatWasSent
    WaitsBounded
PROPERTIES
    WriteReturns
