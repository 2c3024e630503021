\* Two concurrent readers, one writer, two aborting threads.
SPECIFICATION Spec
CONSTANTS
    r1 = r1
    r2 = r2
    w1 = w1
    a1 = a1
    a2 = a2
    NullPtr = NullPtr
    Readers = {r1, r2}
    Writers = {w1}
    Aborters = {a1, a2}
SYMMETRY Threads
INVARIANTS
    TypeOK
    PendingIsLive
    NoIoOutlivesFrame
    AbortNotLost
    CallInReach
PROPERTIES
    AbortDecidesResult
    OnlyOwnerWithdraws
    ImplementsContract
