\* Fair scheduling: one buffer size, three terminators, one aborting thread.
SPECIFICATION FairSpec
CONSTANTS
    r1 = r1
    a1 = a1
    NullPtr = NullPtr
    Reader = r1
    Aborters = {a1}
    Stream <- MCStream
    Sizes = {2}
    Terminators <- MCTerminators
PROPERTIES
    CallReturns
