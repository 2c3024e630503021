\* What the hardware test assumes of a timeout.
SPECIFICATION Spec
CONSTANTS
    r1 = r1
    a1 = a1
    NullPtr = NullPtr
    Reader = r1
    Aborters = {a1}
    Stream <- MCStream
    Sizes = {2, 3}
    Terminators <- MCTerminators
PROPERTIES
    CountedReadKeepsAll
