\* One reader and one writer, two aborting threads, fair scheduling.
SPECIFICATION FairSpec
CONSTANTS
    r1 = r1
    r2 = r2
    w1 = w1
    a1 = a1
    a2 = a2
    NullPtr = NullPtr
    Readers = {r1}
    Writers = {w1}
    Aborters = {a1, a2}
PROPERTIES
    AbortEndsCall
