\* Three threads and three openings that all get the same handle value.
SPECIFICATION Spec
CONSTANTS
    t1 = t1
    t2 = t2
    t3 = t3
    h1 = h1
    Threads = {t1, t2, t3}
    Handles = {h1}
    NoHandle = NoHandle
    MaxOpens = 3
SYMMETRY Interchangeable
INVARIANTS
    TypeOK
    StateIsOwn
    EntriesHaveOwners
