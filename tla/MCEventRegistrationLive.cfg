\* One application thread and three registrations, fair scheduling.
SPECIFICATION FairSpec
CONSTANTS
    t1 = t1
    t2 = t2
    l1 = l1
    l2 = l2
    l3 = l3
    NoListener = NoListener
    Threads = {t1}
    Listeners = {l1, l2, l3}
PROPERTIES
    SetReturns
