\* Two threads; all five kinds of settings.
SPECIFICATION Spec
CONSTANTS
    t1 = t1
    t2 = t2
    Threads = {t1, t2}
    Values <- MCValues
    Configs <- MCConfigs
    FactoryDcb <- MCFactoryDcb
    NoDcb = NoDcb
SYMMETRY Symmetry
INVARIANTS
    TypeOK
    LastSetHolds
    NeverMixed
    BreakIsSent
