\* Two application threads and three registrations.
SPECIFICATION Spec
CONSTANTS
    t1 = t1
    t2 = t2
    l1 = l1
    l2 = l2
    l3 = l3
    NoListener = NoListener
    Threads = {t1, t2}
    Listeners = {l1, l2, l3}
SYMMETRY Alike
INVARIANTS
    TypeOK
    RunningIsOwned
    JoinsGoForward
PROPERTIES
    DeliversInTurn
    ReplacedIsSilent
