\* Two devices, two names, five arrivals and removals.  The model comes to
\* rest when the changes are used up and the dispatcher waits for the next.
SPECIFICATION Spec
CONSTANTS
    d1 = d1
    d2 = d2
    com3 = com3
    com4 = com4
    Devices = {d1, d2}
    Names = {com3, com4}
    Absent = Absent
    Unknown = Unknown
    NoNotification = NoNotification
    MaxChanges = 5
SYMMETRY Interchangeable
CHECK_DEADLOCK FALSE
INVARIANTS
    TypeOK
    SettledMapIsRight
    ExistingPortsSilent
PROPERTIES
    CallbackIsNews
