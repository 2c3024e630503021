\* As MCEventDispatcher.cfg with three changes and fairness, no symmetry.
SPECIFICATION FairSpec
CONSTANTS
    d1 = d1
    d2 = d2
    com3 = com3
    com4 = com4
    Devices = {d1, d2}
    Names = {com3, com4}
    Absent = Absent
    Unknown = Unknown
    NoNotification = NoNotification
    MaxChanges = 3
CHECK_DEADLOCK FALSE
PROPERTIES
    EventuallyRight
    StoppedThreadExits
