SPECIFICATION FairSpec
CONSTANTS
    a = a  b = b  c = c  d = d
    None = None
    Tasks = {a, b, c, d}
    KeyOf <- ThreeAndOne
INVARIANTS
    NoLostWakeup
PROPERTIES
    WaitersReturn
    ImplementsKeyedLock
CHECK_DEADLOCK FALSE
