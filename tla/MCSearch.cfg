SPECIFICATION FairSpec
CONSTANTS
    p1 = p1  e1 = e1  e2 = e2
    NoEdit = NoEdit
    Projects = {p1}
    Editors = {e1, e2}
    MaxEdits = 2
    MaxBatch = 2
    Faults = {"send", "restart", "cache", "api", "batch"}
    MaxFaults = 2
INVARIANTS
    TypeOK
    SettledIsCurrent
    HiddenIsNotFound
    ListedIsFound
PROPERTIES
    EventuallySettled
CHECK_DEADLOCK FALSE
