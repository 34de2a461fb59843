SPECIFICATION Spec
CONSTANTS
    j1 = j1  j2 = j2  i1 = i1  i2 = i2  i3 = i3  t1 = t1  t2 = t2  t3 = t3
    None = None
    Jobs = {j1, j2}
    Instances = {i1, i2}
    Tasks = {t1, t2}
    Installed = {i1, i2}
    Kind <- SharedAndRepair
    MaxRunning = 1
    User = "careful"
    MaxCrashes = 2
    MaxReloads = 0
    MaxFaults = 1
    MaxRemovals = 0
SYMMETRY TaskSymmetry
INVARIANTS
    NoStuckInstance
    NoBrokenInstance
    DamageIsRecorded
CHECK_DEADLOCK FALSE
