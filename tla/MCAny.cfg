SPECIFICATION Spec
CONSTANTS
    j1 = j1  j2 = j2  i1 = i1  i2 = i2  i3 = i3  t1 = t1  t2 = t2  t3 = t3
    None = None
    Jobs = {j1}
    Instances = {i1}
    Tasks = {t1, t2}
    Installed = {i1}
    Kind <- OneShared
    MaxRunning = 1
    User = "any"
    MaxCrashes = 1
    MaxReloads = 1
    MaxFaults = 1
    MaxRemovals = 1
SYMMETRY TaskSymmetry
INVARIANTS
    ActiveCanRollBack
CHECK_DEADLOCK FALSE
