SPECIFICATION RSpec
CONSTANTS
    p1 = p1  p2 = p2  e1 = e1
    NoEdit = NoEdit
    Projects = {p1, p2}
    Editors = {e1}
    MaxEdits = 1
    MaxBatch = 2
    Faults = {"batch", "api", "cache"}
    MaxFaults = 1
    MaxRebuilds = 2
SYMMETRY ProjectSymmetry
INVARIANTS
    LiveExists
    RebuildHeals
PROPERTIES
    RebuildIsUnseen
CHECK_DEADLOCK FALSE
