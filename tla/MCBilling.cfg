SPECIFICATION Spec
CONSTANTS
    MaxCharges = 3
    MaxIntents = 2
    Begun = TRUE
    Sold = {"proration"}
    Delayed = {"proration"}
    Faults = {"again", "answer", "stop", "archon"}
    MaxFaults = 1
CONSTRAINT FewAtOnce
INVARIANTS
    TypeOK
    PaidOnce
    OneCharge
CHECK_DEADLOCK FALSE
