SPECIFICATION FairSpec
CONSTANTS
    MaxCharges = 3
    MaxIntents = 2
    Begun = FALSE
    Sold = {"first", "upgrade"}
    Delayed = {"first"}
    Faults = {}
    MaxFaults = 0
INVARIANTS
    SucceededIsPaid
    NeverFree
PROPERTIES
    ProcessingEnds
    CancelEnds
CHECK_DEADLOCK FALSE
