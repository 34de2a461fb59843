SPECIFICATION Spec
CONSTANTS
    u1 = u1  u2 = u2  p1 = p1  p2 = p2  p3 = p3
    Users = {u1, u2}
    Payouts = {p1, p2, p3}
    UserOf <- TwoUsers
    MethodOf <- OneOfPaypal
    Earned <- OneEach
    Limit = 1
    Faults = {"link"}
    MaxMade = 2
    MaxFaults = 1
INVARIANTS
    UntrackedIsCounted
CHECK_DEADLOCK FALSE
