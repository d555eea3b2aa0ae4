SPECIFICATION Spec
CONSTANTS
    c1 = c1
    c2 = c2
    c3 = c3
    c4 = c4
    None = None
    Commits <- MCThree
    MAX_AGE = 1
    MINT_TIMEOUT = 1
    MaxQuantity = 2
    MaxRequests = 1
    MaxFaults = 1
CHECK_DEADLOCK FALSE
INVARIANTS RecoversPending
