SPECIFICATION HttpSpec
CONSTANTS
    Node = {n1, n2}
    Client = {c1, c2}
    None = None
    MaxInflight = 4
    MaxRequests = 1
    MaxElections = 1
    MaxCrashes = 0
SYMMETRY Symmetry
INVARIANTS
    OwnConnection
CHECK_DEADLOCK FALSE
