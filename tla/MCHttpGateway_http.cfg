SPECIFICATION HttpSpec
CONSTANTS
    Node = {n1, n2, n3}
    Client = {c1, c2}
    None = None
    MaxInflight = 0
    MaxRequests = 1
    MaxElections = 1
    MaxCrashes = 0
INVARIANTS
    HttpTypeOK
    SelfAnswerIsOwn
PROPERTIES
    ReturnedAnswerLands
    Settles
CHECK_DEADLOCK FALSE
