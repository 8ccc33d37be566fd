SPECIFICATION Spec
CONSTANTS
    Node = {n1, n2, n3}
    Client = {c1, c2, c3}
    None = None
    MaxInflight = 1
    MaxRequests = 1
    MaxElections = 1
    MaxCrashes = 1
SYMMETRY Symmetry
INVARIANTS
    TypeOK
    OwnAnswer
    AnsweredOnce
    RefusedIsNotLogged
    TableBounded
CHECK_DEADLOCK FALSE
