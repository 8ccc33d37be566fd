SPECIFICATION Spec
CONSTANTS
    Node = {n1, n2, n3}
    Request = {}
    None = None
    MaxElections = 2
    MaxRounds = 1
    MaxStale = 0
    MaxCrashes = 1
    MaxLateAppends = 0
    MaxLatePersists = 1
    MaxExtras = 1
SYMMETRY Symmetry
INVARIANTS
    ElectionSafety
CHECK_DEADLOCK FALSE
