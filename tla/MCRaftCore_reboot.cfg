SPECIFICATION Spec
CONSTANTS
    Node = {n1, n2, n3}
    Request = {c1}
    None = None
    MaxElections = 2
    MaxRounds = 0
    MaxStale = 0
    MaxCrashes = 2
    MaxLateAppends = 1
    MaxLatePersists = 0
    MaxExtras = 1
SYMMETRY Symmetry
INVARIANTS
    ElectionSafety
    HintsAcyclic
    AckIsReplicated
CHECK_DEADLOCK FALSE
