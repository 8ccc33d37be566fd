SPECIFICATION Spec
CONSTANTS
    Node = {n1, n2, n3}
    Request = {c1, c2}
    None = None
    MaxElections = 2
    MaxRounds = 1
    MaxStale = 0
    MaxCrashes = 0
    MaxLateAppends = 1
    MaxLatePersists = 0
    MaxExtras = 2
SYMMETRY Symmetry
VIEW CrashFreeView
INVARIANTS
    AckIsReplicated
CHECK_DEADLOCK FALSE
