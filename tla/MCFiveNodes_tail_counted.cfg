SPECIFICATION Spec
CONSTANTS
    Node = {n1, n2, n3, n4, n5}
    Request = {c1, c2, c3}
    None = None
    MaxElections = 2
    MaxRounds = 0
    MaxStale = 0
    MaxCrashes = 0
    MaxLateAppends = 0
    MaxLatePersists = 0
    MaxExtras = 0
VIEW CrashFreeView
CONSTRAINT Script
ACTION_CONSTRAINTS
    NothingHeldBack
    NoPause
INVARIANTS
    AckIsReplicated
CHECK_DEADLOCK FALSE
