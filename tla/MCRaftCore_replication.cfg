SPECIFICATION Spec
CONSTANTS
    Node = {n1, n2, n3}
    Request = {c1, c2}
    None = None
    MaxElections = 2
    MaxRounds = 1
    MaxStale = 1
    MaxCrashes = 0
    MaxLateAppends = 0
    MaxLatePersists = 0
    MaxExtras = 1
VIEW CrashFreeView
CONSTRAINTS
    FirstComeFirst
    ExtrasBound
ACTION_CONSTRAINT NothingHeldBack
INVARIANTS
    TypeOK
    LogMatching
    StateMachineSafety
    LeaderCompleteness
    NoPanic
    AckIsReplicated
PROPERTIES
    AppliedIsStable
    ImplementsService
CHECK_DEADLOCK FALSE
