SPECIFICATION Spec
CONSTANTS
    MaxDepth = 4
    Alphabets <- MCAlphabets
INVARIANTS
    ParsesJson
    RoundTrips
    DepthIsNesting
CHECK_DEADLOCK FALSE
