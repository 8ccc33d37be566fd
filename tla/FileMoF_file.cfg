SPECIFICATION FairSpec
CONSTANTS
    File = {f1, f2, f3, f4, f5, f6}
    NoFile = NoFile
    MaxDocuments = 3
    MaxCrashes = 2
INVARIANTS
    TypeOK
    NeverTorn
    AnsweredSurvives
    TempsBounded
PROPERTIES
    Recovers
    ImplementsStorage
CHECK_DEADLOCK FALSE
