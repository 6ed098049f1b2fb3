SPECIFICATION FairSpec
CONSTANTS
    Names = {f1, f2}
    Restores = {r1, r2}
    Old = Old
    NoFile = NoFile
    Permits = 1
    MaxFailures = 1
INVARIANTS
    OldDataKept
PROPERTIES
    ReplacedExactly
    RestoreEnds
    FailureRestores
CHECK_DEADLOCK FALSE
