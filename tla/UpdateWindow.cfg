SPECIFICATION Spec
CONSTANTS
    Artifacts = {a1, a2, a3}
    Original = original
    None = None
    Torn = Torn
    Mismatched = {a1}
    Broken = {a2}
    Faults = {"activate", "rollback", "commit", "io"}
    StageInWindow = FALSE
INVARIANTS
    OnlyVerifiedRuns
    GoodBinaryKept
    StateTellsTrial
PROPERTIES
    EarlyExitRestores
    ImplementsTrial
CHECK_DEADLOCK FALSE
