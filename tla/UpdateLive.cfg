SPECIFICATION FairSpec
CONSTANTS
    Artifacts = {a1, a2}
    Original = original
    None = None
    Torn = Torn
    Mismatched = {}
    Broken = {}
    Faults = {}
    StageInWindow = TRUE
PROPERTIES
    UpdateSettles
    ServiceReturns
    RestartApplies
