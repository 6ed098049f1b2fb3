SPECIFICATION FairSpec
CONSTANTS
    Installs = {b1, b2}
    Rollbacks = {x1}
    First = First
    Absent = Absent
    Torn = Torn
    Faults = {"io", "expired", "signal"}
    MaxKills = 1
    Patience = "reloaded"
INVARIANTS
    FilesAgree
    InstallsDoNotTear

    
CHECK_DEADLOCK FALSE
